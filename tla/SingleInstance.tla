--------------------------- MODULE SingleInstance ---------------------------
(* DGuiApplicationHelper::setSingleInstance: of the processes that call it    *)
(* with the same key, the one that gets the lock file listens on a local      *)
(* socket; the others connect to it, wait until it greets them, send it their *)
(* arguments, and it emits newProcessInstance.  The unit of interleaving is   *)
(* one operation on the lock file, the socket's path or a connection.         *)
(*                                                                            *)
(* QLockFile: a lock of a process that is gone is stale and can be taken.     *)
(* QLocalServer: listen() with access options renames its socket over         *)
(* whatever has that path, close() removes whatever has that path.            *)
EXTENDS Integers, FiniteSets

CONSTANTS
    Procs,      \* the processes
    NoOne,
    Keys,       \* the keys, with the scope, the user or group and the pid namespace
    NoKey,
    Timeouts,   \* is the interval (setSingleInstanceInterval) other than -1
    MaxCalls    \* bound on the number of calls

ASSUME InstanceAssumption ==
    /\ NoOne \notin Procs
    /\ NoKey \notin Keys
    /\ Timeouts \in BOOLEAN
    /\ MaxCalls \in Nat

VARIABLES
    lock,        \* the process that holds the lock file of each key
    path,        \* the process whose socket the path of each key names
    \* Each process:
    pc,          \* where it is: "off", in a call, in its event loop, exiting
    arg,         \* the key of its call
    new_server,  \* is it the call that created _d_singleServer
    lockKey,     \* the key of its static QLockFile, NoKey before the first call
    listening,   \* the key _d_singleServer listens on
    handles,     \* is newConnection connected to the handler
    server,      \* the process its last QLocalSocket was connected to, if alive
    link,        \* the state of that connection
    inbox,       \* the processes whose message it has not read
    \* History:
    calls,       \* how many calls were made
    heard,       \* newProcessInstance was emitted for its last call
    gaveUp,      \* the interval of its last call was over
    mislocked,   \* some call used the lock file of another key
    crossed      \* a process began to listen while another was exiting

files == <<lock, path>>
mine == <<arg, new_server, lockKey, listening, handles>>
connections == <<server, link, inbox>>
history == <<calls, heard, gaveUp, mislocked, crossed>>
vars == <<files, pc, mine, connections, history>>

CallPC == {"unlock", "try_lock", "listen", "connect", "wait"}

Init ==
    /\ lock = [k \in Keys |-> NoOne]
    /\ path = [k \in Keys |-> NoOne]
    /\ pc = [p \in Procs |-> "off"]
    /\ arg = [p \in Procs |-> NoKey]
    /\ new_server = [p \in Procs |-> FALSE]
    /\ lockKey = [p \in Procs |-> NoKey]
    /\ listening = [p \in Procs |-> NoKey]
    /\ handles = [p \in Procs |-> FALSE]
    /\ server = [p \in Procs |-> NoOne]
    /\ link = [p \in Procs |-> "none"]
    /\ inbox = [p \in Procs |-> {}]
    /\ calls = 0
    /\ heard = [p \in Procs |-> FALSE] /\ gaveUp = [p \in Procs |-> FALSE]
    /\ mislocked = FALSE /\ crossed = FALSE

Step(p, from, to) == pc[p] = from /\ pc' = [pc EXCEPT ![p] = to]

(* The process whose socket is at the path of k, if it still listens there.   *)
Answers(k, s) == path[k] = s /\ listening[s] = k

Holds(p) == lockKey[p] # NoKey /\ lock[lockKey[p]] = p
FreeLock(p) == lock' = [k \in Keys |-> IF lock[k] = p THEN NoOne ELSE lock[k]]
ClosePath(p) ==
    path' = IF listening[p] = NoKey THEN path
            ELSE [path EXCEPT ![listening[p]] = NoOne]

(* Connections that were not accepted are reset when the server closes.       *)
ResetLinks(p) ==
    link' = [c \in Procs |-> IF server[c] = p /\ link[c] = "connected"
                             THEN "reset" ELSE link[c]]

-----------------------------------------------------------------------------
(* Mutant: the server is not closed.                                          *)
Call_Open(p, k) ==
    /\ pc[p] \in {"off", "idle"}
    /\ calls < MaxCalls
    /\ calls' = calls + 1
    /\ pc' = [pc EXCEPT ![p] = "unlock"]
    /\ arg' = [arg EXCEPT ![p] = k]
    /\ new_server' = [new_server EXCEPT ![p] = lockKey[p] = NoKey]
    /\ lockKey' = [lockKey EXCEPT ![p] = IF @ = NoKey THEN k ELSE @]
    /\ heard' = [heard EXCEPT ![p] = FALSE] /\ gaveUp' = [gaveUp EXCEPT ![p] = FALSE]
    /\ UNCHANGED <<lock, path, listening, handles, connections, mislocked, crossed>>

(* setSingleInstance(k): the server is closed, the lock created the first time *)
Call(p, k) ==
    /\ pc[p] \in {"off", "idle"}
    /\ calls < MaxCalls
    /\ calls' = calls + 1
    /\ pc' = [pc EXCEPT ![p] = "unlock"]
    /\ arg' = [arg EXCEPT ![p] = k]
    /\ new_server' = [new_server EXCEPT ![p] = lockKey[p] = NoKey]
    /\ lockKey' = [lockKey EXCEPT ![p] = IF @ = NoKey THEN k ELSE @]
    /\ ClosePath(p)
    /\ listening' = [listening EXCEPT ![p] = NoKey]
    /\ ResetLinks(p)
    /\ heard' = [heard EXCEPT ![p] = FALSE] /\ gaveUp' = [gaveUp EXCEPT ![p] = FALSE]
    /\ UNCHANGED <<lock, handles, server, inbox, mislocked, crossed>>

(* Mutant: the lock of an earlier call is kept.                               *)
Unlock_Keep(p) ==
    /\ Step(p, "unlock", "try_lock")
    /\ UNCHANGED <<files, mine, connections, history>>

(* A lock this process holds is given up, for one of the key of the call.     *)
Unlock(p) ==
    /\ Step(p, "unlock", "try_lock")
    /\ IF Holds(p) THEN FreeLock(p) /\ lockKey' = [lockKey EXCEPT ![p] = arg[p]]
       ELSE UNCHANGED <<lock, lockKey>>
    /\ UNCHANGED <<path, arg, new_server, listening, handles, connections, history>>

TryLock(p) ==
    /\ \/ /\ Step(p, "try_lock", "listen")
          /\ lock[lockKey[p]] = NoOne
          /\ lock' = [lock EXCEPT ![lockKey[p]] = p]
       \/ /\ Step(p, "try_lock", "connect")
          /\ lock[lockKey[p]] # NoOne
          /\ lock' = lock
    /\ mislocked' = (mislocked \/ lockKey[p] # arg[p])
    /\ UNCHANGED <<path, mine, connections, calls, heard, gaveUp, crossed>>

(* ... returns true.  Only the call that created the server connects it.      *)
Listen(p) ==
    /\ Step(p, "listen", "idle")
    /\ path' = [path EXCEPT ![arg[p]] = p]
    /\ listening' = [listening EXCEPT ![p] = arg[p]]
    /\ handles' = [handles EXCEPT ![p] = @ \/ new_server[p]]
    /\ crossed' = (crossed \/ \E q \in Procs : pc[q] = "exiting" /\ listening[q] = arg[p])
    /\ UNCHANGED <<lock, arg, new_server, lockKey, connections, calls, heard,
                   gaveUp, mislocked>>

(* The socket cannot be created: the call returns false and keeps the lock.   *)
ListenFails(p) ==
    /\ Step(p, "listen", "idle")
    /\ UNCHANGED <<files, mine, connections, history>>

(* A connection is made without the help of the server's event loop.          *)
Connect(p) ==
    \E s \in Procs :
        /\ Step(p, "connect", "wait")
        /\ Answers(arg[p], s)
        /\ server' = [server EXCEPT ![p] = s]
        /\ link' = [link EXCEPT ![p] = "connected"]
        /\ UNCHANGED <<files, mine, inbox, history>>

HangUp(p) ==
    /\ Step(p, "wait", "idle")
    /\ link' = [link EXCEPT ![p] = "none"]
    /\ UNCHANGED server

(* Mutant: whoever cannot connect becomes the server.                         *)
ConnectFails_Serve(p) ==
    /\ Step(p, "connect", "listen")
    /\ ~ \E s \in Procs : Answers(arg[p], s)
    /\ UNCHANGED <<files, mine, connections, history>>

ConnectFails(p) ==
    /\ Step(p, "connect", "idle")
    /\ ~ \E s \in Procs : Answers(arg[p], s)
    /\ UNCHANGED <<files, mine, connections, history>>

(* The greeting is there: the message is sent, if the server still lives.     *)
Reply(p) ==
    /\ link[p] = "greeted"
    /\ HangUp(p)
    /\ inbox' = [s \in Procs |-> IF s = server[p] THEN inbox[s] \cup {p} ELSE inbox[s]]
    /\ UNCHANGED <<files, mine, history>>

(* waitForReadyRead: the connection is reset, or the interval is over.        *)
WaitFails(p) ==
    /\ link[p] = "reset"
    /\ HangUp(p)
    /\ UNCHANGED <<files, mine, inbox, history>>

(* Mutant: a server that does not answer is taken for dead.                   *)
WaitTimeout_Remove(p) ==
    /\ Timeouts
    /\ HangUp(p)
    /\ gaveUp' = [gaveUp EXCEPT ![p] = TRUE]
    /\ path' = [path EXCEPT ![arg[p]] = NoOne]
    /\ UNCHANGED <<lock, mine, inbox, calls, heard, mislocked, crossed>>

WaitTimeout(p) ==
    /\ Timeouts
    /\ HangUp(p)
    /\ gaveUp' = [gaveUp EXCEPT ![p] = TRUE]
    /\ UNCHANGED <<files, mine, inbox, calls, heard, mislocked, crossed>>

-----------------------------------------------------------------------------
(* The handler of newConnection greets the other process at once.             *)
NewConnection(s, c) ==
    /\ pc[s] = "idle"
    /\ handles[s]
    /\ server[c] = s /\ link[c] = "connected"
    /\ link' = [link EXCEPT ![c] = "greeted"]
    /\ UNCHANGED <<files, pc, mine, server, inbox, history>>

(* The handler of readyRead emits newProcessInstance.                         *)
ReadyRead(s, c) ==
    /\ pc[s] = "idle"
    /\ c \in inbox[s]
    /\ inbox' = [inbox EXCEPT ![s] = @ \ {c}]
    /\ heard' = [heard EXCEPT ![c] = TRUE]
    /\ UNCHANGED <<files, pc, mine, server, link, calls, gaveUp, mislocked, crossed>>

(* The program ends: the static lock was created after the server, and is     *)
(* destroyed before it.                                                       *)
ExitUnlock(p) ==
    /\ Step(p, "idle", "exiting")
    /\ FreeLock(p)
    /\ UNCHANGED <<path, mine, connections, history>>

(* A process is gone: with it its server and connections.                     *)
Gone(p) ==
    /\ pc' = [pc EXCEPT ![p] = "off"]
    /\ arg' = [arg EXCEPT ![p] = NoKey]
    /\ new_server' = [new_server EXCEPT ![p] = FALSE]
    /\ lockKey' = [lockKey EXCEPT ![p] = NoKey]
    /\ listening' = [listening EXCEPT ![p] = NoKey]
    /\ handles' = [handles EXCEPT ![p] = FALSE]
    /\ server' = [c \in Procs |-> IF p \in {c, server[c]} THEN NoOne ELSE server[c]]
    /\ link' = [c \in Procs |->
                    IF c = p THEN "none"
                    ELSE IF server[c] = p /\ link[c] = "connected" THEN "reset"
                    ELSE link[c]]
    /\ inbox' = [inbox EXCEPT ![p] = {}]
    /\ UNCHANGED history

ExitClose(p) ==
    /\ pc[p] = "exiting"
    /\ ClosePath(p)
    /\ Gone(p)
    /\ UNCHANGED lock

Crash(p) ==
    /\ pc[p] # "off"
    /\ FreeLock(p)
    /\ Gone(p)
    /\ UNCHANGED path

-----------------------------------------------------------------------------
ContinueCall(p) ==
    \/ Unlock(p) \/ TryLock(p) \/ Listen(p) \/ ListenFails(p) \/ Connect(p)
    \/ ConnectFails(p) \/ Reply(p) \/ WaitFails(p) \/ ExitClose(p)

EventLoop(s) == \E c \in Procs : NewConnection(s, c) \/ ReadyRead(s, c)

Next ==
    \E p \in Procs :
        \/ \E k \in Keys : Call(p, k)
        \/ ContinueCall(p)
        \/ WaitTimeout(p)
        \/ EventLoop(p)
        \/ ExitUnlock(p)
        \/ Crash(p)

(* A call that has begun goes on, and a process outside of calls handles the  *)
(* events of each connection.  Nobody has to call, to exit or to crash.       *)
Fairness ==
    \A p \in Procs :
        /\ WF_vars(ContinueCall(p))
        /\ \A c \in Procs : WF_vars(NewConnection(p, c)) /\ WF_vars(ReadyRead(p, c))

Spec == Init /\ [][Next]_vars
FairSpec == Spec /\ Fairness

-----------------------------------------------------------------------------
TypeOK ==
    /\ lock \in [Keys -> Procs \cup {NoOne}]
    /\ path \in [Keys -> Procs \cup {NoOne}]
    /\ pc \in [Procs -> CallPC \cup {"off", "idle", "exiting"}]
    /\ arg \in [Procs -> Keys \cup {NoKey}]
    /\ lockKey \in [Procs -> Keys \cup {NoKey}]
    /\ listening \in [Procs -> Keys \cup {NoKey}]
    /\ new_server \in [Procs -> BOOLEAN] /\ handles \in [Procs -> BOOLEAN]
    /\ server \in [Procs -> Procs \cup {NoOne}]
    /\ link \in [Procs -> {"none", "connected", "greeted", "reset"}]
    /\ inbox \in [Procs -> SUBSET Procs]
    /\ calls \in Nat
    /\ heard \in [Procs -> BOOLEAN] /\ gaveUp \in [Procs -> BOOLEAN]
    /\ mislocked \in BOOLEAN /\ crossed \in BOOLEAN

(* The key of a call and of the lock are known while they matter; a process   *)
(* listens in its event loop, or until its exit is over.                      *)
Phases ==
    \A p \in Procs :
        /\ pc[p] \in CallPC => arg[p] # NoKey /\ lockKey[p] # NoKey
        /\ pc[p] \notin {"idle", "exiting"} => listening[p] = NoKey
        /\ pc[p] = "off" => lockKey[p] = NoKey

(* A lock is held by a process that listens, is about to, or failed to; it is *)
(* the lock of its lockKey.                                                   *)
LockHeld ==
    /\ \A k \in Keys, p \in Procs :
        lock[k] = p => lockKey[p] = k /\ pc[p] \in {"unlock", "listen", "idle"}
    /\ \A p \in Procs : pc[p] = "listen" => Holds(p)

(* Unless a call used the lock of another key, who listens has the lock, ...  *)
LockMatches ==
    ~mislocked =>
        \A p \in Procs :
            /\ pc[p] = "listen" => lockKey[p] = arg[p]
            /\ pc[p] = "idle" /\ listening[p] # NoKey =>
                  lock[listening[p]] = p

(* ... listens alone, and the path leads to it, unless it began to listen     *)
(* while its predecessor was exiting.                                         *)
PathMatches ==
    ~mislocked /\ ~crossed =>
        \A p \in Procs :
            listening[p] # NoKey =>
                /\ path[listening[p]] = p
                /\ \A q \in Procs : listening[q] = listening[p] => q = p

(* The inductive invariant.                                                   *)
IndInv == TypeOK /\ Phases /\ LockHeld /\ LockMatches /\ PathMatches

(* A process to which setSingleInstance(k) has returned true, until it calls  *)
(* again or exits.                                                            *)
Primary(p, k) == pc[p] = "idle" /\ listening[p] = k

(* There is never a second single instance, whatever crashes, exits and       *)
(* starts, unless a process that was refused one key asked for another: its   *)
(* static QLockFile is then that of the first key.                            *)
OnePrimary ==
    ~mislocked =>
        \A k \in Keys, p, q \in Procs : Primary(p, k) /\ Primary(q, k) => p = q

(* The others find the single instance at the path of its socket, unless,     *)
(* moreover, it began to listen while its predecessor was exiting: having     *)
(* given up the lock, that one removes the path, which is no more its own.    *)
PrimaryReachable ==
    ~mislocked /\ ~crossed =>
        \A k \in Keys, p \in Procs : Primary(p, k) => path[k] = p

(* The connection ended, or either process.                                   *)
Parted(c) == link[c] = "reset" \/ server[c] = NoOne

(* "an attempt to start a new instance triggers this signal" (the             *)
(* documentation of newProcessInstance): who is connected to the single       *)
(* instance is heard of, unless they part or the interval is over.            *)
AttemptTriggersSignal ==
    \A c \in Procs : pc[c] = "wait" ~> (heard[c] \/ gaveUp[c] \/ Parted(c))

(* ... as long as every process became the single instance in its first call, *)
(* the only one that connects the handler of newConnection; and nobody waits  *)
(* for ever, even without interval, though a single instance that calls again *)
(* may come to wait for those that wait for it.                               *)
Deaf(s) == listening[s] # NoKey /\ ~handles[s]

FirstCallAnswers ==
    \A c \in Procs :
        pc[c] = "wait" ~> (heard[c] \/ gaveUp[c] \/ Parted(c) \/ \E d \in Procs : Deaf(d))
=============================================================================
