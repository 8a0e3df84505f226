----------------------- MODULE SingleInstance_proofs -----------------------
(* Machine-checked proofs about SingleInstance, for any processes, keys and   *)
(* number of calls.  IndInv is shown inductive one action at a time; most     *)
(* actions only move a process between connecting, waiting and its event      *)
(* loop, which Moves treats once.                                             *)
EXTENDS SingleInstance, TLAPS

USE InstanceAssumption

(* The parts of IndInv that are about the lock, the path and who listens.     *)
LockInv == Phases /\ LockHeld /\ LockMatches /\ PathMatches

(* What a step leaves alone that only concerns connections and events.        *)
Core == <<lock, path, arg, lockKey, listening, mislocked, crossed>>

-----------------------------------------------------------------------------
LEMMA InitInv == Init => IndInv
  <1> SUFFICES ASSUME Init PROVE IndInv
    OBVIOUS
  <1>1. TypeOK
    BY DEF Init, TypeOK
  <1>2. Phases
    BY DEF Init, Phases, CallPC
  <1>3. LockHeld
    BY DEF Init, LockHeld
  <1>4. LockMatches /\ PathMatches
    BY DEF Init, LockMatches, PathMatches
  <1> QED BY <1>1, <1>2, <1>3, <1>4 DEF IndInv

(* The type of the state is kept.                                             *)
LEMMA TypeKept == TypeOK /\ Phases /\ [Next]_vars => TypeOK'
  <1> SUFFICES ASSUME TypeOK, Phases, [Next]_vars PROVE TypeOK'
    OBVIOUS
  <1> USE DEF TypeOK, CallPC
  <1>0. CASE UNCHANGED vars
    BY <1>0 DEF vars, files, mine, connections, history
  <1>1. ASSUME NEW p \in Procs, NEW k \in Keys, Call(p, k) PROVE TypeOK'
    BY <1>1 DEF Call, ClosePath, ResetLinks, connections
  <1>2. ASSUME NEW p \in Procs, Unlock(p) PROVE TypeOK'
    BY <1>2 DEF Unlock, Step, FreeLock, connections, history
  <1>3. ASSUME NEW p \in Procs, TryLock(p) PROVE TypeOK'
    BY <1>3 DEF TryLock, Step, mine, connections, Phases
  <1>4. ASSUME NEW p \in Procs, Listen(p) PROVE TypeOK'
    BY <1>4 DEF Listen, Step, connections
  <1>5. ASSUME NEW p \in Procs, ListenFails(p) \/ ConnectFails(p) PROVE TypeOK'
    BY <1>5 DEF ListenFails, ConnectFails, Step, files, mine, connections, history
  <1>6. ASSUME NEW p \in Procs, Connect(p) PROVE TypeOK'
    BY <1>6 DEF Connect, Step, files, mine, history
  <1>7. ASSUME NEW p \in Procs, Reply(p) \/ WaitFails(p) \/ WaitTimeout(p) PROVE TypeOK'
    <2>1. CASE Reply(p)
      <3>1. inbox' \in [Procs -> SUBSET Procs]
        BY <2>1 DEF Reply
      <3> QED BY <2>1, <3>1 DEF Reply, HangUp, Step, files, mine, history
    <2>2. CASE WaitFails(p)
      BY <2>2 DEF WaitFails, HangUp, Step, files, mine, history
    <2>3. CASE WaitTimeout(p)
      BY <2>3 DEF WaitTimeout, HangUp, Step, files, mine
    <2> QED BY <1>7, <2>1, <2>2, <2>3
  <1>8. ASSUME NEW p \in Procs, NEW c \in Procs, NewConnection(p, c) \/ ReadyRead(p, c)
        PROVE TypeOK'
    <2>1. CASE NewConnection(p, c)
      BY <2>1 DEF NewConnection, files, mine, history
    <2>2. CASE ReadyRead(p, c)
      <3>1. inbox' \in [Procs -> SUBSET Procs]
        BY <2>2 DEF ReadyRead
      <3> QED BY <2>2, <3>1 DEF ReadyRead, files, mine
    <2> QED BY <1>8, <2>1, <2>2
  <1>9. ASSUME NEW p \in Procs, ExitUnlock(p) PROVE TypeOK'
    BY <1>9 DEF ExitUnlock, Step, FreeLock, mine, connections, history
  <1>10. ASSUME NEW p \in Procs, ExitClose(p) PROVE TypeOK'
    BY <1>10 DEF ExitClose, ClosePath, Gone, history
  <1>11. ASSUME NEW p \in Procs, Crash(p) PROVE TypeOK'
    BY <1>11 DEF Crash, FreeLock, Gone, history
  <1> QED
    BY <1>0, <1>1, <1>2, <1>3, <1>4, <1>5, <1>6, <1>7, <1>8, <1>9, <1>10, <1>11
       DEF Next, ContinueCall, EventLoop

-----------------------------------------------------------------------------
(* A process that connects, stops waiting or fails to listen changes nothing  *)
(* of the lock, the path and who listens; nor does an event.                  *)
LEMMA Moves ==
  ASSUME TypeOK, LockInv, UNCHANGED Core,
         \/ UNCHANGED pc
         \/ \E p \in Procs, from \in {"listen", "connect", "wait"}, to \in {"wait", "idle"} :
              Step(p, from, to) /\ (from = "listen" => to = "idle")
  PROVE  LockInv'
  <1> USE DEF TypeOK, Core
  <1>1. \A q \in Procs :
          \/ pc'[q] = pc[q]
          \/ /\ pc[q] \in {"listen", "connect", "wait"}
             /\ pc'[q] = "idle" \/ (pc'[q] = "wait" /\ pc[q] # "listen")
             /\ listening[q] = NoKey
    <2>1. CASE UNCHANGED pc
      BY <2>1
    <2>2. CASE ~UNCHANGED pc
      <3>1. PICK p \in Procs, from \in {"listen", "connect", "wait"}, to \in {"wait", "idle"} :
              Step(p, from, to) /\ (from = "listen" => to = "idle")
        BY <2>2
      <3> QED BY <3>1 DEF Step, LockInv, Phases
    <2> QED BY <2>1, <2>2
  <1>2. Phases'
    BY <1>1 DEF LockInv, Phases, CallPC
  <1>3. LockHeld'
    BY <1>1 DEF LockInv, LockHeld, Holds
  <1>4. LockMatches'
    BY <1>1 DEF LockInv, LockMatches
  <1>5. PathMatches'
    BY DEF LockInv, PathMatches
  <1> QED BY <1>2, <1>3, <1>4, <1>5 DEF LockInv

LEMMA CallKeeps ==
  ASSUME TypeOK, LockInv, NEW p \in Procs, NEW k \in Keys, Call(p, k) PROVE LockInv'
  <1> USE DEF TypeOK, Call
  <1>1. Phases'
    BY DEF LockInv, Phases, CallPC
  <1>2. LockHeld'
    BY DEF LockInv, Phases, LockHeld, Holds
  <1>3. LockMatches'
    BY DEF LockInv, LockMatches
  <1>4. PathMatches'  \* nobody else listens on the key whose path it removes
    BY DEF LockInv, PathMatches, ClosePath
  <1> QED BY <1>1, <1>2, <1>3, <1>4 DEF LockInv

LEMMA UnlockKeeps ==
  ASSUME TypeOK, LockInv, NEW p \in Procs, Unlock(p) PROVE LockInv'
  <1> USE DEF TypeOK, Unlock, Step, FreeLock, Holds
  <1>1. Phases'
    BY DEF LockInv, Phases, CallPC
  <1>2. LockHeld'
    BY DEF LockInv, LockHeld
  <1>3. LockMatches'
    BY DEF LockInv, Phases, LockHeld, LockMatches, history
  <1>4. PathMatches'
    BY DEF LockInv, PathMatches, history
  <1> QED BY <1>1, <1>2, <1>3, <1>4 DEF LockInv

LEMMA TryLockKeeps ==
  ASSUME TypeOK, LockInv, NEW p \in Procs, TryLock(p) PROVE LockInv'
  <1> USE DEF TypeOK, TryLock, Step, mine
  <1>1. Phases'
    BY DEF LockInv, Phases, CallPC
  <1>2. LockHeld'
    BY DEF LockInv, Phases, LockHeld, Holds, CallPC
  <1>3. LockMatches'
    <2> SUFFICES ASSUME ~mislocked', NEW q \in Procs
                 PROVE  /\ pc'[q] = "listen" => lockKey[q] = arg[q]
                        /\ pc'[q] = "idle" /\ listening[q] # NoKey =>
                              lock'[listening[q]] = q
      BY DEF LockMatches
    <2>1. ~mislocked /\ lockKey[p] = arg[p]
      OBVIOUS
    <2>2. CASE q = p
      BY <2>1, <2>2
    <2>3. CASE q # p  \* the lock that is taken was nobody's
      BY <2>1, <2>3 DEF LockInv, LockMatches
    <2> QED BY <2>2, <2>3
  <1>4. PathMatches'
    BY DEF LockInv, PathMatches
  <1> QED BY <1>1, <1>2, <1>3, <1>4 DEF LockInv

LEMMA ListenKeeps ==
  ASSUME TypeOK, LockInv, NEW p \in Procs, Listen(p) PROVE LockInv'
  <1> USE DEF TypeOK, Listen, Step
  <1>1. Phases'
    BY DEF LockInv, Phases, CallPC
  <1>2. LockHeld'
    BY DEF LockInv, LockHeld, Holds
  <1>3. LockMatches'
    BY DEF LockInv, LockMatches, LockHeld, Holds
  <1>4. PathMatches'
    <2> SUFFICES ASSUME ~mislocked, ~crossed' PROVE PathMatches'
      BY DEF PathMatches
    <2>1. arg[p] \in Keys /\ lock[arg[p]] = p
      BY DEF LockInv, Phases, LockHeld, LockMatches, Holds, CallPC
    <2>2. \A q \in Procs : listening[q] # arg[p]  \* it would have the lock, or be exiting
      <3> SUFFICES ASSUME NEW q \in Procs, listening[q] = arg[p] PROVE FALSE
        OBVIOUS
      <3>1. pc[q] \in {"idle", "exiting"}
        BY <2>1 DEF LockInv, Phases
      <3>2. CASE pc[q] = "idle"
        BY <2>1, <3>2 DEF LockInv, LockMatches
      <3>3. CASE pc[q] = "exiting"
        BY <3>3
      <3> QED BY <3>1, <3>2, <3>3
    <2>3. \A q \in Procs : listening'[q] = arg[p] => q = p
      BY <2>2
    <2>4. \A q \in Procs : q # p => listening'[q] = listening[q]
      OBVIOUS
    <2>5. path'[arg[p]] = p /\ \A k \in Keys : k # arg[p] => path'[k] = path[k]
      BY <2>1
    <2>6. listening'[p] = arg[p]
      OBVIOUS
    <2>7. \A q \in Procs : q # p /\ listening[q] # NoKey =>
            /\ path[listening[q]] = q
            /\ \A r \in Procs : listening[r] = listening[q] => r = q
      BY DEF LockInv, PathMatches
    <2>8. \A q \in Procs : q # p /\ listening[q] # NoKey => path'[listening[q]] = q
      BY <2>2, <2>5, <2>7
    <2> QED BY <2>3, <2>4, <2>5, <2>6, <2>7, <2>8 DEF PathMatches
  <1> QED BY <1>1, <1>2, <1>3, <1>4 DEF LockInv

LEMMA ExitUnlockKeeps ==
  ASSUME TypeOK, LockInv, NEW p \in Procs, ExitUnlock(p) PROVE LockInv'
  <1> USE DEF TypeOK, ExitUnlock, Step, FreeLock, mine
  <1>1. Phases'
    BY DEF LockInv, Phases, CallPC
  <1>2. LockHeld'
    BY DEF LockInv, LockHeld, Holds
  <1>3. LockMatches'
    BY DEF LockInv, LockMatches, history
  <1>4. PathMatches'
    BY DEF LockInv, PathMatches, history
  <1> QED BY <1>1, <1>2, <1>3, <1>4 DEF LockInv

LEMMA ExitCloseKeeps ==
  ASSUME TypeOK, LockInv, NEW p \in Procs, ExitClose(p) PROVE LockInv'
  <1> USE DEF TypeOK, ExitClose, Gone, history
  <1>1. Phases'
    BY DEF LockInv, Phases, CallPC
  <1>2. LockHeld'
    BY DEF LockInv, LockHeld, Holds
  <1>3. LockMatches'
    BY DEF LockInv, LockMatches
  <1>4. PathMatches'
    BY DEF LockInv, PathMatches, ClosePath
  <1> QED BY <1>1, <1>2, <1>3, <1>4 DEF LockInv

LEMMA CrashKeeps ==
  ASSUME TypeOK, LockInv, NEW p \in Procs, Crash(p) PROVE LockInv'
  <1> USE DEF TypeOK, Crash, Gone, FreeLock, history
  <1>1. Phases'
    BY DEF LockInv, Phases, CallPC
  <1>2. LockHeld'
    BY DEF LockInv, LockHeld, Holds
  <1>3. LockMatches'
    BY DEF LockInv, LockMatches
  <1>4. PathMatches'
    BY DEF LockInv, PathMatches
  <1> QED BY <1>1, <1>2, <1>3, <1>4 DEF LockInv

LEMMA LockKept == TypeOK /\ LockInv /\ [Next]_vars => LockInv'
  <1> SUFFICES ASSUME TypeOK, LockInv, [Next]_vars PROVE LockInv'
    OBVIOUS
  <1>0. CASE UNCHANGED vars
    BY <1>0, Moves DEF Core, vars, files, mine, history
  <1>1. ASSUME NEW p \in Procs, Connect(p) PROVE LockInv'
    BY <1>1, Moves DEF Core, Connect, files, mine, history
  <1>2. ASSUME NEW p \in Procs, ListenFails(p) \/ ConnectFails(p) PROVE LockInv'
    BY <1>2, Moves DEF Core, ListenFails, ConnectFails, files, mine, history
  <1>3. ASSUME NEW p \in Procs, Reply(p) \/ WaitFails(p) \/ WaitTimeout(p) PROVE LockInv'
    BY <1>3, Moves DEF Core, Reply, WaitFails, WaitTimeout, HangUp, files, mine, history
  <1>4. ASSUME NEW p \in Procs, NEW c \in Procs, NewConnection(p, c) \/ ReadyRead(p, c)
        PROVE LockInv'
    BY <1>4, Moves DEF Core, NewConnection, ReadyRead, files, mine, history
  <1> QED
    BY <1>0, <1>1, <1>2, <1>3, <1>4, CallKeeps, UnlockKeeps, TryLockKeeps, ListenKeeps,
       ExitUnlockKeeps, ExitCloseKeeps, CrashKeeps
       DEF Next, ContinueCall, EventLoop

-----------------------------------------------------------------------------
(* The inductive invariant holds in every reachable state: a lock belongs to  *)
(* a live process that listens or is about to, and, in the conditions its     *)
(* parts name, who listens has the lock and the path (setSingleInstance).     *)
THEOREM InstanceInvariant == Spec => []IndInv
  <1>1. Init => IndInv
    BY InitInv
  <1>2. IndInv /\ [Next]_vars => IndInv'
    BY TypeKept, LockKept DEF IndInv, LockInv
  <1> QED BY <1>1, <1>2, PTL DEF Spec

(* setSingleInstance makes no second single instance of a key, unless a       *)
(* process that was refused one key asked for another.                        *)
THEOREM NoSecondInstance == Spec => []OnePrimary
  <1>1. IndInv => OnePrimary
    BY DEF IndInv, LockMatches, OnePrimary, Primary, TypeOK
  <1> QED BY <1>1, InstanceInvariant, PTL

(* The path of the socket leads to the single instance, unless, moreover, it  *)
(* began to listen while another process was exiting.                         *)
THEOREM InstanceFound == Spec => []PrimaryReachable
  <1>1. IndInv => PrimaryReachable
    BY DEF IndInv, PathMatches, PrimaryReachable, Primary
  <1> QED BY <1>1, InstanceInvariant, PTL
=============================================================================
