------------------------------ MODULE FileDrag ------------------------------
(* File drag: the program files are dragged from has a DFileDragServer for    *)
(* each drag; the program they are dropped on answers through the statics of  *)
(* DFileDragClient and follows the transfer with a client, which deletes      *)
(* itself when the server is destroyed.                                       *)
(*                                                                            *)
(* Two processes and the session bus.  The servers share one D-Bus object,    *)
(* the clients one relay of its signals and, per service, one D-Bus interface *)
(* (there is one service here).  Progress and state are Fields.               *)
EXTENDS Integers, Sequences

CONSTANTS
    Uuids,       \* a drag: createUuid never answers the same twice
    Clients,     \* the clients there may be at a time
    Fields,      \* what a server reports: progress, state
    Reports,     \* the values it reports, 0 is the initial one
    Urls,        \* the targets a receiver may set
    MaxSignals   \* bound on the signals under way when a report is made

None == "none"
Dangling == "dangling"     \* of a client that deleted itself
Abandoned == "abandoned"   \* of one that the program deleted
Unheard == -1

ASSUME FileDragAssumption ==
    /\ 0 \in Reports /\ Reports \subseteq Nat /\ MaxSignals \in Nat
    /\ None \notin Clients /\ {Dangling, Abandoned} \cap Clients = {} /\ None \notin Urls

NoClient == [state |-> None]

VARIABLES
    source,       \* the process of the servers: "up" or "down"
    server,       \* servermap: "none" (not made), "there", "gone"
    report,       \* m_progressmap, m_statemap
    target,       \* the servers' data: the target URL
    signals,      \* what is on the bus for the receiver
    match,        \* the receiver's match rules: "off", "asked", "on"
    connections,  \* connectionmap
    ifacemap,     \* the service's interface: "none", "there", "expired"
    maker,        \* the client whose private data its deleter uses
    clients,
    receiver,     \* the receiver's process: "up" or "down"
    garbled       \* History: the deleter went by the data of a deleted client

sending == <<source, server, report, target>>
receiving == <<match, connections, ifacemap, maker, clients, receiver, garbled>>
vars == <<sending, signals, receiving>>

Init ==
    /\ source = "up" /\ server = [u \in Uuids |-> None]
    /\ report = [u \in Uuids |-> [f \in Fields |-> 0]]
    /\ target = [u \in Uuids |-> None]
    /\ signals = <<>> /\ match = "off"
    /\ connections = [u \in Uuids |-> None]
    /\ ifacemap = None /\ maker = None
    /\ clients = [c \in Clients |-> NoClient]
    /\ receiver = "up" /\ garbled = FALSE

-----------------------------------------------------------------------------
(* The source.                                                                *)
There(u) == source = "up" /\ server[u] = "there"
Exported == source = "up" /\ \E u \in Uuids : server[u] = "there"

Emit(signal) == signals' = IF match = "on" THEN Append(signals, signal) ELSE signals

(* DFileDragServer(); the mime data of its drag name it (writeMimeData).       *)
NewServer(u) ==
    /\ source = "up" /\ server[u] = None
    /\ u = CHOOSE new \in Uuids : server[new] = None
    /\ server' = [server EXCEPT ![u] = "there"]
    /\ UNCHANGED <<source, report, target, signals, receiving>>

(* Mutant: it goes before the signal.                                         *)
TellDestroyed_Late(u) ==
    IF \E o \in Uuids \ {u} : server[o] = "there"
    THEN Emit([name |-> "destroyed", uuid |-> u]) ELSE signals' = signals

(* ~DFileDragServer: the object of all servers goes with the last of them.    *)
TellDestroyed(u) == Emit([name |-> "destroyed", uuid |-> u])

DestroyServer(u) ==
    /\ There(u)
    /\ TellDestroyed(u)
    /\ server' = [server EXCEPT ![u] = "gone"]
    /\ report' = IF \E o \in Uuids \ {u} : server[o] = "there" THEN report
                 ELSE [o \in Uuids |-> [f \in Fields |-> 0]]
    /\ UNCHANGED <<source, target, receiving>>

(* setProgress, setState.                                                     *)
Changes(u, f, v) == report[u][f] # v

SetReport(u, f, v) ==
    /\ There(u) /\ Len(signals) < MaxSignals
    /\ Changes(u, f, v)
    /\ report' = [report EXCEPT ![u][f] = v]
    /\ Emit([name |-> "report", uuid |-> u, field |-> f, value |-> v])
    /\ UNCHANGED <<source, server, target, receiving>>

(* The process ends without destroying anything. *)
SourceDies ==
    /\ source = "up" /\ source' = "down"
    /\ UNCHANGED <<server, report, target, signals, receiving>>

(* DFileDragClient::setTargetData and the source's setData, which takes for   *)
(* granted that the server is there: the source goes down if it is not.       *)
SetTarget(u, url) ==
    /\ receiver = "up" /\ server[u] # None /\ Exported
    /\ IF server[u] = "there"
       THEN target' = [target EXCEPT ![u] = url] /\ source' = source
       ELSE source' = "down" /\ target' = target
    /\ UNCHANGED <<server, report, signals, receiving>>

-----------------------------------------------------------------------------
(* The receiver.                                                              *)
(* DFileDragClient(): registered under the uuid, in place of another; the     *)
(* service's interface is made or shared, which fails if it has expired.  An  *)
(* introspection drops what came before the signals were connected.           *)
NewClient(c, u) ==
    /\ receiver = "up" /\ clients[c] = NoClient /\ server[u] # None
    /\ c = CHOOSE new \in Clients : clients[new] = NoClient
    /\ connections' = [connections EXCEPT ![u] = c]
    /\ clients' = [clients EXCEPT ![c] = [state |-> "live", uuid |-> u, met |-> FALSE,
                     iface |-> ifacemap # "expired", heard |-> [f \in Fields |-> Unheard]]]
    /\ IF ifacemap = None
       THEN ifacemap' = "there" /\ maker' = c /\ match' = "asked" /\ signals' = <<>>
       ELSE UNCHANGED <<ifacemap, maker, match, signals>>
    /\ UNCHANGED <<sending, receiver, garbled>>

MatchArrives ==
    /\ match = "asked" /\ match' = "on"
    /\ UNCHANGED <<sending, signals, connections, ifacemap, maker, clients, receiver, garbled>>

(* progress(), state(): a call that waits, after what was asked of the bus    *)
(* before; no answer is 0.                                                    *)
Ask(c, f) ==
    /\ clients[c] # NoClient /\ clients[c].iface
    /\ clients' = [clients EXCEPT ![c].heard[f] = IF Exported THEN report[clients[c].uuid][f] ELSE 0,
                                  ![c].met = @ \/ There(clients[c].uuid)]
    /\ match' = IF match = "asked" THEN "on" ELSE match
    /\ UNCHANGED <<sending, signals, connections, ifacemap, maker, receiver, garbled>>

(* DDndClientSignalRelay: what the last client of the uuid is told.  (A       *)
(* client the program has deleted is used all the same, which is undefined;   *)
(* nothing is followed from there.)                                           *)
RelayReport(s) ==
    /\ s.name = "report"
    /\ LET c == connections[s.uuid]
       IN clients' = IF c \in Clients THEN [clients EXCEPT ![c].heard[s.field] = s.value] ELSE clients
    /\ UNCHANGED connections

(* Mutant: the client stays in the map.                                       *)
RelayDestroyed_Keep(s) ==
    /\ s.name = "destroyed"
    /\ LET c == connections[s.uuid]
       IN clients' = IF c \in Clients THEN [clients EXCEPT ![c].state = "doomed"] ELSE clients
    /\ UNCHANGED connections

RelayDestroyed(s) ==
    /\ s.name = "destroyed"
    /\ LET c == connections[s.uuid]
       IN clients' = IF c \in Clients THEN [clients EXCEPT ![c].state = "doomed"] ELSE clients
    /\ connections' = [connections EXCEPT ![s.uuid] = None]

Deliver ==
    /\ signals # <<>> /\ signals' = Tail(signals)
    /\ IF match = "on" THEN RelayReport(Head(signals)) \/ RelayDestroyed(Head(signals))
       ELSE UNCHANGED <<clients, connections>>
    /\ UNCHANGED <<sending, match, ifacemap, maker, receiver, garbled>>

(* A client is deleted, and its private data with it, the last member first:  *)
(* the relay, with the last client, before the interface, with the last that  *)
(* shares it.                                                                 *)
Others(c) == {o \in Clients \ {c} : clients[o] # NoClient}
RelayGoes(c) == Others(c) = {}
InterfaceGoes(c) == clients[c].iface /\ \A o \in Others(c) : ~clients[o].iface

(* The interface's deleter disconnects the relay and forgets the service, by  *)
(* the data of the client that made it.  It calls a relay that is destroyed   *)
(* already, and goes by garbage when that client is gone: the program crashes *)
(* or nothing is disconnected, and garbage may name another service.          *)
Garbage(c) == InterfaceGoes(c) /\ maker # c
UsesDestroyed(c) == InterfaceGoes(c) /\ (RelayGoes(c) \/ maker # c)

Crashes ==
    /\ receiver' = "down" /\ match' = "off" /\ ifacemap' = None /\ maker' = None
    /\ connections' = [u \in Uuids |-> None] /\ clients' = [c \in Clients |-> NoClient]
    /\ UNCHANGED garbled

(* The bus drops the matches of a relay that is destroyed.  The map of the    *)
(* connections is left alone.                                                 *)
Forgets(c, entry) ==
    /\ clients' = [clients EXCEPT ![c] = NoClient]
    /\ connections' = [u \in Uuids |-> IF connections[u] = c THEN entry ELSE connections[u]]
    /\ ifacemap' \in (IF Garbage(c) THEN {None, "expired"}
                     ELSE IF InterfaceGoes(c) THEN {None} ELSE {ifacemap})
    /\ maker' = IF InterfaceGoes(c) THEN None ELSE IF maker = c THEN Dangling ELSE maker
    /\ match' = IF RelayGoes(c) \/ (InterfaceGoes(c) /\ ~Garbage(c)) THEN "off" ELSE match
    /\ garbled' = (garbled \/ Garbage(c))
    /\ UNCHANGED receiver

Deleted(c, entry) == Forgets(c, entry) \/ (UsesDestroyed(c) /\ Crashes)

(* deleteLater, and the program or a parent that deletes a client.            *)
Reap(c) ==
    /\ clients[c].state = "doomed"
    /\ Deleted(c, Dangling)
    /\ UNCHANGED <<sending, signals>>

DeleteClient(c) ==
    /\ clients[c].state = "live"
    /\ Deleted(c, Abandoned)
    /\ UNCHANGED <<sending, signals>>

-----------------------------------------------------------------------------
Next ==
    \/ \E u \in Uuids :
          \/ NewServer(u) \/ DestroyServer(u)
          \/ \E f \in Fields, v \in Reports : SetReport(u, f, v)
          \/ \E url \in Urls : SetTarget(u, url)
          \/ \E c \in Clients : NewClient(c, u)
    \/ SourceDies
    \/ MatchArrives
    \/ \E c \in Clients : (\E f \in Fields : Ask(c, f)) \/ Reap(c) \/ DeleteClient(c)
    \/ Deliver

(* The bus goes on.                                                           *)
Fairness == WF_vars(Deliver)

Spec == Init /\ [][Next]_vars /\ Fairness

-----------------------------------------------------------------------------
(* The client registered for a drag is there, unless the program deleted one  *)
(* itself, and what it last heard of the progress or the state, be it in a    *)
(* signal or as an answer that overtook signals, is what the server has once  *)
(* no signal is under way - unless the interface was given up by garbage.     *)
ClientsFollow ==
    \A u \in Uuids :
        LET c == connections[u]
        IN /\ c # Dangling
           /\ (c \in Clients /\ signals = <<>> /\ There(u) /\ ~garbled) =>
                 \A f \in Fields : clients[c].heard[f] \in {Unheard, report[u][f]}

(* A client that asked while its server was there is told that the server is  *)
(* destroyed, through all that other clients do to the relay, the interface   *)
(* and the map - unless another client took its place, the source died        *)
(* instead, or the interface was given up by garbage before.                  *)
Follows(c, u) ==
    /\ clients[c] # NoClient /\ clients[c].uuid = u /\ clients[c].state = "live"
    /\ connections[u] = c

EndIsHeard ==
    \A c \in Clients, u \in Uuids :
        (Follows(c, u) /\ clients[c].met /\ server[u] = "gone" /\ ~garbled) ~> ~Follows(c, u)

(* The client then "deletes itself, so there is no need to manage it" (the    *)
(* note on DFileDragClient::serverDestroyed): the program lives on.           *)
SelfDeletionIsSafe == [][\A c \in Clients : Reap(c) => receiver' = "up"]_vars

=============================================================================
