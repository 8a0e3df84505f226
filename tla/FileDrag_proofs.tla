-------------------------- MODULE FileDrag_proofs ---------------------------
(* Machine-checked proofs about FileDrag, for any drags, clients, reports and *)
(* number of signals under way: a client that is registered for a drag is     *)
(* there, and follows it.                                                     *)
EXTENDS FileDrag, TLAPS

Signals == [name : {"report"}, uuid : Uuids, field : Fields, value : Reports]
               \cup [name : {"destroyed"}, uuid : Uuids]
Followers == [state : {"live", "doomed"}, uuid : Uuids, met : BOOLEAN, iface : BOOLEAN,
              heard : [Fields -> Reports \cup {Unheard}]]

TypeOK ==
    /\ source \in {"up", "down"}
    /\ server \in [Uuids -> {None, "there", "gone"}]
    /\ report \in [Uuids -> [Fields -> Reports]]
    /\ signals \in Seq(Signals) /\ match \in {"off", "asked", "on"}
    /\ connections \in [Uuids -> Clients \cup {None, Dangling, Abandoned}]
    /\ ifacemap \in {None, "there", "expired"}
    /\ clients \in [Clients -> {NoClient} \cup Followers]
    /\ receiver \in {"up", "down"} /\ garbled \in BOOLEAN

(* Who is registered for a drag is a client of it that is not to be deleted.  *)
Registered ==
    \A u \in Uuids :
        /\ connections[u] # Dangling
        /\ connections[u] \in Clients =>
              LET c == clients[connections[u]]
              IN c # NoClient /\ c.uuid = u /\ c.state = "live"

(* Until the deleter goes wrong, all clients share the interface, which is    *)
(* there while they are; signals reach them from when it is connected.        *)
SharedByAll ==
    ~garbled =>
        /\ ifacemap # "expired"
        /\ \A c \in Clients : clients[c] # NoClient =>
              clients[c].iface /\ ifacemap = "there"
        /\ match = "off" => ifacemap = None
        /\ match = "asked" =>
              /\ signals = <<>>
              /\ \A c \in Clients : clients[c] # NoClient => \A f \in Fields : clients[c].heard[f] = Unheard

IsReport(s, u, f) == s.name = "report" /\ s.uuid = u /\ s.field = f

(* The last report under way is what the server has.                          *)
LastIsLatest ==
    ~garbled /\ match = "on" =>
        \A u \in Uuids, f \in Fields, i \in 1..Len(signals) :
            /\ There(u) /\ IsReport(signals[i], u, f)
            /\ \A j \in (i + 1)..Len(signals) : ~IsReport(signals[j], u, f)
            => signals[i].value = report[u][f]

(* Where none is under way, the client has heard the last one.                *)
HeardLatest ==
    ~garbled =>
        \A u \in Uuids, f \in Fields :
            /\ There(u) /\ connections[u] \in Clients
            /\ \A i \in 1..Len(signals) : ~IsReport(signals[i], u, f)
            => clients[connections[u]].heard[f] \in {Unheard, report[u][f]}

(* Nobody knows of a drag before its server is made.                          *)
Unborn ==
    \A u \in Uuids : server[u] = None =>
        connections[u] = None /\ \A i \in 1..Len(signals) : signals[i].uuid # u

Inv == TypeOK /\ Registered /\ SharedByAll /\ LastIsLatest /\ HeardLatest /\ Unborn

-----------------------------------------------------------------------------
LEMMA NamesDiffer ==
    /\ None \notin Clients /\ Dangling \notin Clients /\ Abandoned \notin Clients
    /\ None # Dangling /\ None # Abandoned /\ Dangling # Abandoned
    /\ NoClient.state = None /\ None \notin {"live", "doomed"} /\ NoClient \notin Followers
  BY FileDragAssumption DEF None, Dangling, Abandoned, NoClient, Followers

LEMMA InitInv == Init => Inv
  <1> SUFFICES ASSUME Init PROVE Inv
    OBVIOUS
  <1> USE DEF Init
  <1>1. signals \in Seq(Signals) /\ Len(signals) = 0
    OBVIOUS
  <1>2. \A u \in Uuids : connections[u] = None /\ connections[u] \notin Clients
    BY NamesDiffer
  <1>3. \A c \in Clients : clients[c] = NoClient
    OBVIOUS
  <1>4. TypeOK
    BY <1>1, FileDragAssumption DEF TypeOK
  <1>5. Registered
    BY <1>2, NamesDiffer DEF Registered
  <1>6. SharedByAll
    BY <1>3, NamesDiffer DEF SharedByAll, None
  <1>7. LastIsLatest
    BY <1>1 DEF LastIsLatest
  <1>8. HeardLatest
    BY <1>2 DEF HeardLatest
  <1>9. Unborn
    BY <1>1, <1>2 DEF Unborn
  <1> QED BY <1>4, <1>5, <1>6, <1>7, <1>8, <1>9 DEF Inv

(* What only the source's side changes: nobody comes to be there.             *)
LEMMA SourceKeeps ==
    ASSUME Inv, TypeOK', UNCHANGED <<server, report, signals, match, connections, ifacemap, clients, receiver, garbled>>,
           \A u \in Uuids : There(u)' => There(u)
    PROVE Inv'
  BY DEF Inv, Registered, SharedByAll, LastIsLatest, HeardLatest, Unborn, IsReport

LEMMA SourceDiesKeeps == Inv /\ SourceDies => Inv'
  BY SourceKeeps DEF Inv, TypeOK, SourceDies, receiving, There

LEMMA SetTargetKeeps ==
    ASSUME Inv, NEW u \in Uuids, NEW url \in Urls, SetTarget(u, url)
    PROVE Inv'
  BY SourceKeeps DEF Inv, TypeOK, SetTarget, receiving, There, Exported

LEMMA NewServerKeeps ==
    ASSUME Inv, NEW u \in Uuids, NewServer(u)
    PROVE Inv'
  <1> USE DEF Inv, NewServer, receiving
  <1>1. /\ server[u] = None /\ connections[u] = None /\ connections[u] \notin Clients
        /\ \A i \in 1..Len(signals) : signals[i].uuid # u
    BY NamesDiffer DEF Unborn
  <1>2. \A o \in Uuids : There(o)' => There(o) \/ o = u
    BY DEF TypeOK, There
  <1>3. TypeOK'
    BY DEF TypeOK
  <1>4. Registered' /\ SharedByAll'
    BY DEF Registered, SharedByAll
  <1>5. LastIsLatest'
    BY <1>1, <1>2 DEF LastIsLatest, IsReport
  <1>6. HeardLatest'
    BY <1>1, <1>2 DEF HeardLatest, IsReport
  <1>7. Unborn'
    BY DEF Unborn, TypeOK, None
  <1> QED BY <1>3, <1>4, <1>5, <1>6, <1>7

(* What a signal that is sent adds to those under way.                        *)
LEMMA AppendAdds ==
    ASSUME NEW S, NEW q \in Seq(S), NEW s \in S
    PROVE  /\ Append(q, s) \in Seq(S) /\ Len(q) \in Nat /\ Len(Append(q, s)) = Len(q) + 1
           /\ \A i \in 1..Len(q) : Append(q, s)[i] = q[i]
           /\ Append(q, s)[Len(q) + 1] = s
  OBVIOUS

LEMMA TailDrops ==
    ASSUME NEW S, NEW q \in Seq(S), q # <<>>
    PROVE  /\ Tail(q) \in Seq(S) /\ Head(q) \in S /\ Len(q) \in Nat /\ Len(q) > 0
           /\ Len(Tail(q)) = Len(q) - 1 /\ Head(q) = q[1]
           /\ \A i \in 1..Len(Tail(q)) : Tail(q)[i] = q[i + 1]
  OBVIOUS

LEMMA DestroyServerKeeps ==
    ASSUME Inv, NEW u \in Uuids, DestroyServer(u)
    PROVE Inv'
  <1> DEFINE s == [name |-> "destroyed", uuid |-> u]
  <1> USE DEF Inv, DestroyServer, receiving
  <1>1. s \in Signals /\ s.uuid = u /\ s.name # "report"
    BY DEF Signals
  <1>2. signals \in Seq(Signals)
    BY DEF TypeOK
  <1>3. signals' = Append(signals, s) \/ signals' = signals
    BY DEF TellDestroyed, Emit
  <1>4. match # "on" => signals' = signals
    BY DEF TellDestroyed, Emit
  <1>5. /\ signals' \in Seq(Signals) /\ Len(signals) \in Nat /\ Len(signals') \in {Len(signals), Len(signals) + 1}
        /\ \A i \in 1..Len(signals) : signals'[i] = signals[i]
        /\ \A i \in 1..Len(signals') : i \in 1..Len(signals) \/ signals'[i] = s
    <2> HIDE DEF s
    <2> QED BY <1>1, <1>2, <1>3, AppendAdds
  <1>6. \A o \in Uuids : There(o)' => There(o) /\ o # u /\ report' = report
    BY DEF There, TypeOK
  <1>7. TypeOK'
    BY <1>5, FileDragAssumption DEF TypeOK
  <1>8. Registered'
    BY DEF Registered
  <1>9. SharedByAll'
    BY <1>4 DEF SharedByAll
  <1>10. LastIsLatest'
    BY <1>1, <1>5, <1>6 DEF LastIsLatest, IsReport
  <1>11. HeardLatest'
    <2> SUFFICES ASSUME ~garbled, NEW o \in Uuids, NEW f \in Fields, There(o)', connections[o] \in Clients,
                        \A i \in 1..Len(signals') : ~IsReport(signals'[i], o, f)
                 PROVE clients[connections[o]].heard[f] \in {Unheard, report'[o][f]}
      BY DEF HeardLatest, IsReport
    <2>1. \A i \in 1..Len(signals) : ~IsReport(signals[i], o, f)
      BY <1>5
    <2> QED BY <2>1, <1>6 DEF HeardLatest
  <1>12. Unborn'
    <2> SUFFICES ASSUME NEW o \in Uuids, server'[o] = None
                 PROVE  connections[o] = None /\ \A i \in 1..Len(signals') : signals'[i].uuid # o
      BY DEF Unborn
    <2>1. o # u /\ server[o] = None
      BY DEF TypeOK, None
    <2> QED BY <2>1, <1>1, <1>5 DEF Unborn
  <1> QED BY <1>7, <1>8, <1>9, <1>10, <1>11, <1>12

LEMMA SetReportKeeps ==
    ASSUME Inv, NEW u \in Uuids, NEW f \in Fields, NEW v \in Reports, SetReport(u, f, v)
    PROVE Inv'
  <1> DEFINE s == [name |-> "report", uuid |-> u, field |-> f, value |-> v]
  <1> USE DEF Inv, SetReport, receiving
  <1>1. s \in Signals /\ s.uuid = u /\ s.value = v /\ IsReport(s, u, f)
        /\ \A o \in Uuids, g \in Fields : IsReport(s, o, g) => o = u /\ g = f
    BY DEF Signals, IsReport
  <1>2. /\ \A o \in Uuids : There(o)' <=> There(o)
        /\ \A o \in Uuids, g \in Fields : report'[o][g] = IF o = u /\ g = f THEN v ELSE report[o][g]
    BY DEF There, TypeOK
  <1>3. server[u] # None
    BY DEF There, None
  <1>4. Registered'
    BY DEF Registered
  <1>5. CASE match = "on"
    <2> HIDE DEF s
    <2>1. signals \in Seq(Signals) /\ signals' = Append(signals, s)
      BY <1>5 DEF TypeOK, Emit, s
    <2>2. /\ signals' \in Seq(Signals) /\ Len(signals) \in Nat /\ Len(signals') = Len(signals) + 1
          /\ \A i \in 1..Len(signals) : signals'[i] = signals[i]
          /\ signals'[Len(signals) + 1] = s
      BY <1>1, <2>1, AppendAdds
    <2>3. TypeOK'
      BY <2>2 DEF TypeOK
    <2>4. SharedByAll'
      BY <1>5 DEF SharedByAll
    <2>5. LastIsLatest'
      <3> SUFFICES ASSUME ~garbled, NEW o \in Uuids, NEW g \in Fields, NEW i \in 1..Len(signals'), There(o)',
                          IsReport(signals'[i], o, g),
                          \A j \in (i + 1)..Len(signals') : ~IsReport(signals'[j], o, g)
                   PROVE signals'[i].value = report'[o][g]
        BY <1>5 DEF LastIsLatest, IsReport
      <3>1. CASE i = Len(signals) + 1
        BY <3>1, <2>2, <1>1, <1>2
      <3>2. CASE i \in 1..Len(signals)
        <4>1. Len(signals) + 1 \in (i + 1)..Len(signals')
          BY <3>2, <2>2
        <4>2. ~(o = u /\ g = f)
          BY <4>1, <2>2, <1>1
        <4>3. \A j \in (i + 1)..Len(signals) : ~IsReport(signals[j], o, g)
          BY <3>2, <2>2
        <4>4. signals[i].value = report[o][g]
          BY <3>2, <4>3, <1>2, <1>5, <2>2 DEF LastIsLatest
        <4> QED BY <4>2, <4>4, <1>2, <2>2, <3>2
      <3> QED BY <3>1, <3>2, <2>2
    <2>6. HeardLatest'
      <3> SUFFICES ASSUME ~garbled, NEW o \in Uuids, NEW g \in Fields, There(o)', connections[o] \in Clients,
                          \A i \in 1..Len(signals') : ~IsReport(signals'[i], o, g)
                   PROVE clients[connections[o]].heard[g] \in {Unheard, report'[o][g]}
        BY DEF HeardLatest, IsReport
      <3>1. Len(signals) + 1 \in 1..Len(signals')
        BY <2>2
      <3>2. ~(o = u /\ g = f)
        BY <3>1, <2>2, <1>1
      <3>3. \A i \in 1..Len(signals) : ~IsReport(signals[i], o, g)
        BY <2>2
      <3> QED BY <3>2, <3>3, <1>2 DEF HeardLatest
    <2>7. Unborn'
      <3>1. \A i \in 1..Len(signals') : i \in 1..Len(signals) \/ i = Len(signals) + 1
        BY <2>2
      <3> QED BY <3>1, <2>2, <1>1, <1>3 DEF Unborn
    <2> QED BY <1>4, <2>3, <2>4, <2>5, <2>6, <2>7
  <1>6. CASE match # "on"
    <2>1. signals' = signals
      BY <1>6 DEF Emit
    <2>2. TypeOK' /\ SharedByAll' /\ LastIsLatest' /\ Unborn'
      BY <2>1, <1>6 DEF TypeOK, SharedByAll, LastIsLatest, Unborn
    <2>3. ~garbled => \A o \in Uuids, g \in Fields :
              connections[o] \in Clients => clients[connections[o]].heard[g] = Unheard
      BY <1>6, NamesDiffer DEF SharedByAll, Registered, TypeOK, None
    <2>4. HeardLatest'
      BY <2>3 DEF HeardLatest
    <2> QED BY <1>4, <2>2, <2>4
  <1> QED BY <1>5, <1>6

LEMMA NewClientKeeps ==
    ASSUME Inv, NEW u \in Uuids, NEW c \in Clients, NewClient(c, u)
    PROVE Inv'
  <1> DEFINE new == [state |-> "live", uuid |-> u, met |-> FALSE, iface |-> ifacemap # "expired",
                     heard |-> [f \in Fields |-> Unheard]]
  <1> USE DEF Inv
  <1>1. /\ clients' = [clients EXCEPT ![c] = new] /\ connections' = [connections EXCEPT ![u] = c]
        /\ clients[c] = NoClient /\ server[u] # None
        /\ UNCHANGED <<source, server, report, target, receiver, garbled>>
        /\ ifacemap = None => ifacemap' = "there" /\ match' = "asked" /\ signals' = <<>>
        /\ ifacemap # None => UNCHANGED <<ifacemap, match, signals>>
    BY DEF NewClient, sending
  <1>2. /\ new \in Followers /\ new # NoClient /\ new.uuid = u /\ new.state = "live"
        /\ new.iface <=> ifacemap # "expired"
        /\ \A f \in Fields : new.heard[f] = Unheard
    <2>1. [f \in Fields |-> Unheard] \in [Fields -> Reports \cup {Unheard}]
      OBVIOUS
    <2>2. new \in Followers
      BY <2>1 DEF Followers
    <2> QED BY <2>2, NamesDiffer
  <1> HIDE DEF new
  <1>3. signals' \in Seq(Signals) /\ (signals' = signals \/ Len(signals') = 0)
    <2>1. signals \in Seq(Signals) /\ <<>> \in Seq(Signals) /\ Len(<<>>) = 0
      BY DEF TypeOK
    <2> QED BY <1>1, <2>1
  <1>4. clients'[c] = new /\ \A o \in Clients \ {c} : clients'[o] = clients[o]
    BY <1>1 DEF TypeOK
  <1>5. connections'[u] = c /\ \A o \in Uuids \ {u} : connections'[o] = connections[o]
    BY <1>1 DEF TypeOK
  <1>6. \A o \in Uuids : connections[o] # c
    BY <1>1 DEF Registered
  <1>7. TypeOK'
    <2>1. /\ clients' \in [Clients -> {NoClient} \cup Followers]
          /\ connections' \in [Uuids -> Clients \cup {None, Dangling, Abandoned}]
      BY <1>1, <1>2 DEF TypeOK
    <2>2. match' \in {"off", "asked", "on"} /\ ifacemap' \in {None, "there", "expired"}
      BY <1>1 DEF TypeOK
    <2> QED BY <1>1, <1>3, <2>1, <2>2 DEF TypeOK
  <1>8. Registered'
    <2>1. connections'[u] # Dangling
      BY <1>5, NamesDiffer
    <2> QED BY <2>1, <1>1, <1>2, <1>4, <1>5, <1>6 DEF Registered
  <1>9. ~garbled => ifacemap' = "there" /\ new.iface
    BY <1>1, <1>2 DEF SharedByAll, TypeOK, None
  <1>10. ~garbled /\ ifacemap = None => \A o \in Clients : clients[o] = NoClient
    BY DEF SharedByAll, None
  <1>11. SharedByAll'
    <2> SUFFICES ASSUME ~garbled
                 PROVE  /\ \A o \in Clients : clients'[o] # NoClient => clients'[o].iface
                        /\ match' # "off"
                        /\ match' = "asked" =>
                              /\ signals' = <<>>
                              /\ \A o \in Clients : clients'[o] # NoClient =>
                                    \A f \in Fields : clients'[o].heard[f] = Unheard
      BY <1>1, <1>9 DEF SharedByAll, None
    <2>1. \A o \in Clients : clients'[o] # NoClient => clients'[o].iface
      BY <1>4, <1>9 DEF SharedByAll
    <2>2. match' # "off"
      BY <1>1 DEF SharedByAll
    <2>3. CASE ifacemap = None
      BY <2>1, <2>2, <2>3, <1>1, <1>2, <1>4, <1>10
    <2>4. CASE ifacemap # None
      BY <2>1, <2>2, <2>4, <1>1, <1>2, <1>4 DEF SharedByAll
    <2> QED BY <2>3, <2>4
  <1>12. LastIsLatest'
    BY <1>1 DEF LastIsLatest, IsReport, There
  <1>13. HeardLatest'
    <2> SUFFICES ASSUME ~garbled, NEW o \in Uuids, NEW f \in Fields, There(o), connections'[o] \in Clients,
                        \A i \in 1..Len(signals') : ~IsReport(signals'[i], o, f)
                 PROVE clients'[connections'[o]].heard[f] \in {Unheard, report[o][f]}
      BY <1>1 DEF HeardLatest, IsReport, There
    <2>1. CASE o = u
      BY <2>1, <1>2, <1>4, <1>5
    <2>2. CASE o # u
      <3>1. connections'[o] = connections[o] /\ connections[o] # c /\ clients'[connections[o]] = clients[connections[o]]
        BY <2>2, <1>4, <1>5, <1>6
      <3>2. ifacemap # None /\ signals' = signals
        BY <3>1, <1>1, <1>10 DEF Registered
      <3> QED BY <3>1, <3>2 DEF HeardLatest
    <2> QED BY <2>1, <2>2
  <1>14. Unborn'
    BY <1>1, <1>3, <1>5 DEF Unborn
  <1> QED BY <1>7, <1>8, <1>11, <1>12, <1>13, <1>14

LEMMA MatchArrivesKeeps == Inv /\ MatchArrives => Inv'
  <1> SUFFICES ASSUME Inv, MatchArrives PROVE Inv'
    OBVIOUS
  <1> USE DEF Inv, MatchArrives, sending
  <1>1. TypeOK' /\ Registered' /\ Unborn' /\ HeardLatest'
    BY DEF TypeOK, Registered, Unborn, HeardLatest, There, IsReport
  <1>2. SharedByAll'
    BY DEF SharedByAll
  <1>3. ~garbled => Len(signals) = 0
    BY DEF SharedByAll
  <1>4. LastIsLatest'
    BY <1>3 DEF LastIsLatest
  <1> QED BY <1>1, <1>2, <1>4

LEMMA AskKeeps ==
    ASSUME Inv, NEW c \in Clients, NEW f \in Fields, Ask(c, f)
    PROVE Inv'
  <1> DEFINE answer == IF Exported THEN report[clients[c].uuid][f] ELSE 0
  <1> DEFINE kept == clients[c].heard
  <1> USE DEF Inv, Ask, sending
  <1>1. clients[c] \in Followers /\ clients[c] # NoClient /\ clients[c].uuid \in Uuids
    BY DEF TypeOK, Followers
  <1>2. answer \in Reports
    BY <1>1, FileDragAssumption DEF TypeOK
  <1>3. /\ clients'[c] = [clients[c] EXCEPT !.heard = [kept EXCEPT ![f] = answer],
                                            !.met = @ \/ There(clients[c].uuid)]
        /\ \A o \in Clients \ {c} : clients'[o] = clients[o]
        /\ clients' \in [Clients -> {NoClient} \cup Followers]
    <2>1. [clients[c] EXCEPT !.heard = [kept EXCEPT ![f] = answer], !.met = @ \/ There(clients[c].uuid)] \in Followers
      BY <1>1, <1>2 DEF Followers, There
    <2> QED BY <2>1 DEF TypeOK
  <1>4. /\ clients'[c].state = clients[c].state /\ clients'[c].uuid = clients[c].uuid
        /\ clients'[c].iface = clients[c].iface /\ clients'[c] \in Followers
        /\ clients'[c].heard[f] = answer
        /\ \A g \in Fields \ {f} : clients'[c].heard[g] = clients[c].heard[g]
    <2>1. clients[c].heard \in [Fields -> Reports \cup {Unheard}]
      BY <1>1 DEF Followers
    <2> QED BY <1>1, <1>2, <1>3, <2>1 DEF Followers
  <1>5. clients'[c] # NoClient
    BY <1>4, NamesDiffer
  <1>6. \A o \in Clients : /\ (clients'[o] = NoClient) <=> (clients[o] = NoClient)
                           /\ clients'[o].state = clients[o].state /\ clients'[o].uuid = clients[o].uuid
                           /\ clients'[o].iface = clients[o].iface
    BY <1>1, <1>3, <1>4, <1>5
  <1>7. TypeOK'
    BY <1>3 DEF TypeOK
  <1>8. Registered'
    BY <1>6 DEF Registered
  <1>9. SharedByAll'
    BY <1>6, <1>1 DEF SharedByAll
  <1>10. LastIsLatest'
    <2>1. ~garbled /\ match = "asked" => Len(signals) = 0
      BY DEF SharedByAll
    <2> QED BY <2>1 DEF LastIsLatest, IsReport, There
  <1>11. HeardLatest'
    <2> SUFFICES ASSUME ~garbled, NEW u \in Uuids, NEW g \in Fields, There(u), connections[u] \in Clients,
                        \A i \in 1..Len(signals) : ~IsReport(signals[i], u, g)
                 PROVE clients'[connections[u]].heard[g] \in {Unheard, report[u][g]}
      BY DEF HeardLatest, IsReport, There
    <2>1. clients[connections[u]].heard[g] \in {Unheard, report[u][g]}
      BY DEF HeardLatest
    <2>2. CASE connections[u] = c /\ g = f
      <3>1. clients[c].uuid = u
        BY <2>2 DEF Registered
      <3> QED BY <2>2, <3>1, <1>4 DEF There, Exported
    <2>3. CASE ~(connections[u] = c /\ g = f)
      BY <2>1, <2>3, <1>3, <1>4
    <2> QED BY <2>2, <2>3
  <1>12. Unborn'
    BY DEF Unborn
  <1> QED BY <1>7, <1>8, <1>9, <1>10, <1>11, <1>12

(* What the relay does to the client that is registered, if there is one.     *)
LEMMA DeliverKeeps == Inv /\ Deliver => Inv'
  <1> SUFFICES ASSUME Inv, Deliver PROVE Inv'
    OBVIOUS
  <1> DEFINE s == Head(signals)
  <1> DEFINE r == connections[s.uuid]
  <1> USE DEF Inv
  <1>1. /\ signals \in Seq(Signals) /\ signals # <<>> /\ signals' = Tail(signals)
        /\ UNCHANGED <<source, server, report, target, match, ifacemap, receiver, garbled>>
        /\ match = "on" => RelayReport(s) \/ RelayDestroyed(s)
        /\ match # "on" => UNCHANGED <<clients, connections>>
    BY DEF Deliver, sending, TypeOK
  <1>2. /\ signals' \in Seq(Signals) /\ s \in Signals /\ Len(signals) \in Nat /\ Len(signals) > 0
        /\ Len(signals') = Len(signals) - 1 /\ s = signals[1]
        /\ \A i \in 1..Len(signals') : signals'[i] = signals[i + 1]
    BY <1>1, TailDrops
  <1>3. s.uuid \in Uuids
    BY <1>2 DEF Signals
  <1>4. \A u \in Uuids : There(u)' <=> There(u)
    BY <1>1 DEF There
  <1> HIDE DEF s
  <1>5. LastIsLatest'
    <2> SUFFICES ASSUME ~garbled, match = "on", NEW u \in Uuids, NEW f \in Fields, NEW i \in 1..Len(signals'),
                        There(u), IsReport(signals'[i], u, f),
                        \A j \in (i + 1)..Len(signals') : ~IsReport(signals'[j], u, f)
                 PROVE signals'[i].value = report[u][f]
      BY <1>1, <1>4 DEF LastIsLatest, IsReport
    <2>1. i + 1 \in 1..Len(signals) /\ signals'[i] = signals[i + 1]
      BY <1>2
    <2>2. ASSUME NEW j \in (i + 2)..Len(signals) PROVE ~IsReport(signals[j], u, f)
      <3>1. j - 1 \in (i + 1)..Len(signals') /\ j - 1 \in 1..Len(signals') /\ (j - 1) + 1 = j
        BY <1>2
      <3>2. signals'[j - 1] = signals[j]
        BY <3>1, <1>2
      <3> QED BY <3>1, <3>2
    <2>3. \A j \in ((i + 1) + 1)..Len(signals) : ~IsReport(signals[j], u, f)
      BY <2>2
    <2> QED BY <2>1, <2>3 DEF LastIsLatest
  <1>6. \A u \in Uuids, f \in Fields :
           /\ ~IsReport(s, u, f) /\ \A i \in 1..Len(signals') : ~IsReport(signals'[i], u, f)
           => \A i \in 1..Len(signals) : ~IsReport(signals[i], u, f)
    <2> SUFFICES ASSUME NEW u \in Uuids, NEW f \in Fields, ~IsReport(s, u, f),
                        \A i \in 1..Len(signals') : ~IsReport(signals'[i], u, f), NEW i \in 1..Len(signals)
                 PROVE  ~IsReport(signals[i], u, f)
      OBVIOUS
    <2>1. CASE i = 1
      BY <2>1, <1>2
    <2>2. CASE i # 1
      <3>1. i - 1 \in 1..Len(signals') /\ (i - 1) + 1 = i
        BY <2>2, <1>2
      <3> QED BY <3>1, <1>2
    <2> QED BY <2>1, <2>2
  <1>7. \A i \in 1..Len(signals') : \E j \in 1..Len(signals) : signals'[i] = signals[j]
    <2> TAKE i \in 1..Len(signals')
    <2>1. i + 1 \in 1..Len(signals)
      BY <1>2
    <2> QED BY <2>1, <1>2
  <1>8. ~garbled => match # "asked"
    BY <1>1 DEF SharedByAll
  <1>9. CASE match # "on"
    <2>1. TypeOK' /\ Registered' /\ SharedByAll'
      BY <1>1, <1>2, <1>8, <1>9 DEF TypeOK, Registered, SharedByAll
    <2>2. Unborn'
      BY <1>1, <1>7, <1>9 DEF Unborn
    <2>3. ~garbled => \A u \in Uuids : connections[u] \notin Clients
      BY <1>8, <1>9 DEF SharedByAll, Registered, TypeOK, None
    <2>4. HeardLatest'
      BY <2>3, <1>1, <1>9 DEF HeardLatest
    <2> QED BY <2>1, <2>2, <2>4, <1>5
  <1>10. CASE match = "on" /\ RelayReport(s)
    <2>1. s.name = "report" /\ s.field \in Fields /\ s.value \in Reports
      BY <1>2, <1>10 DEF RelayReport, Signals
    <2>2. connections' = connections
      BY <1>10 DEF RelayReport
    <2>3. r \in Clients => clients[r] # NoClient /\ clients[r] \in Followers /\ clients[r].uuid = s.uuid
      BY <1>3 DEF Registered, TypeOK
    <2>4. r \in Clients => /\ clients'[r] = [clients[r] EXCEPT !.heard = [@ EXCEPT ![s.field] = s.value]]
                           /\ clients'[r] \in Followers
                           /\ clients' \in [Clients -> {NoClient} \cup Followers]
                           /\ \A o \in Clients \ {r} : clients'[o] = clients[o]
      <3> SUFFICES ASSUME r \in Clients PROVE /\ clients'[r] = [clients[r] EXCEPT !.heard = [@ EXCEPT ![s.field] = s.value]]
                           /\ clients'[r] \in Followers
                           /\ clients' \in [Clients -> {NoClient} \cup Followers]
                           /\ \A o \in Clients \ {r} : clients'[o] = clients[o]
        OBVIOUS
      <3>1. clients' = [clients EXCEPT ![r] = [clients[r] EXCEPT !.heard = [@ EXCEPT ![s.field] = s.value]]]
        BY <1>10 DEF RelayReport, TypeOK
      <3>2. [clients[r] EXCEPT !.heard = [@ EXCEPT ![s.field] = s.value]] \in Followers
        BY <2>1, <2>3 DEF Followers
      <3> QED BY <3>1, <3>2 DEF TypeOK
    <2>5. r \in Clients => /\ clients'[r].state = clients[r].state /\ clients'[r].uuid = clients[r].uuid
                           /\ clients'[r].iface = clients[r].iface /\ clients'[r] # NoClient
                           /\ clients'[r].heard[s.field] = s.value
                           /\ \A g \in Fields \ {s.field} : clients'[r].heard[g] = clients[r].heard[g]
      BY <2>1, <2>3, <2>4, NamesDiffer DEF Followers
    <2>6. r \notin Clients => clients' = clients
      BY <1>10 DEF RelayReport
    <2>7. \A o \in Clients : /\ (clients'[o] = NoClient) <=> (clients[o] = NoClient)
                             /\ clients'[o].state = clients[o].state /\ clients'[o].uuid = clients[o].uuid
                             /\ clients'[o].iface = clients[o].iface
      BY <2>3, <2>4, <2>5, <2>6
    <2>8. TypeOK'
      BY <1>1, <1>2, <2>2, <2>4, <2>6 DEF TypeOK
    <2>9. Registered'
      BY <2>2, <2>7 DEF Registered
    <2>10. SharedByAll'
      BY <1>1, <1>10, <2>7 DEF SharedByAll
    <2>11. HeardLatest'
      <3> SUFFICES ASSUME ~garbled, NEW u \in Uuids, NEW f \in Fields, There(u), connections[u] \in Clients,
                          \A i \in 1..Len(signals') : ~IsReport(signals'[i], u, f)
                   PROVE clients'[connections[u]].heard[f] \in {Unheard, report[u][f]}
        BY <1>1, <1>4, <2>2 DEF HeardLatest, IsReport
      <3>1. CASE IsReport(s, u, f)
        <4>1. \A j \in (1 + 1)..Len(signals) : ~IsReport(signals[j], u, f)
          <5> SUFFICES ASSUME NEW j \in 2..Len(signals) PROVE ~IsReport(signals[j], u, f)
            OBVIOUS
          <5>1. j - 1 \in 1..Len(signals') /\ (j - 1) + 1 = j
            BY <1>2
          <5> QED BY <5>1, <1>2
        <4>2. s.value = report[u][f]
          <5>1. 1 \in 1..Len(signals)
            BY <1>2
          <5> QED BY <5>1, <4>1, <3>1, <1>2, <1>10 DEF LastIsLatest
        <4>3. u = s.uuid /\ f = s.field
          BY <3>1 DEF IsReport
        <4> QED BY <4>2, <4>3, <2>5
      <3>2. CASE ~IsReport(s, u, f)
        <4>1. clients[connections[u]].heard[f] \in {Unheard, report[u][f]}
          BY <3>2, <1>6 DEF HeardLatest
        <4>2. ~(u = s.uuid /\ f = s.field)
          BY <3>2, <2>1 DEF IsReport
        <4>3. connections[u] = r => u = s.uuid
          BY <2>3 DEF Registered
        <4> QED BY <4>1, <4>2, <4>3, <2>4, <2>5, <2>6
      <3> QED BY <3>1, <3>2
    <2>12. Unborn'
      BY <1>1, <1>7, <2>2 DEF Unborn
    <2> QED BY <1>5, <2>8, <2>9, <2>10, <2>11, <2>12
  <1>11. CASE match = "on" /\ RelayDestroyed(s)
    <2>1. s.name = "destroyed" /\ connections' = [connections EXCEPT ![s.uuid] = None]
      BY <1>11 DEF RelayDestroyed
    <2>2. /\ connections' \in [Uuids -> Clients \cup {None, Dangling, Abandoned}]
          /\ connections'[s.uuid] = None /\ \A u \in Uuids \ {s.uuid} : connections'[u] = connections[u]
      BY <2>1, <1>3 DEF TypeOK
    <2>3. r \in Clients => clients[r] # NoClient /\ clients[r] \in Followers /\ clients[r].uuid = s.uuid
      BY <1>3 DEF Registered, TypeOK
    <2>4. r \in Clients => /\ clients'[r] = [clients[r] EXCEPT !.state = "doomed"]
                           /\ clients'[r] \in Followers
                           /\ clients' \in [Clients -> {NoClient} \cup Followers]
                           /\ \A o \in Clients \ {r} : clients'[o] = clients[o]
      BY <2>3, <1>11 DEF RelayDestroyed, TypeOK, Followers
    <2>5. r \in Clients => /\ clients'[r] # NoClient /\ clients'[r].iface = clients[r].iface
                           /\ clients'[r].heard = clients[r].heard
      BY <2>3, <2>4, NamesDiffer DEF Followers
    <2>6. r \notin Clients => clients' = clients
      BY <1>11 DEF RelayDestroyed
    <2>7. \A u \in Uuids \ {s.uuid} : connections[u] \in Clients =>
             connections[u] # r /\ clients'[connections[u]] = clients[connections[u]]
      BY <2>3, <2>4, <2>6 DEF Registered
    <2>8. TypeOK'
      BY <1>1, <1>2, <2>2, <2>4, <2>6 DEF TypeOK
    <2>9. Registered'
      BY <2>2, <2>7, NamesDiffer DEF Registered
    <2>10. SharedByAll'
      BY <1>1, <1>11, <2>3, <2>4, <2>5, <2>6 DEF SharedByAll
    <2>11. HeardLatest'
      <3> SUFFICES ASSUME ~garbled, NEW u \in Uuids, NEW f \in Fields, There(u), connections'[u] \in Clients,
                          \A i \in 1..Len(signals') : ~IsReport(signals'[i], u, f)
                   PROVE clients'[connections'[u]].heard[f] \in {Unheard, report[u][f]}
        BY <1>1, <1>4 DEF HeardLatest, IsReport
      <3>1. u # s.uuid /\ connections'[u] = connections[u] /\ clients'[connections[u]] = clients[connections[u]]
        BY <2>2, <2>7, NamesDiffer
      <3>2. ~IsReport(s, u, f)
        BY <2>1 DEF IsReport
      <3> QED BY <3>1, <3>2, <1>6 DEF HeardLatest
    <2>12. Unborn'
      BY <1>1, <1>7, <2>2 DEF Unborn
    <2> QED BY <1>5, <2>8, <2>9, <2>10, <2>11, <2>12
  <1> QED BY <1>1, <1>9, <1>10, <1>11

(* The deleter: until it goes wrong, the interface goes with the last client. *)
LEMMA ForgetsKeeps ==
    ASSUME Inv, NEW c \in Clients, NEW entry \in {Dangling, Abandoned}, Forgets(c, entry),
           clients[c] # NoClient, entry = Dangling => \A u \in Uuids : connections[u] # c,
           UNCHANGED <<source, server, report, target, signals>>
    PROVE Inv'
  <1> DEFINE others == {o \in Clients \ {c} : clients[o] # NoClient}
  <1> DEFINE releases == clients[c].iface /\ \A o \in others : ~clients[o].iface
  <1> DEFINE garbage == releases /\ maker # c
  <1> USE DEF Inv
  <1>1. /\ clients' = [clients EXCEPT ![c] = NoClient]
        /\ connections' = [u \in Uuids |-> IF connections[u] = c THEN entry ELSE connections[u]]
        /\ ifacemap' \in (IF garbage THEN {None, "expired"} ELSE IF releases THEN {None} ELSE {ifacemap})
        /\ match' = IF others = {} \/ (releases /\ ~garbage) THEN "off" ELSE match
        /\ receiver' = receiver /\ garbled' = (garbled \/ garbage)
    BY DEF Forgets, Garbage, InterfaceGoes, RelayGoes, Others
  <1>2. clients'[c] = NoClient /\ \A o \in Clients \ {c} : clients'[o] = clients[o]
    BY <1>1 DEF TypeOK
  <1>3. \A u \in Uuids : /\ connections'[u] \in Clients => connections'[u] = connections[u] /\ connections[u] # c
                         /\ connections[u] # c => connections'[u] = connections[u]
    BY <1>1, NamesDiffer
  <1>4. \A u \in Uuids : There(u)' <=> There(u)
    BY DEF There
  <1>5. ~garbled' => ~garbled /\ ~garbage /\ clients[c].iface /\ ifacemap # "expired"
                     /\ (others = {} <=> releases)
    BY <1>1 DEF SharedByAll, TypeOK
  <1>6. TypeOK'
    <2>1. garbage \in BOOLEAN /\ garbled' \in BOOLEAN /\ match' \in {"off", "asked", "on"}
      BY <1>1 DEF TypeOK
    <2>2. ifacemap' \in {None, "there", "expired"}
      BY <1>1 DEF TypeOK
    <2>3. clients' \in [Clients -> {NoClient} \cup Followers]
      BY <1>1 DEF TypeOK
    <2>4. connections' \in [Uuids -> Clients \cup {None, Dangling, Abandoned}]
      BY <1>1 DEF TypeOK
    <2> QED BY <2>1, <2>2, <2>3, <2>4, <1>1 DEF TypeOK
  <1>7. Registered'
    <2>1. \A u \in Uuids : connections'[u] # Dangling
      BY <1>1, NamesDiffer DEF Registered
    <2> QED BY <2>1, <1>2, <1>3 DEF Registered
  <1>8. SharedByAll'
    <2> SUFFICES ASSUME ~garbled'
                 PROVE  /\ ifacemap' # "expired"
                        /\ \A o \in Clients : clients'[o] # NoClient => clients'[o].iface /\ ifacemap' = "there"
                        /\ match' = "off" => ifacemap' = None
                        /\ match' = "asked" =>
                              /\ signals = <<>>
                              /\ \A o \in Clients : clients'[o] # NoClient =>
                                    \A f \in Fields : clients'[o].heard[f] = Unheard
      BY DEF SharedByAll
    <2>1. CASE others = {}
      <3>1. \A o \in Clients : clients'[o] = NoClient
        BY <2>1, <1>2
      <3>2. ifacemap' = None /\ match' = "off"
        BY <2>1, <1>1, <1>5
      <3> QED BY <3>1, <3>2 DEF None
    <2>2. CASE others # {}
      <3>1. ifacemap' = ifacemap /\ match' = match
        BY <2>2, <1>1, <1>5
      <3> QED BY <3>1, <1>2, <1>5 DEF SharedByAll
    <2> QED BY <2>1, <2>2
  <1>9. LastIsLatest'
    <2>1. match' = "on" => match = "on"
      BY <1>1
    <2> QED BY <2>1, <1>4, <1>5 DEF LastIsLatest, IsReport
  <1>10. HeardLatest'
    <2> SUFFICES ASSUME ~garbled', NEW u \in Uuids, NEW f \in Fields, There(u), connections'[u] \in Clients,
                        \A i \in 1..Len(signals) : ~IsReport(signals[i], u, f)
                 PROVE clients'[connections'[u]].heard[f] \in {Unheard, report[u][f]}
      BY <1>4 DEF HeardLatest, IsReport
    <2> QED BY <1>2, <1>3, <1>5 DEF HeardLatest
  <1>11. Unborn'
    BY <1>3, NamesDiffer DEF Unborn
  <1> QED BY <1>6, <1>7, <1>8, <1>9, <1>10, <1>11

(* A crash leaves nobody registered, and no client.                            *)
LEMMA CrashesKeeps ==
    ASSUME Inv, Crashes, UNCHANGED <<source, server, report, target, signals>>
    PROVE Inv'
  <1> USE DEF Inv, Crashes
  <1>1. /\ \A u \in Uuids : connections'[u] = None /\ connections'[u] \notin Clients
        /\ \A c \in Clients : clients'[c] = NoClient
        /\ match' = "off" /\ ifacemap' = None
    BY NamesDiffer
  <1>2. TypeOK'
    BY DEF TypeOK
  <1>3. Registered'
    BY <1>1, NamesDiffer DEF Registered
  <1>4. SharedByAll'
    BY <1>1 DEF SharedByAll, None
  <1>5. LastIsLatest' /\ HeardLatest'
    BY <1>1 DEF LastIsLatest, HeardLatest
  <1>6. Unborn'
    BY <1>1 DEF Unborn
  <1> QED BY <1>2, <1>3, <1>4, <1>5, <1>6

LEMMA DeletedKeeps ==
    ASSUME Inv, NEW c \in Clients, NEW entry \in {Dangling, Abandoned}, Deleted(c, entry),
           clients[c] # NoClient, entry = Dangling => \A u \in Uuids : connections[u] # c,
           UNCHANGED <<source, server, report, target, signals>>
    PROVE Inv'
  BY ForgetsKeeps, CrashesKeeps DEF Deleted

LEMMA ReapKeeps ==
    ASSUME Inv, NEW c \in Clients, Reap(c)
    PROVE Inv'
  <1>1. clients[c] # NoClient /\ clients[c].state # "live"
    BY NamesDiffer DEF Reap
  <1>2. \A u \in Uuids : connections[u] # c
    BY <1>1 DEF Inv, Registered
  <1>3. Deleted(c, Dangling) /\ UNCHANGED <<source, server, report, target, signals>>
    BY DEF Reap, sending
  <1> QED BY <1>1, <1>2, <1>3, DeletedKeeps

LEMMA DeleteClientKeeps ==
    ASSUME Inv, NEW c \in Clients, DeleteClient(c)
    PROVE Inv'
  <1>1. clients[c] # NoClient
    BY NamesDiffer DEF DeleteClient
  <1>2. Deleted(c, Abandoned) /\ UNCHANGED <<source, server, report, target, signals>>
    BY DEF DeleteClient, sending
  <1> QED BY <1>1, <1>2, NamesDiffer, DeletedKeeps

LEMMA NextKeepsInv == Inv /\ [Next]_vars => Inv'
  <1> SUFFICES ASSUME Inv, [Next]_vars PROVE Inv'
    OBVIOUS
  <1>1. CASE \E u \in Uuids :
                \/ NewServer(u) \/ DestroyServer(u)
                \/ \E f \in Fields, v \in Reports : SetReport(u, f, v)
                \/ \E url \in Urls : SetTarget(u, url)
                \/ \E c \in Clients : NewClient(c, u)
    BY <1>1, NewServerKeeps, DestroyServerKeeps, SetReportKeeps, SetTargetKeeps, NewClientKeeps
  <1>2. CASE SourceDies
    BY <1>2, SourceDiesKeeps
  <1>3. CASE MatchArrives
    BY <1>3, MatchArrivesKeeps
  <1>4. CASE \E c \in Clients : (\E f \in Fields : Ask(c, f)) \/ Reap(c) \/ DeleteClient(c)
    BY <1>4, AskKeeps, ReapKeeps, DeleteClientKeeps
  <1>5. CASE Deliver
    BY <1>5, DeliverKeeps
  <1>6. CASE UNCHANGED vars
    BY <1>6, SourceKeeps DEF vars, sending, receiving, Inv, TypeOK, There
  <1> QED BY <1>1, <1>2, <1>3, <1>4, <1>5, <1>6 DEF Next

-----------------------------------------------------------------------------
(* The client registered for a drag is there - its relay never follows a      *)
(* pointer to one that deleted itself - and what it last heard of the         *)
(* progress or the state is what the server has once no signal is under way.  *)
THEOREM ClientsAreFollowing == Spec => []ClientsFollow
  <1>1. Inv => ClientsFollow
    <2> SUFFICES ASSUME Inv, NEW u \in Uuids
                 PROVE  /\ connections[u] # Dangling
                        /\ (connections[u] \in Clients /\ signals = <<>> /\ There(u) /\ ~garbled) =>
                              \A f \in Fields : clients[connections[u]].heard[f] \in {Unheard, report[u][f]}
      BY DEF ClientsFollow
    <2>1. signals = <<>> => \A i \in 1..Len(signals) : FALSE
      OBVIOUS
    <2> QED BY <2>1 DEF Inv, Registered, HeardLatest
  <1> QED BY <1>1, InitInv, NextKeepsInv, PTL DEF Spec
=============================================================================
