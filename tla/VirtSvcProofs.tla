---------------------------- MODULE VirtSvcProofs ----------------------------
(***************************************************************************)
(* Proofs about VirtSvc, for any number of interfaces, senders and ports   *)
(* and any timeouts.                                                       *)
(***************************************************************************)
EXTENDS VirtSvc, TLAPS

\* The inductive invariant.
PortsInv == TypeOK /\ OpenPortsMatch /\ AskedFresh /\ InterfaceForgotten /\ NoLostConnection

-----------------------------------------------------------------------------
\* Operators.

\* The TCP automaton stays in its states.
LEMMA StateType ==
    ASSUME NEW s \in ConnStates, NEW flag
    PROVE  virtsvc_tcp_state_change(s, flag) \in ConnStates
  BY Zenon DEF virtsvc_tcp_state_change, ConnStates

\* A packet refreshes the timestamp of its connection and leaves the key.
LEMMA TouchedConn ==
    ASSUME TypeOK, NEW conn \in Conns, NEW flag
    PROVE  /\ Touched(conn, flag) \in Conns
           /\ Touched(conn, flag).last_pkt_timestamp = now
           /\ Touched(conn, flag).key = conn.key
<1>1. virtsvc_tcp_state_change(conn.state, flag) \in ConnStates
  BY StateType, Zenon DEF Conns
<1> QED
  BY <1>1, Zenon DEF Touched, Conns, TypeOK

\* An old slot has had no packet for at least the shorter timeout.
LEMMA OldMeans ==
    ASSUME TypeOK, NEW i \in Slots, dp_virtsvc_is_connection_old(i)
    PROVE  now > connections[i].last_pkt_timestamp + port_timeout
  BY ConstantsAssumption DEF dp_virtsvc_is_connection_old, TypeOK, Conns

\* A slot with a recent packet, by the timeout of its state, is not old.
LEMMA RecentMeans ==
    ASSUME TypeOK, NEW i \in Slots, Recent(i)
    PROVE  ~dp_virtsvc_is_connection_old(i)
<1>1. now \in Nat /\ connections[i].last_pkt_timestamp \in Nat
  BY Zenon DEF TypeOK, Conns
<1> QED
  BY <1>1, ConstantsAssumption DEF dp_virtsvc_is_connection_old, Recent

\* Deleting keys from open_ports.
LEMMA DeletedType ==
    ASSUME TypeOK, NEW K
    PROVE  /\ Deleted(K) \in [Keys -> Slots \cup {None}]
           /\ \A k \in Keys : Deleted(K)[k] = IF k \in K THEN None ELSE open_ports[k]
  BY Zenon DEF Deleted, TypeOK

\* Emptying a slot changes its timestamp only.
LEMMA EmptiedConn ==
    ASSUME NEW e \in Conns
    PROVE  LET d == [e EXCEPT !.last_pkt_timestamp = 0]
           IN  d.key = e.key /\ d.state = e.state /\ d \in Conns /\ d.last_pkt_timestamp = 0
  BY Zenon DEF Conns

-----------------------------------------------------------------------------
\* Each action preserves the invariant.

\* A slot i of sender k is touched; the hash is as before.
LEMMA KnownInv ==
    ASSUME PortsInv, NEW k \in Keys, NEW flag, KnownConnection(k, flag),
           k.vf \in allocated, UNCHANGED <<now, allocated>>
    PROVE  PortsInv'
<1> DEFINE i == open_ports[k]
           c == Touched(connections[i], flag)
<1>1. i \in Slots /\ Taken(i) /\ connections[i].key = k
  BY Zenon DEF PortsInv, TypeOK, OpenPortsMatch, KnownConnection
<1>2. c \in Conns /\ c.last_pkt_timestamp = now /\ c.key = k
  BY <1>1, TouchedConn, Zenon DEF PortsInv, TypeOK
<1>3. connections' = [connections EXCEPT ![i] = c] /\ asked' = [asked EXCEPT ![k] = [port |-> i, at |-> now]]
  BY Zenon DEF KnownConnection, Sent
<1>4. UNCHANGED <<now, allocated, open_ports, last_assigned_port, failed>>
  BY Zenon DEF KnownConnection, Sent
<1> HIDE DEF c
<1>5. \A j \in Slots : connections'[j] = IF j = i THEN c ELSE connections[j]
  BY <1>3, Zenon DEF PortsInv, TypeOK
<1>6. \A l \in Keys : asked'[l] = IF l = k THEN [port |-> i, at |-> now] ELSE asked[l]
  BY <1>3, Zenon DEF PortsInv, TypeOK
<1>7. now \in Nat /\ now # 0
  BY Zenon DEF PortsInv, TypeOK
<1>8. TypeOK'
  <2>1. connections' \in [Slots -> Conns]
    BY <1>1, <1>2, <1>3, Zenon DEF PortsInv, TypeOK
  <2>2. [port |-> i, at |-> now] \in [port : Slots, at : Nat]
    BY <1>1, <1>7, Zenon
  <2>3. asked' \in [Keys -> [port : Slots, at : Nat] \cup {None}]
    BY <2>2, <1>3, Zenon DEF PortsInv, TypeOK
  <2> QED
    BY <2>1, <2>3, <1>4, <1>7, Zenon DEF PortsInv, TypeOK
<1>9. \A j \in Slots : Taken(j)' = Taken(j) /\ connections'[j].key = connections[j].key
  BY <1>1, <1>2, <1>5, <1>7, Zenon DEF Taken
<1>10. OpenPortsMatch'
  BY <1>4, <1>9 DEF PortsInv, OpenPortsMatch, TypeOK
<1>11. AskedFresh'
  <2> SUFFICES ASSUME NEW l \in Keys, asked'[l] # None
               PROVE  /\ asked'[l].at <= now
                      /\ now <= asked'[l].at + port_timeout =>
                           /\ connections'[asked'[l].port].last_pkt_timestamp # 0
                           /\ connections'[asked'[l].port].key = l
                           /\ connections'[asked'[l].port].last_pkt_timestamp >= asked'[l].at
    BY <1>4, Zenon DEF AskedFresh, Taken
  <2>1. CASE l = k
    BY <2>1, <1>1, <1>2, <1>5, <1>6, <1>7, ConstantsAssumption
  <2>2. CASE l # k
    <3>1. asked'[l] = asked[l] /\ asked[l].port \in Slots /\ asked[l].at \in Nat
      BY <2>2, <1>6, Zenon DEF PortsInv, TypeOK
    <3>2. connections'[asked[l].port].last_pkt_timestamp \in {now, connections[asked[l].port].last_pkt_timestamp}
      BY <3>1, <1>2, <1>5, Zenon
    <3> QED
      BY <3>1, <3>2, <1>7, <1>9, Zenon DEF PortsInv, AskedFresh, Taken
  <2> QED
    BY <2>1, <2>2, Zenon
<1>12. InterfaceForgotten'
  <2>1. asked'[k] # None
    <3>1. [port |-> i, at |-> now] \in [port : Slots, at : Nat]
      BY <1>1, <1>7, Zenon
    <3> QED
      BY <3>1, <1>6, ConstantsAssumption, Zenon
  <2> QED
    BY <2>1, <1>4, <1>6, <1>9, Zenon DEF PortsInv, InterfaceForgotten
<1>13. NoLostConnection'
  BY <1>4, <1>9, Zenon DEF PortsInv, NoLostConnection
<1> QED
  BY <1>8, <1>10, <1>11, <1>12, <1>13, Zenon DEF PortsInv

\* A port is taken over: its previous owner leaves both tables.
LEMMA TakeOverInv ==
    ASSUME PortsInv, NEW k \in Keys, NEW flag, NEW i \in Slots,
           k.vf \in allocated, UNCHANGED <<now, allocated>>,
           open_ports[k] = None,
           dp_virtsvc_is_connection_old(i),
           last_assigned_port' = i,
           open_ports' = [Deleted(IF Taken(i) THEN {connections[i].key} ELSE {}) EXCEPT ![k] = i],
           Sent(k, i, [connections[i] EXCEPT !.key = k, !.state = "TRANSIENT"], flag)
    PROVE  PortsInv'
<1> DEFINE conn == [connections[i] EXCEPT !.key = k, !.state = "TRANSIENT"]
           c == Touched(conn, flag)
           kept == Deleted(IF Taken(i) THEN {connections[i].key} ELSE {})
<1>1. conn \in Conns /\ conn.key = k
  BY Zenon DEF PortsInv, TypeOK, Conns, ConnStates
<1>2. c \in Conns /\ c.last_pkt_timestamp = now /\ c.key = k
  <2> HIDE DEF conn
  <2> QED
    BY <1>1, TouchedConn, Zenon DEF PortsInv
<1>3. connections' = [connections EXCEPT ![i] = c] /\ asked' = [asked EXCEPT ![k] = [port |-> i, at |-> now]]
  BY Zenon DEF Sent
<1>4. UNCHANGED <<now, allocated, failed>>
  BY Zenon DEF Sent
<1> HIDE DEF c
<1>5. \A j \in Slots : connections'[j] = IF j = i THEN c ELSE connections[j]
  BY <1>3, Zenon DEF PortsInv, TypeOK
<1>6. \A l \in Keys : asked'[l] = IF l = k THEN [port |-> i, at |-> now] ELSE asked[l]
  BY <1>3, Zenon DEF PortsInv, TypeOK
<1>7. now \in Nat /\ now # 0
  BY Zenon DEF PortsInv, TypeOK
<1>8. \A l \in Keys : open_ports'[l] = IF l = k THEN i
                                       ELSE IF Taken(i) /\ l = connections[i].key THEN None
                                       ELSE open_ports[l]
  BY DeletedType DEF PortsInv
<1>9. TypeOK'
  <2>1. open_ports' \in [Keys -> Slots \cup {None}]
    BY DeletedType, Zenon DEF PortsInv
  <2>2. connections' \in [Slots -> Conns]
    BY <1>2, <1>3, Zenon DEF PortsInv, TypeOK
  <2>3. [port |-> i, at |-> now] \in [port : Slots, at : Nat]
    BY <1>7, Zenon
  <2>4. asked' \in [Keys -> [port : Slots, at : Nat] \cup {None}]
    BY <2>3, <1>3, Zenon DEF PortsInv, TypeOK
  <2> QED
    BY <2>1, <2>2, <2>4, <1>4, <1>7, Zenon DEF PortsInv, TypeOK
<1>10. /\ \A j \in Slots : j # i => Taken(j)' = Taken(j) /\ connections'[j].key = connections[j].key
       /\ Taken(i)' /\ connections'[i].key = k
  BY <1>2, <1>5, <1>7, Zenon DEF Taken
<1>11. OpenPortsMatch'
  <2> SUFFICES ASSUME NEW l \in Keys, open_ports'[l] # None
               PROVE  /\ connections'[open_ports'[l]].last_pkt_timestamp # 0
                      /\ connections'[open_ports'[l]].key = l
    BY Zenon DEF OpenPortsMatch, Taken
  <2>1. CASE l = k
    <3>1. open_ports'[l] = i
      BY <2>1, <1>8, Zenon
    <3>2. connections'[i].last_pkt_timestamp # 0 /\ connections'[i].key = l
      BY <2>1, <1>10, Zenon DEF Taken
    <3> QED
      BY <3>1, <3>2, Zenon
  <2>2. CASE l # k
    <3>0. open_ports'[l] = IF Taken(i) /\ l = connections[i].key THEN None ELSE open_ports[l]
      BY <2>2, <1>8, Zenon
    <3>1. open_ports'[l] = open_ports[l] /\ open_ports[l] \in Slots /\ ~(Taken(i) /\ l = connections[i].key)
      BY <3>0, Zenon DEF PortsInv, TypeOK
    <3>2. Taken(open_ports[l]) /\ connections[open_ports[l]].key = l
      BY <3>1, Zenon DEF PortsInv, OpenPortsMatch
    <3> QED
      BY <3>1, <3>2, <1>5, Zenon DEF Taken
  <2> QED
    BY <2>1, <2>2, Zenon
<1>12. AskedFresh'
  <2> SUFFICES ASSUME NEW l \in Keys, asked'[l] # None
               PROVE  /\ asked'[l].at <= now
                      /\ now <= asked'[l].at + port_timeout =>
                           /\ connections'[asked'[l].port].last_pkt_timestamp # 0
                           /\ connections'[asked'[l].port].key = l
                           /\ connections'[asked'[l].port].last_pkt_timestamp >= asked'[l].at
    BY <1>4, Zenon DEF AskedFresh, Taken
  <2>1. CASE l = k
    BY <2>1, <1>2, <1>5, <1>6, <1>7, ConstantsAssumption
  <2>2. CASE l # k
    <3>1. asked'[l] = asked[l] /\ asked[l].port \in Slots /\ asked[l].at \in Nat
      BY <2>2, <1>6, Zenon DEF PortsInv, TypeOK
    <3>2. CASE asked[l].port = i
      <4>1. now > connections[i].last_pkt_timestamp + port_timeout
        BY OldMeans, Zenon DEF PortsInv
      <4>2. connections[i].last_pkt_timestamp \in Nat /\ port_timeout \in Nat
        BY ConstantsAssumption, Zenon DEF PortsInv, TypeOK, Conns
      <4> QED
        BY <3>1, <3>2, <4>1, <4>2, <1>7 DEF PortsInv, AskedFresh
    <3>3. CASE asked[l].port # i
      BY <3>1, <3>3, <1>5 DEF PortsInv, AskedFresh, Taken
    <3> QED
      BY <3>2, <3>3, Zenon
  <2> QED
    BY <2>1, <2>2, Zenon
<1>13. InterfaceForgotten'
  <2>1. asked'[k] # None
    <3>1. [port |-> i, at |-> now] \in [port : Slots, at : Nat]
      BY <1>7, Zenon
    <3> QED
      BY <3>1, <1>6, ConstantsAssumption, Zenon
  <2> QED
    BY <2>1, <1>4, <1>6, <1>10, Zenon DEF PortsInv, InterfaceForgotten
<1>14. NoLostConnection'
  <2> SUFFICES ASSUME ~failed, NEW j \in Slots, Taken(j)'
               PROVE  open_ports'[connections'[j].key] = j
    BY <1>4, Zenon DEF NoLostConnection
  <2>1. CASE j = i
    BY <2>1, <1>8, <1>10, Zenon
  <2>2. CASE j # i
    <3>1. Taken(j) /\ connections'[j].key = connections[j].key /\ open_ports[connections[j].key] = j
      BY <2>2, <1>10, Zenon DEF PortsInv, NoLostConnection
    <3>2. connections[j].key \in Keys
      BY <3>1, Zenon DEF PortsInv, InterfaceForgotten
    <3>3. Taken(i) => open_ports[connections[i].key] = i
      BY Zenon DEF PortsInv, NoLostConnection
    <3>4. j # None
      BY ConstantsAssumption, Zenon
    <3> QED
      BY <2>2, <3>1, <3>2, <3>3, <3>4, <1>8, Zenon
  <2> QED
    BY <2>1, <2>2, Zenon
<1> QED
  BY <1>9, <1>11, <1>12, <1>13, <1>14, Zenon DEF PortsInv

\* A port is taken away from its owner, but the new entry cannot be added.
LEMMA HashFullInv ==
    ASSUME PortsInv, NEW i \in Slots,
           UNCHANGED <<now, allocated, connections, asked>>,
           last_assigned_port' = i,
           open_ports' = Deleted(IF Taken(i) THEN {connections[i].key} ELSE {}),
           failed' = TRUE
    PROVE  PortsInv'
<1>1. /\ open_ports' \in [Keys -> Slots \cup {None}]
      /\ \A l \in Keys : open_ports'[l] # None => open_ports'[l] = open_ports[l]
  BY DeletedType, Zenon DEF PortsInv
<1>2. TypeOK'
  BY <1>1, Zenon DEF PortsInv, TypeOK
<1>3. OpenPortsMatch'
  BY <1>1, Zenon DEF PortsInv, OpenPortsMatch, Taken
<1>4. AskedFresh' /\ InterfaceForgotten' /\ NoLostConnection'
  BY Zenon DEF PortsInv, AskedFresh, InterfaceForgotten, NoLostConnection, Taken
<1> QED
  BY <1>2, <1>3, <1>4, Zenon DEF PortsInv

\* Every request preserves the invariant.
LEMMA RequestInv ==
    ASSUME PortsInv, NEW k \in Keys, NEW flag, virtsvc_request_next(k, flag)
    PROVE  PortsInv'
<1>1. k.vf \in allocated /\ UNCHANGED <<now, allocated>>
  BY Zenon DEF virtsvc_request_next
<1>2. CASE KnownConnection(k, flag)
  BY <1>1, <1>2, KnownInv, Zenon
<1>3. CASE dp_virtsvc_create_connection(k, flag)
  <2>1. PICK i \in Slots :
          LET kept == Deleted(IF Taken(i) THEN {connections[i].key} ELSE {})
          IN  /\ open_ports[k] = None
              /\ dp_virtsvc_is_connection_old(i)
              /\ last_assigned_port' = i
              /\ \/ /\ open_ports' = [kept EXCEPT ![k] = i]
                    /\ Sent(k, i, [connections[i] EXCEPT !.key = k, !.state = "TRANSIENT"], flag)
                 \/ /\ open_ports' = kept
                    /\ failed' = TRUE
                    /\ UNCHANGED <<connections, asked>>
    BY <1>3, Zenon DEF dp_virtsvc_create_connection, dp_virtsvc_get_free_port
  <2>2. CASE /\ open_ports' = [Deleted(IF Taken(i) THEN {connections[i].key} ELSE {}) EXCEPT ![k] = i]
             /\ Sent(k, i, [connections[i] EXCEPT !.key = k, !.state = "TRANSIENT"], flag)
    BY <1>1, <2>1, <2>2, TakeOverInv, Zenon
  <2>3. CASE /\ open_ports' = Deleted(IF Taken(i) THEN {connections[i].key} ELSE {})
             /\ failed' = TRUE
             /\ UNCHANGED <<connections, asked>>
    BY <1>1, <2>1, <2>3, HashFullInv, Zenon
  <2> QED
    BY <2>1, <2>2, <2>3, Zenon
<1>4. CASE OutOfPorts(k)
  BY <1>1, <1>4, Zenon DEF OutOfPorts, PortsInv, TypeOK, OpenPortsMatch, AskedFresh, InterfaceForgotten,
                    NoLostConnection, Taken
<1> QED
  BY <1>2, <1>3, <1>4, Zenon DEF virtsvc_request_next

\* A reply only refreshes a slot.
LEMMA ReplyInv ==
    ASSUME PortsInv, NEW i \in Slots, NEW flag, virtsvc_reply_next(i, flag)
    PROVE  PortsInv'
<1> DEFINE c == Touched(connections[i], flag)
<1>1. c \in Conns /\ c.last_pkt_timestamp = now /\ c.key = connections[i].key
  BY TouchedConn, Zenon DEF PortsInv, TypeOK
<1>2. /\ Taken(i)
      /\ connections' = [connections EXCEPT ![i] = c]
      /\ UNCHANGED <<now, allocated, open_ports, last_assigned_port, asked, failed>>
  BY Zenon DEF virtsvc_reply_next
<1> HIDE DEF c
<1>3. \A j \in Slots : connections'[j] = IF j = i THEN c ELSE connections[j]
  BY <1>2, Zenon DEF PortsInv, TypeOK
<1>4. now \in Nat /\ now # 0
  BY Zenon DEF PortsInv, TypeOK
<1>5. \A j \in Slots : /\ Taken(j)' = Taken(j) /\ connections'[j].key = connections[j].key
                       /\ connections'[j].last_pkt_timestamp \in {now, connections[j].last_pkt_timestamp}
  BY <1>1, <1>2, <1>3, <1>4, Zenon DEF Taken
<1>6. TypeOK'
  BY <1>1, <1>2, Zenon DEF PortsInv, TypeOK
<1>7. OpenPortsMatch' /\ InterfaceForgotten' /\ NoLostConnection'
  BY <1>2, <1>5 DEF PortsInv, OpenPortsMatch, InterfaceForgotten, NoLostConnection, TypeOK
<1>8. AskedFresh'
  <2> SUFFICES ASSUME NEW l \in Keys, asked[l] # None
               PROVE  /\ asked[l].at <= now
                      /\ now <= asked[l].at + port_timeout =>
                           /\ connections'[asked[l].port].last_pkt_timestamp # 0
                           /\ connections'[asked[l].port].key = l
                           /\ connections'[asked[l].port].last_pkt_timestamp >= asked[l].at
    BY <1>2, Zenon DEF AskedFresh, Taken
  <2>1. asked[l].port \in Slots /\ asked[l].at \in Nat
    BY Zenon DEF PortsInv, TypeOK
  <2> QED
    BY <2>1, <1>4, <1>5, Zenon DEF PortsInv, AskedFresh, Taken
<1> QED
  BY <1>6, <1>7, <1>8, Zenon DEF PortsInv

\* Deleting an interface removes its connections from both tables.
LEMMA DeleteInv ==
    ASSUME PortsInv, NEW vf \in Vfs, dp_process_delete_interface(vf)
    PROVE  PortsInv'
<1> DEFINE K == {connections[i].key : i \in SlotsOf(vf)}
<1>1. \A j \in Slots : connections'[j] = IF j \in SlotsOf(vf)
                                         THEN [connections[j] EXCEPT !.last_pkt_timestamp = 0]
                                         ELSE connections[j]
  BY Zenon DEF dp_process_delete_interface, dp_virtsvc_del_iface
<1>2. /\ open_ports' \in [Keys -> Slots \cup {None}]
      /\ \A l \in Keys : open_ports'[l] = IF l \in K THEN None ELSE open_ports[l]
  BY DeletedType, Zenon DEF dp_process_delete_interface, dp_virtsvc_del_iface, PortsInv
<1>3. \A l \in Keys : asked'[l] = IF l.vf = vf THEN None ELSE asked[l]
  BY Zenon DEF dp_process_delete_interface
<1>4. /\ UNCHANGED <<now, last_assigned_port, failed>>
      /\ allocated' \subseteq allocated /\ allocated \ {vf} \subseteq allocated'
  BY Zenon DEF dp_process_delete_interface
<1>5. \A j \in Slots : /\ connections'[j].key = connections[j].key
                       /\ connections'[j].state = connections[j].state
                       /\ connections'[j].last_pkt_timestamp =
                             IF j \in SlotsOf(vf) THEN 0 ELSE connections[j].last_pkt_timestamp
                       /\ connections'[j] \in Conns
  <2> SUFFICES ASSUME NEW j \in Slots
               PROVE  LET d == connections'[j]
                          e == connections[j]
                      IN  /\ d.key = e.key /\ d.state = e.state /\ d \in Conns
                          /\ d.last_pkt_timestamp = IF j \in SlotsOf(vf) THEN 0 ELSE e.last_pkt_timestamp
    BY Zenon
  <2>1. connections[j] \in Conns
    BY Zenon DEF PortsInv, TypeOK
  <2>2. CASE j \in SlotsOf(vf)
    <3>1. connections'[j] = [connections[j] EXCEPT !.last_pkt_timestamp = 0]
      BY <2>2, <1>1, Zenon
    <3> QED
      BY <2>1, <2>2, <3>1, EmptiedConn, Zenon
  <2>3. CASE j \notin SlotsOf(vf)
    BY <2>1, <2>3, <1>1, Zenon
  <2> QED
    BY <2>2, <2>3, Zenon
<1>6. \A j \in Slots : Taken(j)' <=> Taken(j) /\ connections[j].key.vf # vf
  BY <1>5, Zenon DEF Taken, SlotsOf
<1>7. \A l \in Keys : l \in K => l.vf = vf
  BY Zenon DEF SlotsOf
<1>8. TypeOK'
  <2>1. connections' \in [Slots -> Conns]
    BY <1>5, Zenon DEF dp_process_delete_interface, dp_virtsvc_del_iface
  <2>2. asked' \in [Keys -> [port : Slots, at : Nat] \cup {None}]
    BY Zenon DEF dp_process_delete_interface, PortsInv, TypeOK
  <2> QED
    BY <2>1, <2>2, <1>2, <1>4, Zenon DEF PortsInv, TypeOK
<1>9. OpenPortsMatch'
  <2> SUFFICES ASSUME NEW l \in Keys, open_ports'[l] # None
               PROVE  Taken(open_ports[l])' /\ connections'[open_ports'[l]].key = l
    BY <1>2, Zenon DEF OpenPortsMatch, Taken
  <2>1. open_ports'[l] = open_ports[l] /\ l \notin K /\ open_ports[l] \in Slots
    BY <1>2, Zenon DEF PortsInv, TypeOK
  <2>2. Taken(open_ports[l]) /\ connections[open_ports[l]].key = l
    BY <2>1, Zenon DEF PortsInv, OpenPortsMatch
  <2>3. open_ports[l] \notin SlotsOf(vf)
    BY <2>1, <2>2, Zenon
  <2> QED
    BY <2>1, <2>2, <2>3, <1>5, Zenon DEF Taken
<1>10. AskedFresh'
  <2> SUFFICES ASSUME NEW l \in Keys, asked'[l] # None
               PROVE  /\ asked[l].at <= now
                      /\ now <= asked[l].at + port_timeout =>
                           /\ connections'[asked[l].port].last_pkt_timestamp # 0
                           /\ connections'[asked[l].port].key = l
                           /\ connections'[asked[l].port].last_pkt_timestamp >= asked[l].at
    BY <1>3, <1>4, Zenon DEF AskedFresh, Taken
  <2>1. asked'[l] = asked[l] /\ l.vf # vf /\ asked[l].port \in Slots /\ asked[l].at \in Nat
    BY <1>3, Zenon DEF PortsInv, TypeOK
  <2> QED
    BY <2>1, <1>5 DEF PortsInv, AskedFresh, Taken, SlotsOf
<1>11. InterfaceForgotten'
  BY <1>3, <1>4, <1>5, <1>6, Zenon DEF PortsInv, InterfaceForgotten
<1>12. NoLostConnection'
  <2> SUFFICES ASSUME ~failed, NEW j \in Slots, Taken(j)'
               PROVE  open_ports'[connections'[j].key] = j
    BY <1>4, Zenon DEF NoLostConnection
  <2>1. Taken(j) /\ connections[j].key.vf # vf /\ connections'[j].key = connections[j].key
    BY <1>5, <1>6, Zenon
  <2>2. connections[j].key \in Keys /\ open_ports[connections[j].key] = j
    BY <2>1, Zenon DEF PortsInv, NoLostConnection, InterfaceForgotten
  <2>3. connections[j].key \notin K
    BY <2>1, <2>2, <1>7, Zenon
  <2> QED
    BY <2>1, <2>2, <2>3, <1>2, Zenon
<1> QED
  BY <1>8, <1>9, <1>10, <1>11, <1>12, Zenon DEF PortsInv

\* Every step preserves the invariant.
LEMMA StepInv == PortsInv /\ [Next]_vars => PortsInv'
<1> SUFFICES ASSUME PortsInv, [Next]_vars PROVE PortsInv'
  BY Zenon
<1>1. ASSUME NEW k \in Keys, NEW flag \in TcpFlags, virtsvc_request_next(k, flag) PROVE PortsInv'
  BY <1>1, RequestInv, Zenon
<1>2. ASSUME NEW i \in Slots, NEW flag \in TcpFlags, virtsvc_reply_next(i, flag) PROVE PortsInv'
  BY <1>2, ReplyInv, Zenon
<1>3. ASSUME NEW vf \in Vfs, dp_start_port(vf) PROVE PortsInv'
  BY <1>3, Zenon DEF dp_start_port, PortsInv, TypeOK, OpenPortsMatch, AskedFresh, InterfaceForgotten,
              NoLostConnection, Taken
<1>4. ASSUME NEW vf \in Vfs, dp_process_delete_interface(vf) PROVE PortsInv'
  BY <1>4, DeleteInv, Zenon
<1>5. CASE Tick
  <2>1. TypeOK'
    BY <1>5 DEF Tick, PortsInv, TypeOK
  <2>2. AskedFresh'
    BY <1>5, ConstantsAssumption DEF Tick, PortsInv, TypeOK, AskedFresh, Taken
  <2> QED
    BY <1>5, <2>1, <2>2, Zenon DEF Tick, PortsInv, OpenPortsMatch, InterfaceForgotten, NoLostConnection, Taken
<1>6. CASE UNCHANGED vars
  BY <1>6, Zenon DEF vars, PortsInv, TypeOK, OpenPortsMatch, AskedFresh, InterfaceForgotten,
              NoLostConnection, Taken
<1> QED
  BY <1>1, <1>2, <1>3, <1>4, <1>5, <1>6, Zenon DEF Next

\* No connection exists at the start.
LEMMA InitInv == Init => PortsInv
<1> SUFFICES ASSUME Init PROVE PortsInv
  BY Zenon
<1>1. 0 \in Slots
  BY ConstantsAssumption DEF Slots
<1>2. [last_pkt_timestamp |-> 0, key |-> None, state |-> "TRANSIENT"] \in Conns
  BY Zenon DEF Conns, ConnStates
<1>3. connections \in [Slots -> Conns] /\ \A i \in Slots : ~Taken(i)
  BY <1>2, Zenon DEF Init, Taken
<1>4. TypeOK
  BY <1>1, <1>3, ConstantsAssumption, Zenon DEF Init, TypeOK, Conns
<1> QED
  BY <1>3, <1>4, Zenon DEF Init, PortsInv, OpenPortsMatch, AskedFresh, InterfaceForgotten, NoLostConnection

-----------------------------------------------------------------------------
\* Theorems.

\* For any number of ports and senders, and whatever fails: the hash and the array
\* of dp_virtsvc.c agree, so no two senders send from one port; a reply within the
\* timeout reaches its sender; a deleted interface is forgotten; and no slot is
\* lost unless an insertion has failed.
THEOREM PortOwnership ==
    Spec => [](TypeOK /\ OpenPortsMatch /\ ReplyReachesSender /\ InterfaceForgotten /\ NoLostConnection)
<1>1. Spec => []PortsInv
  BY InitInv, StepInv, PTL DEF Spec
<1>2. PortsInv => TypeOK /\ OpenPortsMatch /\ ReplyReachesSender /\ InterfaceForgotten /\ NoLostConnection
  BY Zenon DEF PortsInv, AskedFresh, ReplyReachesSender
<1> QED
  BY <1>1, <1>2, PTL

\* Whatever fails, slots, hash, ports and messages keep their shape: a slot number
\* is within the array and a port within its range (dp_virtsvc_get_free_port).
COROLLARY TablesTyped == Spec => []TypeOK
BY PortOwnership, PTL

\* The hash of a service leads each sender to a slot that names the sender
\* (open_ports and connections).
COROLLARY TablesAgree == Spec => []OpenPortsMatch
BY PortOwnership, PTL

\* No slot in use is one of an interface that was deleted, nor of its port's next
\* user before that one has sent a request (dp_virtsvc_del_iface).
COROLLARY DeletedForgotten == Spec => []InterfaceForgotten
BY PortOwnership, PTL

\* As long as no insertion into the hash has failed, each slot in use is found
\* through it (dp_virtsvc_create_connection).
COROLLARY ConnectionsFound == Spec => []NoLostConnection
BY PortOwnership, PTL

\* A step that is not a failure leaves every connection in use on its port.
LEMMA StepKeeps ==
    ASSUME PortsInv, Next, ~failed, NEW k \in Keys
    PROVE  Kept(k)
<1> DEFINE i == open_ports[k]
<1> SUFFICES ASSUME i # None, Recent(i), asked'[k] # None
             PROVE  open_ports'[k] = i
  BY Zenon DEF Kept
<1>1. i \in Slots /\ ~dp_virtsvc_is_connection_old(i)
  <2>1. i \in Slots
    BY Zenon DEF PortsInv, TypeOK
  <2> HIDE DEF i
  <2> QED
    BY <2>1, RecentMeans, Zenon DEF PortsInv
<1>2. ASSUME NEW l \in Keys, NEW flag \in TcpFlags, virtsvc_request_next(l, flag)
      PROVE  open_ports'[k] = i
  <2>1. CASE dp_virtsvc_create_connection(l, flag)
    <3>1. PICK p \in Slots :
            LET kept == Deleted(IF Taken(p) THEN {connections[p].key} ELSE {})
            IN  /\ open_ports[l] = None
                /\ dp_virtsvc_is_connection_old(p)
                /\ open_ports' = [kept EXCEPT ![l] = p] \/ open_ports' = kept
      BY <2>1, Zenon DEF dp_virtsvc_create_connection, dp_virtsvc_get_free_port
    <3>2. p # i /\ l # k
      BY <1>1, <3>1, Zenon
    <3>3. Taken(p) => connections[p].key # k
      BY <3>2, Zenon DEF PortsInv, NoLostConnection
    <3> QED
      BY <3>1, <3>2, <3>3, DeletedType DEF PortsInv
  <2> QED
    BY <1>2, <2>1, Zenon DEF virtsvc_request_next, KnownConnection, OutOfPorts
<1>3. ASSUME NEW vf \in Vfs, dp_process_delete_interface(vf) PROVE open_ports'[k] = i
  <2>1. k.vf # vf
    BY <1>3, Zenon DEF dp_process_delete_interface
  <2>2. k \notin {connections[j].key : j \in SlotsOf(vf)}
    BY <2>1, Zenon DEF SlotsOf
  <2> QED
    BY <1>3, <2>2, DeletedType, Zenon DEF dp_process_delete_interface, dp_virtsvc_del_iface, PortsInv
<1> QED
  BY <1>2, <1>3, Zenon DEF Next, virtsvc_reply_next, dp_start_port, Tick

\* For any timeouts: while no insertion has failed, no step of anyone takes the port
\* of a connection that has not timed out, unless its interface is deleted.
THEOREM PortNeverStolen == Spec => PortKept
<1>1. Spec => []PortsInv
  BY InitInv, StepInv, PTL DEF Spec
<1>2. PortsInv /\ [Next]_vars => [~failed => \A k \in Keys : Kept(k)]_vars
  BY StepKeeps, Zenon
<1> QED
  BY <1>1, <1>2, PTL DEF Spec, PortKept
=============================================================================
