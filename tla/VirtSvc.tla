------------------------------- MODULE VirtSvc -------------------------------
(***************************************************************************)
(* One virtual service of dpservice (dp_virtsvc.c, virtsvc_node.c): the    *)
(* form of NAT by which interfaces reach an outside service from a shared  *)
(* pool of source ports.                                                   *)
(*                                                                         *)
(* Two tables describe one thing: open_ports, the hash by the sender's     *)
(* address that requests use, and connections[], the array by port that    *)
(* replies use.  Nothing removes a connection when it times out; its port  *)
(* is taken over by the next connection that needs one.                    *)
(***************************************************************************)
EXTENDS Integers, FiniteSets

CONSTANTS
    Vfs,                        \* interface ports (vf_port_id)
    L4Ports,                    \* source addresses and ports used on them
    PortCount,                  \* DP_VIRTSVC_PORTCOUNT
    proto,                      \* "TCP" or "UDP"
    port_timeout,
    established_port_timeout,
    StartTime,                  \* timer cycles when the service starts
    MaxTime,                    \* bound on the timer
    Faults,                     \* what may fail: "hash", "stop"
    None

\* struct dp_virtsvc_conn_key
Keys == [vf : Vfs, l4 : L4Ports]
Slots == 0 .. PortCount - 1
ConnStates == {"TRANSIENT", "TRANSIENT_SYN", "TRANSIENT_SYNACK", "ESTABLISHED"}
\* struct dp_virtsvc_conn
Conns == [last_pkt_timestamp : Nat, key : Keys \cup {None}, state : ConnStates]
TcpFlags == IF proto = "TCP" THEN {"SYN", "SYNACK", "ACK", "FIN", "RST"} ELSE {None}

ASSUME ConstantsAssumption ==
    /\ PortCount \in Nat \ {0}
    /\ port_timeout \in Nat
    /\ established_port_timeout \in Nat
    /\ port_timeout <= established_port_timeout
    /\ StartTime \in Nat \ {0}
    /\ MaxTime \in Nat
    /\ None \notin Slots /\ None \notin Keys
    /\ None \notin [port : Slots, at : Nat]

VARIABLES
    now,                  \* rte_get_timer_cycles()
    allocated,            \* the interface ports that are started
    open_ports,           \* hash: key to port index
    connections,          \* array: port index to struct dp_virtsvc_conn
    last_assigned_port,
    asked,                \* history: the port and the time of a key's last request
    failed                \* history: an insertion into open_ports has failed

vars == <<now, allocated, open_ports, connections, last_assigned_port, asked, failed>>

Init ==
    /\ now = StartTime
    /\ allocated = {}
    /\ open_ports = [k \in Keys |-> None]
    /\ connections = [i \in Slots |-> [last_pkt_timestamp |-> 0, key |-> None, state |-> "TRANSIENT"]]
    /\ last_assigned_port = 0
    /\ asked = [k \in Keys |-> None]
    /\ failed = FALSE

\* The slot has, or had, a connection.
Taken(i) == connections[i].last_pkt_timestamp # 0

-----------------------------------------------------------------------------
\* Ports.

\* Mutants: off by one, and one timeout for all.
OldTooSoon(i) ==
    LET timeout == IF connections[i].state = "ESTABLISHED" THEN established_port_timeout ELSE port_timeout
    IN  now >= connections[i].last_pkt_timestamp + timeout

OldAnyState(i) == now > connections[i].last_pkt_timestamp + port_timeout

dp_virtsvc_is_connection_old(i) ==
    LET timeout == IF connections[i].state = "ESTABLISHED" THEN established_port_timeout ELSE port_timeout
    IN  now > connections[i].last_pkt_timestamp + timeout

\* The port found: the first old one after the last assigned, else from the start.
dp_virtsvc_get_free_port(i) ==
    LET old(j) == dp_virtsvc_is_connection_old(j)
    IN  /\ i \in Slots /\ old(i)
        /\ i > last_assigned_port =>
             \A j \in Slots : last_assigned_port < j /\ j < i => ~old(j)
        /\ i <= last_assigned_port =>
             \A j \in Slots : j > last_assigned_port \/ j < i => ~old(j)

\* open_ports without the entries of the keys in K.
Deleted(K) == [k \in Keys |-> IF k \in K THEN None ELSE open_ports[k]]

-----------------------------------------------------------------------------
\* The virtsvc node.

\* The code tests single bits, so a SYN-ACK also counts as a SYN and as an ACK.
virtsvc_tcp_state_change(state, flag) ==
    CASE flag \in {"RST", "FIN"} -> "TRANSIENT"
      [] state = "TRANSIENT" /\ flag \in {"SYN", "SYNACK"} -> "TRANSIENT_SYN"
      [] state = "TRANSIENT_SYN" /\ flag = "SYNACK" -> "TRANSIENT_SYNACK"
      [] state = "TRANSIENT_SYNACK" /\ flag \in {"ACK", "SYNACK"} -> "ESTABLISHED"
      [] OTHER -> state

\* A packet of the connection passes.
Touched(conn, flag) ==
    [conn EXCEPT !.last_pkt_timestamp = now,
                 !.state = IF proto = "TCP" THEN virtsvc_tcp_state_change(@, flag) ELSE @]

\* The request of k goes out from port i, whose slot was conn before.
Sent(k, i, conn, flag) ==
    /\ connections' = [connections EXCEPT ![i] = Touched(conn, flag)]
    /\ asked' = [asked EXCEPT ![k] = [port |-> i, at |-> now]]
    /\ UNCHANGED failed

KnownConnection(k, flag) ==
    /\ open_ports[k] # None
    /\ Sent(k, open_ports[k], connections[open_ports[k]], flag)
    /\ UNCHANGED <<open_ports, last_assigned_port>>

\* Mutant: the previous owner of the port keeps its entry.
CreateKeepsOld(k, flag) ==
    \E i \in Slots :
        /\ open_ports[k] = None
        /\ dp_virtsvc_get_free_port(i)
        /\ last_assigned_port' = i
        /\ open_ports' = [open_ports EXCEPT ![k] = i]
        /\ Sent(k, i, [connections[i] EXCEPT !.key = k, !.state = "TRANSIENT"], flag)

\* A port is found and taken from its previous owner; then the hash may be full,
\* which leaves the slot as it was.
dp_virtsvc_create_connection(k, flag) ==
    \E i \in Slots :
        LET kept == Deleted(IF Taken(i) THEN {connections[i].key} ELSE {})
        IN  /\ open_ports[k] = None
            /\ dp_virtsvc_get_free_port(i)
            /\ last_assigned_port' = i
            /\ \/ /\ open_ports' = [kept EXCEPT ![k] = i]
                  /\ Sent(k, i, [connections[i] EXCEPT !.key = k, !.state = "TRANSIENT"], flag)
               \/ /\ "hash" \in Faults
                  /\ open_ports' = kept
                  /\ failed' = TRUE
                  /\ UNCHANGED <<connections, asked>>

\* Mutant: the search leaves its position behind.
OutOfPortsMovesOn(k) ==
    /\ open_ports[k] = None
    /\ \A i \in Slots : ~dp_virtsvc_is_connection_old(i)
    /\ last_assigned_port' = last_assigned_port + 1
    /\ UNCHANGED <<open_ports, connections, asked, failed>>

OutOfPorts(k) ==
    /\ open_ports[k] = None
    /\ \A i \in Slots : ~dp_virtsvc_is_connection_old(i)
    /\ UNCHANGED <<open_ports, connections, last_assigned_port, asked, failed>>

virtsvc_request_next(k, flag) ==
    /\ k.vf \in allocated
    /\ \/ KnownConnection(k, flag)
       \/ dp_virtsvc_create_connection(k, flag)
       \/ OutOfPorts(k)
    /\ UNCHANGED <<now, allocated>>

\* Mutant: a slot that was given up still answers.
ReplyToDeleted(i, flag) ==
    /\ connections[i].key # None
    /\ connections' = [connections EXCEPT ![i] = Touched(@, flag)]
    /\ UNCHANGED <<now, allocated, open_ports, last_assigned_port, asked, failed>>

\* A packet of the service to port i, however late; dropped if the slot is empty.
virtsvc_reply_next(i, flag) ==
    /\ Taken(i)
    /\ connections' = [connections EXCEPT ![i] = Touched(@, flag)]
    /\ UNCHANGED <<now, allocated, open_ports, last_assigned_port, asked, failed>>

-----------------------------------------------------------------------------
\* Interfaces, between two graph walks.

dp_start_port(vf) ==
    /\ vf \notin allocated
    /\ allocated' = allocated \cup {vf}
    /\ UNCHANGED <<now, open_ports, connections, last_assigned_port, asked, failed>>

SlotsOf(vf) == {i \in Slots : Taken(i) /\ connections[i].key.vf = vf}

\* Mutant: only the hash is cleaned.
DelIfaceKeepsSlots(vf) ==
    /\ open_ports' = Deleted({connections[i].key : i \in SlotsOf(vf)})
    /\ UNCHANGED connections

dp_virtsvc_del_iface(vf) ==
    /\ connections' = [i \in Slots |-> IF i \in SlotsOf(vf)
                                       THEN [connections[i] EXCEPT !.last_pkt_timestamp = 0]
                                       ELSE connections[i]]
    /\ open_ports' = Deleted({connections[i].key : i \in SlotsOf(vf)})

\* The interface goes although its port may fail to stop.
dp_process_delete_interface(vf) ==
    /\ vf \in allocated
    /\ \/ allocated' = allocated \ {vf}
       \/ "stop" \in Faults /\ UNCHANGED allocated
    /\ dp_virtsvc_del_iface(vf)
    /\ asked' = [k \in Keys |-> IF k.vf = vf THEN None ELSE asked[k]]
    /\ UNCHANGED <<now, last_assigned_port, failed>>

Tick ==
    /\ now < MaxTime
    /\ now' = now + 1
    /\ UNCHANGED <<allocated, open_ports, connections, last_assigned_port, asked, failed>>

Next ==
    \/ \E k \in Keys, flag \in TcpFlags : virtsvc_request_next(k, flag)
    \/ \E i \in Slots, flag \in TcpFlags : virtsvc_reply_next(i, flag)
    \/ \E vf \in Vfs : dp_start_port(vf) \/ dp_process_delete_interface(vf)
    \/ Tick

Spec == Init /\ [][Next]_vars

-----------------------------------------------------------------------------
\* Properties.

\* Types of the two connection tables.
TypeOK ==
    /\ now \in Nat \ {0}
    /\ allocated \subseteq Vfs
    /\ open_ports \in [Keys -> Slots \cup {None}]
    /\ connections \in [Slots -> Conns]
    /\ last_assigned_port \in Slots
    /\ asked \in [Keys -> [port : Slots, at : Nat] \cup {None}]
    /\ failed \in BOOLEAN

\* The two tables agree: the port open_ports gives a sender is a slot that holds
\* exactly this sender, whatever timed out, failed or was deleted before.  So no
\* two senders ever send from the same port.
OpenPortsMatch ==
    \A k \in Keys : open_ports[k] # None =>
        Taken(open_ports[k]) /\ connections[open_ports[k]].key = k

\* A reply that comes within the timeout reaches the sender of the request, even
\* if the sender's entry was lost or other senders ran out of ports since.
ReplyReachesSender ==
    \A k \in Keys : asked[k] # None /\ now <= asked[k].at + port_timeout =>
        Taken(asked[k].port) /\ connections[asked[k].port].key = k

\* What makes it inductive: the slot was not touched before the request.
AskedFresh ==
    \A k \in Keys : asked[k] # None =>
        /\ asked[k].at <= now
        /\ now <= asked[k].at + port_timeout =>
             /\ Taken(asked[k].port) /\ connections[asked[k].port].key = k
             /\ connections[asked[k].port].last_pkt_timestamp >= asked[k].at

\* No reply is sent to a port that is not started, nor to the next user of an
\* interface port before that user has sent a request of its own.
InterfaceForgotten ==
    \A i \in Slots : Taken(i) => /\ connections[i].key.vf \in allocated
                                 /\ connections[i].key \in {k \in Keys : asked[k] # None}

\* As long as no insertion has failed, no slot is lost: each connection that has a
\* slot is found by the next request of its sender.
NoLostConnection ==
    ~failed => \A i \in Slots : Taken(i) => open_ports[connections[i].key] = i

\* The slot has had a packet within the timeout of its state.
Recent(i) ==
    LET idle == now - connections[i].last_pkt_timestamp
    IN  \/ idle <= port_timeout
        \/ connections[i].state = "ESTABLISHED" /\ idle <= established_port_timeout

\* A connection in use, by its own timeout, keeps its port until its interface goes.
Kept(k) ==
    LET i == open_ports[k]
    IN  i # None /\ Recent(i) /\ asked'[k] # None => open_ports'[k] = i

\* As long as no insertion has failed, a connection keeps its port until it times out.
PortKept == [][~failed => \A k \in Keys : Kept(k)]_vars
=============================================================================
