------------------------------ MODULE FlowTable ------------------------------
(***************************************************************************)
(* The connection-tracking flow table of dpservice (dp_flow.c,             *)
(* dp_cntrack.c) with everything that reads or writes it: the conntrack,   *)
(* dnat, snat and tx graph nodes, flow aging in software and in the NIC,   *)
(* and the control requests that remove flows.                             *)
(*                                                                         *)
(* One worker thread owns the table.  A graph walk takes a burst of        *)
(* packets through the nodes, so packets of one burst interleave node by   *)
(* node; aging and control requests run in the rx_periodic source node,    *)
(* when no packet holds a df->conntrack pointer.                           *)
(***************************************************************************)
EXTENDS Integers, FiniteSets

CONSTANTS
    VMs,        \* (address, port) endpoints of local interfaces
    Exts,       \* endpoints outside of this host
    Nats,       \* (NAT address, port) endpoints of the local port range
    NeighNats,  \* (NAT address, port) endpoints of a neighbour's port range
    Vips,       \* virtual-IP endpoints
    SnatOf,     \* what an interface is translated to: a VIP, "nat" or "none"
    PFs,        \* physical ports
    Protos,     \* subset of {"TCP", "UDP"}
    Flows,      \* memory for struct flow_value
    Ctxs,       \* memory for struct flow_age_ctx
    Pkts,       \* packet buffers of a burst
    Requests,   \* removal requests the control plane may send
    Captured,   \* the physical port whose traffic is being captured, if any
    Faults,     \* what may fail at any time: "memory", "hash", "nic"
    AgeCtxCapacity,        \* DP_FLOW_VAL_AGE_CTX_CAPACITY
    offload_mode_enabled,
    None

Endpoints == VMs \cup Exts \cup Nats \cup NeighNats \cup Vips
Ports == VMs \cup PFs
Dirs == {"ORG", "REPLY"}
OffloadStates == {"NON_OFFLOAD", "INSTALL", "OFFLOADED"}
TcpStates == {"NONE", "NEW_SYN", "NEW_SYNACK", "ESTABLISHED", "FINWAIT", "RST_FIN"}
TcpFlags == {"SYN", "SYNACK", "ACK", "FIN", "RST"}
NatTypes == {"NONE", "VIP", "NETWORK_LOCAL", "NETWORK_NEIGH"}
NfFlags == {"SRC_NAT", "DST_NAT"}

\* struct flow_key: the five-tuple, and whether the flow is kept apart as NAT.
Keys == [src : Endpoints, dst : Endpoints, proto : Protos, vnf : {"NAT", "UNDEFINED"}]

dp_invert_flow_key(key) == [key EXCEPT !.src = key.dst, !.dst = key.src]

\* What can arrive, with the key dp_build_flow_key makes of it.
VfArrivals ==
    {[port |-> v,
      key  |-> [src |-> v, dst |-> d, proto |-> pr,
                vnf |-> IF SnatOf[v] = "nat" THEN "NAT" ELSE "UNDEFINED"]] :
        v \in VMs, d \in Exts \cup VMs, pr \in Protos}

PfArrivals ==
    {[port |-> pf,
      key  |-> [src |-> e, dst |-> d, proto |-> pr,
                vnf |-> IF d \in Nats \cup NeighNats THEN "NAT" ELSE "UNDEFINED"]] :
        pf \in PFs, e \in Exts, d \in VMs \cup Nats \cup NeighNats \cup Vips, pr \in Protos}

dp_build_flow_key == {a \in VfArrivals \cup PfArrivals : a.key.src # a.key.dst}

\* struct flow_value; "idle" says that timestamp is more than timeout_value ago,
\* "pf" holds the ports of incoming_flow_offloaded_flag.
FlowValues ==
    [key : [Dirs -> Keys], ref : Int, aged : BOOLEAN, idle : BOOLEAN, port : Ports,
     flags : SUBSET (NfFlags \cup {"DEFAULT"}), nat : NatTypes,
     off : [Dirs -> OffloadStates], pf : SUBSET PFs, tcp : TcpStates]

\* struct flow_age_ctx, and the direction and ingress port its rule matches;
\* "stored": it has an entry in rte_age_ctxs[].
AgeCtxs == [flow : Flows, dir : Dirs, port : Ports, stored : BOOLEAN]

\* A packet behind the conntrack node: the next node that touches the flow,
\* and what struct dp_flow carries.
Packets == [at : {"dnat", "snat", "tx"}, key : Keys, port : Ports, flow : Flows,
            dir : Dirs, off : OffloadStates]

\* A portoverload key: the NAT endpoint is taken towards this destination.
PortKeys == [nat : Endpoints, dst : Endpoints, proto : Protos]

ASSUME ConstantsAssumption ==
    /\ offload_mode_enabled \in BOOLEAN
    /\ AgeCtxCapacity \in Nat
    /\ Protos \subseteq {"TCP", "UDP"}
    /\ SnatOf \in [VMs -> Vips \cup {"nat", "none"}]
    /\ None \notin Flows /\ None \notin Keys /\ None \notin FlowValues
    /\ None \notin AgeCtxs /\ None \notin Packets
    /\ Captured \subseteq PFs

ASSUME FiniteMemory == IsFiniteSet(Ctxs) /\ IsFiniteSet(Flows)

\* The sets stand for different kinds of endpoints.
ASSUME EndpointKinds ==
    /\ VMs \cap (Exts \cup Nats \cup NeighNats \cup PFs) = {}
    /\ Exts \cap NeighNats = {}
    /\ Vips \cap (VMs \cup Exts \cup Nats \cup NeighNats \cup {"nat", "none"}) = {}

VARIABLES
    heap,       \* flow_value memory: what is allocated, or None
    table,      \* ipv4_flow_tbl
    cache,      \* prev_key and cached_flow_val
    ctx,        \* flow_age_ctx memory, one per hardware rule
    burst,      \* the packets of this walk that are still to reach conntrack
    pkts,       \* packets between the conntrack and the tx node
    ports,      \* ipv4_netnat_portoverload_tbl
    scan,       \* the iteration over the table in progress, if any
    misuse      \* undefined behaviour that has happened

vars == <<heap, table, cache, ctx, burst, pkts, ports, scan, misuse>>

NoCache == [key |-> None, flow |-> None]
NoScan == [req |-> None, todo |-> {}]

Init ==
    /\ heap = [f \in Flows |-> None]
    /\ table = [k \in Keys |-> None]
    /\ cache = NoCache
    /\ ctx = [c \in Ctxs |-> None]
    /\ burst = Pkts
    /\ pkts = [p \in Pkts |-> None]
    /\ ports = {}
    /\ scan = NoScan
    /\ misuse = {}

Live(f) == heap[f] # None
CtxsOf(f) == {c \in Ctxs : ctx[c] # None /\ ctx[c].flow = f}
Stored(f) == {c \in CtxsOf(f) : ctx[c].stored}

\* After a freed flow was touched nothing more is claimed of the program.
Running == scan = NoScan /\ "flow_uaf" \notin misuse
\* Mutant: work between walks that does not wait for the walk to end.
WalkDoneNot == Running

WalkDone == Running /\ \A p \in Pkts : pkts[p] = None

-----------------------------------------------------------------------------
\* Reference counting and release.

\* The table without the entries for the keys in K.
Without(tbl, K) == [k \in Keys |-> IF k \in K THEN None ELSE tbl[k]]

\* The overload entry a NETWORK_LOCAL flow holds, found from its reply key.
HeldPorts(fl) ==
    IF fl.nat = "NETWORK_LOCAL"
    THEN {[nat |-> fl.key["REPLY"].dst, dst |-> fl.key["REPLY"].src, proto |-> fl.key["ORG"].proto]}
    ELSE {}

\* Mutants: the entry of the other direction, the cache or the port is forgotten.
FreeKeepsReply(f) ==
    /\ heap' = [heap EXCEPT ![f] = None]
    /\ table' = Without(table, {heap[f].key["ORG"]})
    /\ cache' = NoCache
    /\ ports' = ports \ HeldPorts(heap[f])

FreeKeepsCache(f) ==
    /\ heap' = [heap EXCEPT ![f] = None]
    /\ table' = Without(table, {heap[f].key["ORG"], heap[f].key["REPLY"]})
    /\ ports' = ports \ HeldPorts(heap[f])
    /\ UNCHANGED cache

FreeKeepsPort(f) ==
    /\ heap' = [heap EXCEPT ![f] = None]
    /\ table' = Without(table, {heap[f].key["ORG"], heap[f].key["REPLY"]})
    /\ cache' = NoCache
    /\ UNCHANGED ports

dp_free_flow(f) ==
    /\ heap' = [heap EXCEPT ![f] = None]
    /\ table' = Without(table, {heap[f].key["ORG"], heap[f].key["REPLY"]})
    /\ cache' = NoCache
    /\ ports' = ports \ HeldPorts(heap[f])

\* Flow f, whose fields become fl, loses n references.
dp_ref_dec(f, fl, n) ==
    IF fl.ref = n
    THEN dp_free_flow(f)
    ELSE /\ heap' = [heap EXCEPT ![f] = [fl EXCEPT !.ref = @ - n]]
         /\ UNCHANGED <<table, cache, ports>>

FlowUseAfterFree == misuse' = misuse \cup {"flow_uaf"}

-----------------------------------------------------------------------------
\* Connection tracking of one packet (dp_cntrack.c).

\* The code tests single bits, so a SYN-ACK also counts as a SYN and as an ACK.
dp_cntrack_tcp_state(state, flag) ==
    CASE flag = "RST" -> "RST_FIN"
      [] flag = "FIN" -> IF state = "ESTABLISHED" THEN "FINWAIT" ELSE "RST_FIN"
      [] flag \in {"SYN", "SYNACK"} /\ state \in {"NONE", "RST_FIN"} -> "NEW_SYN"
      [] flag = "SYNACK" /\ state = "NEW_SYN" -> "NEW_SYNACK"
      [] flag \in {"ACK", "SYNACK"} /\ state = "NEW_SYNACK" -> "ESTABLISHED"
      [] OTHER -> state

dp_cntrack_change_flow_offload_flags(fl, dir, port) ==
    LET other_pf == port \in PFs /\ port \notin fl.pf
        next == IF fl.off[dir] = "NON_OFFLOAD" \/ other_pf THEN "INSTALL" ELSE "OFFLOADED"
    IN  IF offload_mode_enabled THEN [fl EXCEPT !.off[dir] = next] ELSE fl

dp_set_flow_offload_flag(fl, dir, port) ==
    IF fl.nat = "NETWORK_NEIGH" \/ fl.key["ORG"].proto # "TCP"
    THEN dp_cntrack_change_flow_offload_flags(fl, dir, port)
    ELSE fl

dp_cntrack_set_timeout_tcp_flow(fl, dir, port) ==
    IF fl.tcp \in {"ESTABLISHED", "FINWAIT", "RST_FIN"}
    THEN dp_cntrack_change_flow_offload_flags(fl, dir, port)
    ELSE fl

dp_set_pkt_flow_direction(key, fl) == IF key = fl.key["ORG"] THEN "ORG" ELSE "REPLY"

\* Mutant: created_port_id is not set.
NewFlowNoPort(a) ==
    [key   |-> [d \in Dirs |-> IF d = "ORG" THEN a.key ELSE dp_invert_flow_key(a.key)],
     ref   |-> 1, aged |-> FALSE, idle |-> FALSE, port |-> None,
     flags |-> {}, nat |-> "NONE", off |-> [d \in Dirs |-> "NON_OFFLOAD"],
     pf    |-> {}, tcp |-> "NONE"]

\* A new flow, before its first packet is accounted for.
NewFlow(a) ==
    [key   |-> [d \in Dirs |-> IF d = "ORG" THEN a.key ELSE dp_invert_flow_key(a.key)],
     ref   |-> 1, aged |-> FALSE, idle |-> FALSE, port |-> a.port,
     flags |-> {}, nat |-> "NONE",
     off   |-> [d \in Dirs |-> IF d = "ORG" /\ offload_mode_enabled /\ a.key.proto # "TCP"
                               THEN "INSTALL" ELSE "NON_OFFLOAD"],
     pf    |-> {}, tcp |-> "NONE"]

\* The flow after a packet: timestamp, TCP state and timeout.
Touched(fl, a, dir, flag) ==
    LET fresh == [fl EXCEPT !.idle = FALSE]
    IN  IF a.key.proto = "TCP"
        THEN dp_cntrack_set_timeout_tcp_flow(
                 [fresh EXCEPT !.tcp = dp_cntrack_tcp_state(fl.tcp, flag)], dir, a.port)
        ELSE fresh

\* The tail of dp_cntrack_handle: df->conntrack is set and the packet moves on.
Forward(p, a, f, fl, dir) ==
    /\ heap' = [heap EXCEPT ![f] = fl]
    /\ pkts' = [pkts EXCEPT ![p] = [at |-> "dnat", key |-> a.key, port |-> a.port,
                                    flow |-> f, dir |-> dir, off |-> fl.off[dir]]]
    /\ cache' = [key |-> a.key, flow |-> f]
    /\ UNCHANGED <<ctx, ports, scan, misuse>>

\* The flow dp_get_flow_val finds: the cached one, or the one in the table.
LookedUp(key) == IF cache.key = key THEN cache.flow ELSE table[key]

KnownFlow(p, a, flag) ==
    LET f   == LookedUp(a.key)
        dir == dp_set_pkt_flow_direction(a.key, heap[f])
        fl  == dp_set_flow_offload_flag(heap[f], dir, a.port)
    IN  /\ f # None
        /\ Forward(p, a, f, Touched(fl, a, dir, flag), dir)
        /\ UNCHANGED table

flow_table_insert_entry(p, a, flag) ==
    \E f \in Flows :
        /\ LookedUp(a.key) = None
        /\ ~Live(f)
        /\ table' = [table EXCEPT ![a.key] = f, ![dp_invert_flow_key(a.key)] = f]
        /\ Forward(p, a, f, Touched(NewFlow(a), a, "ORG", flag), "ORG")

\* Mutant: the flow is not freed when its entries cannot be added.
InsertLeaks(a) ==
    /\ LookedUp(a.key) = None
    /\ \E f \in Flows : ~Live(f) /\ heap' = [heap EXCEPT ![f] = NewFlow(a)]
    /\ cache' = NoCache
    /\ UNCHANGED <<table, ctx, pkts, ports, scan, misuse>>

\* Memory or the hash is full.  Only undoing the first of the two dp_add_flow
\* calls leaves a trace: dp_delete_flow flushes the cache.
InsertFails(a) ==
    /\ LookedUp(a.key) = None
    /\ \/ ("memory" \in Faults \/ \A f \in Flows : Live(f)) /\ UNCHANGED cache
       \/ "hash" \in Faults /\ cache' \in {cache, NoCache}
    /\ UNCHANGED <<heap, table, ctx, pkts, ports, scan, misuse>>

dp_cntrack_handle(p) ==
    /\ Running
    /\ p \in burst
    /\ burst' = burst \ {p}
    /\ \E a \in dp_build_flow_key : \E flag \in (IF a.key.proto = "TCP" THEN TcpFlags ELSE {None}) :
        \/ KnownFlow(p, a, flag)
        \/ flow_table_insert_entry(p, a, flag)
        \/ InsertFails(a)

-----------------------------------------------------------------------------
\* The nodes behind conntrack.  A packet that is dropped or sent frees its slot.

\* Mutant: the entry of the other direction is deleted.
ReplaceDeletesOrg(p, f, fl, node) ==
    /\ heap' = [heap EXCEPT ![f] = fl]
    /\ cache' = NoCache
    /\ table' = [Without(table, {fl.key["ORG"]}) EXCEPT ![fl.key["REPLY"]] = f]
    /\ pkts' = [pkts EXCEPT ![p].at = node]

\* dp_delete_flow on the reply key of f, then dp_add_flow of the rewritten key,
\* which may fail: the packet is dropped, but the flow keeps its new fields.
ReplaceReplyKey(p, f, fl, node) ==
    LET deleted == Without(table, {heap[f].key["REPLY"]})
    IN  /\ heap' = [heap EXCEPT ![f] = fl]
        /\ cache' = NoCache
        /\ \/ /\ table' = [deleted EXCEPT ![fl.key["REPLY"]] = f]
              /\ pkts' = [pkts EXCEPT ![p].at = node]
           \/ /\ "hash" \in Faults
              /\ table' = deleted
              /\ pkts' = [pkts EXCEPT ![p] = None]

MoveTo(p, node) ==
    /\ pkts' = [pkts EXCEPT ![p].at = node]
    /\ UNCHANGED <<heap, table, cache, ports>>

Drop(p) ==
    /\ pkts' = [pkts EXCEPT ![p] = None]
    /\ UNCHANGED <<heap, table, cache, ports>>

\* Mutant: without the check of the flow's marks.
FirstPacketMarked(pk) == pk.dir = "ORG"

\* A packet of the original direction, and no node has marked the flow yet.
FirstPacket(pk) == heap[pk.flow].flags = {} /\ pk.dir = "ORG"

dnat_node(p) ==
    LET pk    == pkts[p]
        f     == pk.flow
        first == FirstPacket(pk)
    IN  /\ Running
        /\ pk # None
        /\ pk.at = "dnat"
        /\ \/ /\ first /\ pk.key.dst \in NeighNats   \* relayed: no reverse traffic
              /\ heap' = [heap EXCEPT ![f].nat = "NETWORK_NEIGH"]
              /\ table' = Without(table, {heap[f].key["REPLY"]})
              /\ cache' = NoCache
              /\ pkts' = [pkts EXCEPT ![p].at = "tx"]
              /\ UNCHANGED ports
           \/ first /\ pk.key.dst \in Nats /\ Drop(p)   \* premature NAT packet
           \/ \E v \in VMs :
                /\ first /\ pk.key.dst \in Vips /\ SnatOf[v] = pk.key.dst
                /\ ReplaceReplyKey(p, f, [heap[f] EXCEPT !.flags = @ \cup {"DST_NAT"},
                                                         !.key["REPLY"].src = v], "snat")
                /\ UNCHANGED ports
           \/ /\ ~(first /\ pk.key.dst \in NeighNats \cup Nats \cup Vips)
              /\ MoveTo(p, IF heap[f].nat = "NETWORK_NEIGH" THEN "tx" ELSE "snat")
        /\ UNCHANGED <<ctx, burst, scan, misuse>>

\* No route or over the rate limit: dropped before snat, the flow still unmarked.
\* Traffic from a physical port to an interface address takes no route lookup.
ipv4_lookup_node(p) ==
    /\ Running
    /\ pkts[p] # None
    /\ pkts[p].at = "snat"
    /\ pkts[p].port \in VMs \/ pkts[p].key.dst \notin VMs
    /\ Drop(p)
    /\ UNCHANGED <<ctx, burst, scan, misuse>>

snat_node(p) ==
    LET pk   == pkts[p]
        f    == pk.flow
        \* to the outside, from an interface with a VIP or a NAT
        snat == /\ FirstPacket(pk)
                /\ pk.port \in VMs
                /\ pk.key.dst \in Exts
                /\ SnatOf[pk.key.src] # "none"
        port(n) == [nat |-> n, dst |-> pk.key.dst, proto |-> pk.key.proto]
    IN  /\ Running
        /\ pk # None
        /\ pk.at = "snat"
        /\ \/ ~snat /\ MoveTo(p, "tx")
           \/ \E n \in Nats :
                /\ snat /\ SnatOf[pk.key.src] = "nat" /\ port(n) \notin ports
                /\ ports' = ports \cup {port(n)}
                /\ ReplaceReplyKey(p, f, [heap[f] EXCEPT !.flags = @ \cup {"SRC_NAT"},
                                                         !.nat = "NETWORK_LOCAL",
                                                         !.key["REPLY"].dst = n], "tx")
           \/ /\ snat /\ SnatOf[pk.key.src] = "nat"   \* no port to be had
              /\ "hash" \in Faults \/ \A n \in Nats : port(n) \in ports
              /\ Drop(p)
           \/ /\ snat /\ SnatOf[pk.key.src] \in Vips
              /\ ReplaceReplyKey(p, f, [heap[f] EXCEPT !.flags = @ \cup {"SRC_NAT"},
                                                       !.nat = "VIP",
                                                       !.key["REPLY"].dst = SnatOf[pk.key.src]], "tx")
              /\ UNCHANGED ports
        /\ UNCHANGED <<ctx, burst, scan, misuse>>

-----------------------------------------------------------------------------
\* Offloading to the NIC (dp_rte_flow_traffic_forward.c), done by the tx node.

IsRelay(fl) == fl.nat = "NETWORK_NEIGH"

\* Rules per offload: encap needs a hairpin rule on top for the other PF, decap
\* a capturing one while the PF is captured.
RuleCounts(pk) ==
    CASE pk.port \in PFs -> IF pk.port \in Captured /\ ~IsRelay(heap[pk.flow]) THEN {2} ELSE {1}
      [] pk.port \in VMs -> IF pk.key.dst \in VMs THEN {1} ELSE {1, 2}

\* Rules of TCP flows age by an indirect action and are stored in the flow.
NeedsHandle(pk) == pk.key.proto = "TCP" /\ ~IsRelay(heap[pk.flow])

\* The fields tx_node_process and the decap handler leave in the flow.  The mark
\* of the firewall node, set on the way, is not told apart from the default one.
Sent(pk) ==
    LET fl == heap[pk.flow]
    IN  [fl EXCEPT !.flags = IF @ \cap NfFlags = {} THEN @ \cup {"DEFAULT"} ELSE @,
                   !.pf = IF pk.off = "INSTALL" /\ pk.port \in PFs /\ ~IsRelay(fl)
                          THEN @ \cup {pk.port} ELSE @]

\* Mutants: rte_age_ctxs[] takes one entry too many, or a rule no reference.
OffloadOverfills(pk) ==
    \E C \in SUBSET {c \in Ctxs : ctx[c] = None} :
        /\ Cardinality(C) \in RuleCounts(pk)
        /\ NeedsHandle(pk) => Cardinality(Stored(pk.flow)) + Cardinality(C) <= AgeCtxCapacity + 1
        /\ ctx' = [c \in Ctxs |-> IF c \in C
                                  THEN [flow |-> pk.flow, dir |-> pk.dir, port |-> pk.port,
                                        stored |-> NeedsHandle(pk)]
                                  ELSE ctx[c]]
        /\ heap' = [heap EXCEPT ![pk.flow] = [Sent(pk) EXCEPT !.ref = @ + Cardinality(C)]]
        /\ UNCHANGED misuse

OffloadNoReference(pk) ==
    \E c \in {x \in Ctxs : ctx[x] = None} :
        /\ ctx' = [ctx EXCEPT ![c] = [flow |-> pk.flow, dir |-> pk.dir, port |-> pk.port,
                                      stored |-> NeedsHandle(pk)]]
        /\ heap' = [heap EXCEPT ![pk.flow] = Sent(pk)]
        /\ UNCHANGED misuse

dp_offload_handler(pk) ==
    \/ \E C \in SUBSET {c \in Ctxs : ctx[c] = None} :
        /\ Cardinality(C) \in RuleCounts(pk)
        /\ NeedsHandle(pk) => Cardinality(Stored(pk.flow)) + Cardinality(C) <= AgeCtxCapacity
        /\ ctx' = [c \in Ctxs |-> IF c \in C
                                  THEN [flow |-> pk.flow, dir |-> pk.dir, port |-> pk.port,
                                        stored |-> NeedsHandle(pk)]
                                  ELSE ctx[c]]
        /\ heap' = [heap EXCEPT ![pk.flow] = [Sent(pk) EXCEPT !.ref = @ + Cardinality(C)]]
        /\ UNCHANGED misuse
    \/ /\ \/ Faults \cap {"memory", "nic"} # {}   \* failed and rolled back
          \/ \E n \in RuleCounts(pk) :
                \/ Cardinality({c \in Ctxs : ctx[c] = None}) < n
                \/ NeedsHandle(pk) /\ Cardinality(Stored(pk.flow)) + n > AgeCtxCapacity
       /\ heap' = [heap EXCEPT ![pk.flow] = Sent(pk)]
       /\ UNCHANGED <<ctx, misuse>>
    \/ /\ "nic" \in Faults /\ NeedsHandle(pk)   \* the rule failed after its handle was created
       /\ Cardinality(Stored(pk.flow)) < AgeCtxCapacity
       /\ heap' = [heap EXCEPT ![pk.flow] = Sent(pk)]
       /\ misuse' = misuse \cup {"handle_double_destroy"}
       /\ UNCHANGED ctx

tx_node_process(p) ==
    LET pk == pkts[p]
    IN  /\ Running
        /\ pk # None
        /\ pk.at = "tx"
        /\ pkts' = [pkts EXCEPT ![p] = None]
        /\ \/ pk.off = "INSTALL" /\ dp_offload_handler(pk)
           \/ /\ pk.off # "INSTALL"
              /\ heap' = [heap EXCEPT ![pk.flow] = Sent(pk)]
              /\ UNCHANGED <<ctx, misuse>>
        /\ UNCHANGED <<table, cache, burst, ports, scan>>

-----------------------------------------------------------------------------
\* Aging and removal, in rx_periodic between two walks.

\* The next walk: the rx nodes deliver another burst.
graph_main_loop ==
    /\ WalkDone
    /\ burst # Pkts
    /\ burst' = Pkts
    /\ UNCHANGED <<heap, table, cache, ctx, pkts, ports, scan, misuse>>

\* No packet for longer than the timeout (or the NIC handles them all).
TimeOut(f) ==
    /\ WalkDone
    /\ Live(f)
    /\ ~heap[f].idle
    /\ heap' = [heap EXCEPT ![f].idle = TRUE]
    /\ UNCHANGED <<table, cache, ctx, burst, pkts, ports, scan, misuse>>

\* One iteration of dp_process_aged_flows: the NIC reports that a rule has aged.
dp_destroy_rte_flow_agectx(c) ==
    LET f == ctx[c].flow
    IN  /\ WalkDone
        /\ ctx[c] # None
        /\ ctx' = [ctx EXCEPT ![c] = None]
        /\ IF Live(f)
           THEN dp_ref_dec(f, heap[f], 1) /\ UNCHANGED misuse
           ELSE FlowUseAfterFree /\ UNCHANGED <<heap, table, cache, ports>>
        /\ UNCHANGED <<burst, pkts, scan>>

StartScan(req) ==
    /\ WalkDone
    /\ scan' = [req |-> req, todo |-> {k \in Keys : table[k] # None}]
    /\ UNCHANGED <<heap, table, cache, ctx, burst, pkts, ports, misuse>>

\* The iteration reaches the flow f of an entry: the rules C are destroyed one
\* by one, then the flow is aged out if "out" holds.  When the rules held the
\* last references the code goes on with a freed flow.
VisitFlow(f, C, out) ==
    /\ ctx' = [c \in Ctxs |-> IF c \in C THEN None ELSE ctx[c]]
    /\ \/ /\ heap[f].ref = Cardinality(C)
          /\ dp_free_flow(f)
          /\ FlowUseAfterFree
       \/ /\ heap[f].ref # Cardinality(C)
          /\ dp_ref_dec(f, [heap[f] EXCEPT !.aged = @ \/ out],
                        Cardinality(C) + (IF out THEN 1 ELSE 0))
          /\ UNCHANGED misuse

\* Mutants: a flow is aged out once per entry; a relayed flow never.
AgeEntryTwice(k) ==
    LET f == table[k]
    IN  VisitFlow(f, {}, heap[f].idle)

AgeEntryNotRelayed(k) ==
    LET f == table[k]
    IN  VisitFlow(f, {}, heap[f].idle /\ heap[f].nat # "NETWORK_NEIGH")

\* dp_process_aged_flows_non_offload: of a TCP flow the rules that have not been
\* hit for the timeout go (fewer if a query fails); any flow may time out itself.
AgeEntry(k) ==
    LET f == table[k]
    IN  \E C \in SUBSET (IF offload_mode_enabled /\ k.proto = "TCP" THEN Stored(f) ELSE {}) :
            VisitFlow(f, C, heap[f].idle /\ ~heap[f].aged)

\* Mutant: the flow goes and its rules stay.
RemoveKeepsRules(k) ==
    LET f == table[k]
    IN  VisitFlow(f, {}, TRUE)

\* dp_remove_flow
RemoveEntry(k) ==
    LET f == table[k]
    IN  VisitFlow(f, IF offload_mode_enabled THEN Stored(f) ELSE {}, TRUE)

\* Whether a removal request is about an entry: the conditions of
\* dp_remove_nat_flows, dp_remove_neighnat_flows and dp_remove_iface_flows.
Matches(req, k, fl) ==
    \/ req.kind = "nat" /\ fl.port = req.port /\ fl.nat = req.type
    \/ req.kind = "neigh" /\ k.dst = req.nat
    \/ req.kind = "iface" /\ (fl.port = req.port \/ fl.key["ORG"].dst = req.port)

AgeRequest == [kind |-> "age"]

VisitEntry(k) ==
    LET match == scan.req # AgeRequest /\ Matches(scan.req, k, heap[table[k]])
    IN  /\ "flow_uaf" \notin misuse
        /\ k \in scan.todo
        /\ \/ scan.req = AgeRequest /\ AgeEntry(k)
           \/ match /\ RemoveEntry(k)
           \/ scan.req # AgeRequest /\ ~match /\ UNCHANGED <<heap, table, cache, ctx, ports, misuse>>
        /\ scan' = [scan EXCEPT !.todo = {x \in @ \ {k} : table'[x] # None}]
        /\ UNCHANGED <<burst, pkts>>

FinishScan ==
    /\ scan # NoScan
    /\ scan.todo = {}
    /\ scan' = NoScan
    /\ UNCHANGED <<heap, table, cache, ctx, burst, pkts, ports, misuse>>

-----------------------------------------------------------------------------
Next ==
    \/ \E p \in Pkts : \/ dp_cntrack_handle(p) \/ dnat_node(p) \/ ipv4_lookup_node(p)
                      \/ snat_node(p) \/ tx_node_process(p)
    \/ \E f \in Flows : TimeOut(f)
    \/ \E c \in Ctxs : dp_destroy_rte_flow_agectx(c)
    \/ \E req \in Requests \cup {AgeRequest} : StartScan(req)
    \/ \E k \in Keys : VisitEntry(k)
    \/ FinishScan
    \/ graph_main_loop

Spec == Init /\ [][Next]_vars

\* A burst is finite and every node with packets pending runs, so a packet moves
\* on; an iteration goes on to its end; rx_periodic is a source node, visited in
\* every walk, and the aging event stays in its ring until it is read there.
Fairness ==
    /\ \A p \in Pkts : WF_vars(dnat_node(p) \/ snat_node(p) \/ tx_node_process(p))
    /\ WF_vars(FinishScan \/ \E k \in Keys : VisitEntry(k))
    /\ SF_vars(StartScan(AgeRequest))

FairSpec == Spec /\ Fairness

-----------------------------------------------------------------------------
\* Properties.

\* Types of the flow table, its cache, the hardware rules and the packets.
TypeOK ==
    /\ heap \in [Flows -> FlowValues \cup {None}]
    /\ table \in [Keys -> Flows \cup {None}]
    /\ cache \in [key : Keys \cup {None}, flow : Flows \cup {None}]
    /\ ctx \in [Ctxs -> AgeCtxs \cup {None}]
    /\ burst \subseteq Pkts
    /\ pkts \in [Pkts -> Packets \cup {None}]
    /\ ports \subseteq PortKeys
    /\ scan \in [req : Requests \cup {AgeRequest, None}, todo : SUBSET Keys]
    /\ misuse \subseteq {"flow_uaf", "handle_double_destroy"}

KeysOf(fl) == {fl.key["ORG"], fl.key["REPLY"]}

\* No entry of ipv4_flow_tbl outlives its flow, whoever freed it, overwrote the
\* entry or rewrote a key of the flow in between; and a packet that hits the
\* entry is a packet of one of the flow's two directions.
TableEntriesLive ==
    \A k \in Keys : table[k] # None => Live(table[k]) /\ k \in KeysOf(heap[table[k]])

\* The one-entry cache in front of the table never answers differently from it.
CacheCoherent == cache.key # None => cache.flow # None /\ cache.flow = table[cache.key]

\* df->conntrack of a packet between conntrack and tx is never dangling.
PacketFlowLive == \A p \in Pkts : pkts[p] # None => Live(pkts[p].flow)

\* The reference count is exactly one per hardware rule, and one for the table
\* until the flow was aged out; no rule refers to a freed flow.  (Claimed until a
\* freed flow has been touched; NoUseAfterFree is about that.)
RefCountExact ==
    "flow_uaf" \notin misuse =>
    /\ \A f \in Flows :
        Live(f) => heap[f].ref = Cardinality(CtxsOf(f)) + (IF heap[f].aged THEN 0 ELSE 1)
    /\ \A c \in Ctxs : ctx[c] # None => Live(ctx[c].flow)

\* No NAT port leaks and none is given back twice: the portoverload entries are
\* those of the flows alive, and no two flows hold the same one.
NatPortsExact ==
    /\ ports = UNION {HeldPorts(heap[f]) : f \in {g \in Flows : Live(g)}}
    /\ \A f, g \in Flows :
        f # g /\ Live(f) /\ Live(g) => HeldPorts(heap[f]) \cap HeldPorts(heap[g]) = {}

\* The next outgoing packet of a flow with a NAT port finds that flow, so a
\* connection is never given a second port.
NatFlowFound ==
    \A f \in Flows : Live(f) /\ heap[f].nat = "NETWORK_LOCAL" => table[heap[f].key["ORG"]] = f

\* A flow can always be aged: an entry leads to it, or a rule the NIC will report.
NoOrphanFlow ==
    \A f \in Flows : Live(f) => CtxsOf(f) # {} \/ \E k \in Keys : table[k] = f

\* rte_age_ctxs[] never holds more than its capacity, and what it holds are rules
\* of flows that exist.
RulesFit ==
    /\ \A f \in Flows : Cardinality(Stored(f)) <= AgeCtxCapacity
    /\ \A f \in Flows : Stored(f) # {} => Live(f)

\* What makes the three table properties inductive: an iteration only has entries
\* ahead of it that still exist, and runs while no packet holds a flow.
ScanOK ==
    /\ \A k \in scan.todo : table[k] # None
    /\ scan.todo # {} => \A p \in Pkts : pkts[p] = None

MemorySafe == TableEntriesLive /\ CacheCoherent /\ PacketFlowLive /\ ScanOK

\* What makes the NAT properties inductive: only translated flows hold a port,
\* the keys of an unmarked flow are inverse to each other, and a packet of the
\* original direction carries the original key.
NatInv ==
    /\ \A f \in Flows : Live(f) =>
        /\ heap[f].nat = "NETWORK_LOCAL" => "SRC_NAT" \in heap[f].flags
        /\ heap[f].flags = {} => heap[f].key["REPLY"] = dp_invert_flow_key(heap[f].key["ORG"])
    /\ \A p \in Pkts : pkts[p] # None /\ pkts[p].dir = "ORG"
                            => pkts[p].key = heap[pkts[p].flow].key["ORG"]

\* What makes NatFlowFound inductive: every original key came in with a packet,
\* and a key under which NAT traffic leaves is nobody's reply key.
OutKey(k) == k.src \in VMs /\ k.dst \in Exts /\ k.vnf = "NAT"

ArrivalKeys == {a.key : a \in dp_build_flow_key}

KeyInv ==
    /\ \A p \in Pkts : pkts[p] # None => [port |-> pkts[p].port, key |-> pkts[p].key] \in dp_build_flow_key
    /\ \A f \in Flows : Live(f) =>
        /\ heap[f].key["ORG"] \in ArrivalKeys
        /\ ~OutKey(heap[f].key["REPLY"])
        /\ OutKey(heap[f].key["ORG"]) => table[heap[f].key["ORG"]] = f
        /\ heap[f].nat = "NETWORK_LOCAL" => OutKey(heap[f].key["ORG"])

\* What makes NoOrphanFlow inductive where no interface is translated: a flow has
\* the entry of its original key, and that of the reply key unless it is relayed.
NoTranslation == \A v \in VMs : SnatOf[v] = "none"

EntryInv ==
    \A f \in Flows : Live(f) =>
        LET org == heap[f].key["ORG"]
            reply == heap[f].key["REPLY"]
        IN  /\ reply = dp_invert_flow_key(org)
            /\ table[org] = f
            /\ org.dst \notin NeighNats => table[reply] = f

\* Where removing a flow gives up as many references as it holds: no removal is
\* ever requested, no rules exist, or all of them are in rte_age_ctxs[].
AllRulesStored == Protos \subseteq {"TCP"} /\ NeighNats = {}
RemovalsExact == Requests = {} \/ ~offload_mode_enabled \/ AllRulesStored

\* What makes RefCountExact, RulesFit and NoUseAfterFree inductive there: it holds
\* even after a freed flow was touched, and counts what the configuration rules out.
TableRef(fl) == IF fl.aged THEN 0 ELSE 1

RefInv ==
    /\ \A f \in Flows :
        Live(f) => heap[f].ref >= 1 /\ heap[f].ref = Cardinality(CtxsOf(f)) + TableRef(heap[f])
    /\ \A c \in Ctxs : ctx[c] # None => Live(ctx[c].flow)
    /\ \A f \in Flows : Cardinality(Stored(f)) <= AgeCtxCapacity

ModeInv ==
    /\ scan.todo # {} => scan.req \in Requests \cup {AgeRequest}
    /\ AllRulesStored => /\ \A c \in Ctxs : ctx[c] # None => ctx[c].stored
                         /\ \A f \in Flows : Live(f) => heap[f].nat # "NETWORK_NEIGH"
    /\ ~offload_mode_enabled =>
        /\ \A c \in Ctxs : ctx[c] = None
        /\ \A f \in Flows : Live(f) => \A d \in Dirs : heap[f].off[d] = "NON_OFFLOAD"
        /\ \A p \in Pkts : pkts[p] # None => pkts[p].off = "NON_OFFLOAD"

\* No freed flow is touched.
NoUseAfterFree == "flow_uaf" \notin misuse

\* Once a flow is translated its keys stay as they are until it is freed.
NatBindingStable ==
    [][\A f \in Flows : Live(f) /\ Live(f)' /\ heap[f].flags \cap NfFlags # {}
            => heap'[f].key = heap[f].key]_vars

\* A flow without packets does not stay in memory.
IdleFlowFreed ==
    \A f \in Flows : (Live(f) /\ heap[f].idle) ~> (~Live(f) \/ ~heap[f].idle)
=============================================================================
