-------------------------------- MODULE Nat --------------------------------
(***************************************************************************)
(* Virtual IPs, network NAT and neighbour NAT of one VNI: the requests that *)
(* configure them (dp_grpc_impl.c), the tables behind them (dp_nat.c) and   *)
(* the graph nodes that allocate a NAT port for a new connection            *)
(* (snat_node.c, dnat_node.c).                                              *)
(*                                                                          *)
(* A NAT port is shared: two connections may have the same NAT address and  *)
(* port as long as their destinations differ.  Two tables do the            *)
(* bookkeeping.  netnat_portoverload_tbl holds a key per connection (NAT    *)
(* address, NAT port, destination); netnat_portmap_tbl remembers for a      *)
(* source (interface address and source port) the NAT port it was given     *)
(* last and how many connections use it, so that further connections of the *)
(* source get the same port.                                                *)
(*                                                                          *)
(* Requests run one at a time between packets, in the worker.  A request    *)
(* for an unknown interface, with an IPv6 address or with an empty or too   *)
(* large port range changes nothing and is left out.                        *)
(***************************************************************************)
EXTENDS Naturals, Sequences, FiniteSets, FiniteSetsExt, Functions

CONSTANTS
    Ifaces,     \* interfaces of the VNI, each with an IPv4 and an IPv6 address
    VipIps,     \* addresses that clients use as virtual IPs
    NatIps,     \* addresses that clients use for NAT; may overlap VipIps
    Ranges,     \* port ranges <<min, max>> that clients ask for
    Dsts,       \* remote hosts, each with one service port
    SrcPorts,   \* source ports and ICMP identifiers that interfaces use
    Protos,     \* subset of {"UDP", "ICMP"}
    hash,       \* [Srcs -> Nat]: rte_hash_hash of a portmap key
    Faults,     \* subset of {"memory", "hash"} that can happen
    CntMod,     \* number of values of flow_cnt, 2^16
    MaxConns,   \* bound on the translated connections
    MaxStuck,   \* bound on the sum of the history variable stuck
    MaxLeaked,  \* bound on the history variable leaked
    None

Families == {"v4", "v6"}

\* struct netnat_portmap_key: the VNI is the same for all
Srcs == [iface : Ifaces, fam : Families, port : SrcPorts]

\* struct netnat_portoverload_tbl_key; the destination port of an ICMP packet is
\* its identifier, chosen by the sender
Keys == [nat_ip : NatIps, nat_port : Nat, dst : Dsts, dst_port : SrcPorts \cup {0},
         l4_type : {"UDP", "ICMP", "ICMPV6"}]

\* CreateNatCall::FillRequest refuses the others before they reach the worker
ValidRanges == {r \in Ranges : r[1] < r[2]}

\* struct network_nat_entry; the neighbour's underlay address is of no interest
Entries == [ip : NatIps, range : ValidRanges]

ASSUME ConstantsAssumption ==
    /\ \A r \in Ranges : r \in Nat \X Nat
    /\ SrcPorts \subseteq Nat \ {0}
    /\ Protos \subseteq {"UDP", "ICMP"}
    /\ hash \in [Srcs -> Nat]
    /\ Faults \subseteq {"memory", "hash"}
    /\ CntMod \in Nat \ {0, 1}
    /\ MaxConns \in Nat /\ MaxStuck \in Nat
    /\ MaxLeaked \in Nat
    /\ None \notin VipIps \cup NatIps \cup Entries

\* underlay addresses: the VNF's interface and type, and a number that tells two
\* of them apart; dp_generate_underlay_ipv6 never returns one that is in use
Underlays == [iface : Ifaces, type : {"VIP", "NAT"}, n : Nat]

\* struct snat_data; an address 0 is None
SnatData == [vip_ip : VipIps \cup {None}, nat_ip : NatIps \cup {None},
             range : ValidRanges \cup {<<0, 0>>},
             ul_vip : Underlays \cup {None}, ul_nat : Underlays \cup {None}]

NoSnat == [vip_ip |-> None, nat_ip |-> None, range |-> <<0, 0>>,
           ul_vip |-> None, ul_nat |-> None]

\* a connection that the snat node translated: the original direction, the
\* translated source, and nf_info.nat_type
Conns == [src : Srcs, dst : Dsts, proto : Protos, ip : VipIps \cup NatIps,
          port : Nat, type : {"VIP", "LOCAL"}]

VARIABLES
    snat,       \* ipv4_snat_tbl: NoSnat where there is no entry
    iface_nat,  \* port->iface.nat_ip and nat_port_range, the copy NAT64 uses
    dnat,       \* ipv4_dnat_tbl: None, an interface, or "NAT" for dnat_ip = 0
    neigh,      \* nat_headp: the neighbours' NAT entries, in list order
    vnfs,       \* underlay addresses of VNFs of type VIP and NAT
    portmap,    \* netnat_portmap_tbl
    overload,   \* netnat_portoverload_tbl
    conns,      \* live translated connections
    leaked,     \* history: keys no connection owns any more
    stuck       \* history: per source, counts raised for no connection

config == <<snat, iface_nat, dnat, neigh, vnfs>>
ports == <<portmap, overload, leaked, stuck>>
vars == <<config, ports, conns>>

Init ==
    /\ snat = [i \in Ifaces |-> NoSnat]
    /\ iface_nat = [i \in Ifaces |-> [ip |-> None, range |-> <<0, 0>>]]
    /\ dnat = [ip \in VipIps \cup NatIps |-> None]
    /\ neigh = <<>>
    /\ vnfs = {}
    /\ portmap = [s \in Srcs |-> None]
    /\ overload = {}
    /\ conns = {}
    /\ leaked = {}
    /\ stuck = [s \in Srcs |-> 0]

-----------------------------------------------------------------------------
(* Port bookkeeping *)

\* l4_type of the packet when the port is allocated: NAT64 has not yet changed
\* the header
L4Type(src, proto) == IF proto = "ICMP" /\ src.fam = "v6" THEN "ICMPV6" ELSE proto

Key(ip, port, src, dst, proto) ==
    [nat_ip |-> ip, nat_port |-> port, dst |-> dst,
     dst_port |-> IF proto = "ICMP" THEN src.port ELSE 0,
     l4_type |-> L4Type(src, proto)]

KeyOf(c) == Key(c.ip, c.port, c.src, c.dst, c.proto)

\* the search that starts at the hash of the source; 0 stands for "not found"
SearchPort(src, dst, proto, ip, r) ==
    LET n == r[2] - r[1]
        Port(p) == r[1] + ((hash[src] + p) % n)
        free == {p \in 0..(n - 1) : Key(ip, Port(p), src, dst, proto) \notin overload}
    IN  IF free = {} THEN 0 ELSE Port(Min(free))

\* the source has a port and it is still free for this destination
KeepsPort(src, dst, proto, ip) ==
    /\ portmap[src] # None
    /\ Key(ip, portmap[src].nat_port, src, dst, proto) \notin overload

\* the outcomes of dp_allocate_network_snat_port: the port (0 for an error) and
\* the two tables after it.  A failing insertion into the first table leaves the
\* count of a kept port raised; a failing insertion into the second one leaves
\* the key in the first.  The insertion for a source that has an entry replaces
\* the entry.
Allocations(src, dst, proto, ip, r) ==
    LET keep == KeepsPort(src, dst, proto, ip)
        port == IF keep THEN portmap[src].nat_port
                ELSE SearchPort(src, dst, proto, ip, r)
        key == Key(ip, port, src, dst, proto)
        map == [portmap EXCEPT ![src] =
                    [nat_port |-> port,
                     flow_cnt |-> IF keep THEN (portmap[src].flow_cnt + 1) % CntMod ELSE 1]]
        Outcome(p, m, keys, lost, over) ==
            [port |-> p, portmap |-> m, overload |-> keys, leaked |-> lost, stuck |-> over]
    IN  IF ~keep /\ port = 0
        THEN {Outcome(0, portmap, overload, leaked, stuck)}
        ELSE {Outcome(port, map, overload \cup {key}, leaked, stuck)}
             \cup (IF "hash" \notin Faults THEN {}
                   ELSE {IF keep
                         THEN Outcome(0, map, overload, leaked, [stuck EXCEPT ![src] = @ + 1])
                         ELSE Outcome(0, portmap, overload, leaked, stuck)}
                        \cup (IF keep \/ portmap[src] # None THEN {}
                              ELSE {Outcome(0, portmap, overload \cup {key},
                                            leaked \cup {key}, stuck)}))

\* Mutant: the count is lowered but the entry stays when it reaches zero
ReleaseKept(e, k) ==
    IF e = None THEN None
    ELSE [nat_port |-> e.nat_port, flow_cnt |-> (e.flow_cnt + CntMod - (k % CntMod)) % CntMod]

\* the portmap part of dp_remove_network_snat_port, for k connections of the source
\* one after the other: the count wraps around, and the entry goes when it is zero
Release(e, k) ==
    LET uses == IF e.flow_cnt = 0 THEN CntMod ELSE e.flow_cnt
    IN  IF e = None THEN None
        ELSE IF k >= uses THEN None
        ELSE [nat_port |-> e.nat_port, flow_cnt |-> (uses - k) % CntMod]

Released(cs) == [s \in Srcs |-> Release(portmap[s], Cardinality({c \in cs : c.src = s}))]

Local(cs) == {c \in cs : c.type = "LOCAL"}

\* Mutant: the keys of the connections stay in netnat_portoverload_tbl
FreeConnsKeepKeys(cs) ==
    /\ conns' = conns \ cs
    /\ portmap' = Released(Local(cs))
    /\ UNCHANGED <<overload, leaked, stuck>>

\* dp_free_flow for every connection of cs, in any order: dp_free_network_nat_port
\* releases the ports of the translated ones
FreeConns(cs) ==
    /\ conns' = conns \ cs
    /\ overload' = overload \ {KeyOf(c) : c \in Local(cs)}
    /\ portmap' = Released(Local(cs))
    /\ UNCHANGED <<leaked, stuck>>

-----------------------------------------------------------------------------
(* Packets *)

\* the first packet of a connection reaches dp_process_ipv4_snat: with a virtual
\* IP and a NAT address the NAT address wins
IPv4Snat(i, sport, dst, proto) ==
    LET src == [iface |-> i, fam |-> "v4", port |-> sport]
        data == snat[i]
    IN  /\ \A c \in conns : ~(c.src = src /\ c.dst = dst /\ c.proto = proto)
        /\ \/ /\ data.nat_ip # None
              /\ \E a \in Allocations(src, dst, proto, data.nat_ip, data.range) :
                    /\ portmap' = a.portmap
                    /\ overload' = a.overload
                    /\ leaked' = a.leaked
                    /\ stuck' = a.stuck
                    /\ conns' = IF a.port = 0 THEN conns
                                ELSE conns \cup {[src |-> src, dst |-> dst, proto |-> proto,
                                                  ip |-> data.nat_ip, port |-> a.port,
                                                  type |-> "LOCAL"]}
           \/ /\ data.nat_ip = None
              /\ data.vip_ip # None
              /\ conns' = conns \cup {[src |-> src, dst |-> dst, proto |-> proto,
                                       ip |-> data.vip_ip, port |-> sport, type |-> "VIP"]}
              /\ UNCHANGED ports
        /\ UNCHANGED config

\* dp_process_ipv6_nat64 takes address and range from the port.  The header
\* conversion fails for an ICMPv6 packet that is not an echo; the port is then
\* given back before the reply key has its IPv4 address, which
\* dp_remove_network_snat_port refuses
IPv6Nat64(i, sport, dst, proto) ==
    LET src == [iface |-> i, fam |-> "v6", port |-> sport]
        data == iface_nat[i]
    IN  /\ data.ip # None
        /\ \A c \in conns : ~(c.src = src /\ c.dst = dst /\ c.proto = proto)
        /\ \E a \in Allocations(src, dst, proto, data.ip, data.range) :
              /\ portmap' = a.portmap
              /\ overload' = a.overload
              /\ \/ /\ conns' = IF a.port = 0 THEN conns
                                ELSE conns \cup {[src |-> src, dst |-> dst, proto |-> proto,
                                                  ip |-> data.ip, port |-> a.port,
                                                  type |-> "LOCAL"]}
                    /\ leaked' = a.leaked
                    /\ stuck' = a.stuck
                 \/ /\ proto = "ICMP"
                    /\ a.port # 0
                    /\ leaked' = a.leaked \cup {Key(data.ip, a.port, src, dst, proto)}
                    /\ stuck' = [a.stuck EXCEPT ![src] = @ + 1]
                    /\ UNCHANGED conns
        /\ UNCHANGED config

\* dp_lookup_network_nat_underlay_ip: the first entry whose range has the port
NeighbourOf(ip, port) ==
    LET hit == {k \in DOMAIN neigh : /\ neigh[k].ip = ip
                                     /\ neigh[k].range[1] <= port
                                     /\ port < neigh[k].range[2]}
    IN  IF hit = {} THEN None ELSE neigh[Min(hit)]

\* a connection ages out
AgeOut(c) ==
    /\ FreeConns({c})
    /\ UNCHANGED config

-----------------------------------------------------------------------------
(* Requests *)

\* dp_create_vnf_route: the underlay address of a new VNF
FreshUnderlay(i, type) ==
    [iface |-> i, type |-> type,
     n |-> CHOOSE k \in 0..Cardinality(vnfs) :
              [iface |-> i, type |-> type, n |-> k] \notin vnfs]

\* dp_set_iface_vip_ip and dp_set_iface_nat_ip after the check for an existing one
SetVip(sn, i, ip, ul) ==
    [sn EXCEPT ![i] = [vip_ip |-> ip, nat_ip |-> @.nat_ip, range |-> @.range,
                       ul_vip |-> ul, ul_nat |-> @.ul_nat]]

SetNat(sn, i, ip, r, ul) ==
    [sn EXCEPT ![i] = [vip_ip |-> @.vip_ip, nat_ip |-> ip, range |-> r,
                       ul_vip |-> @.ul_vip, ul_nat |-> ul]]

\* dp_del_iface_vip_ip: the entry stays while it has a NAT address
DelVip(sn, i) ==
    [sn EXCEPT ![i] = IF @.nat_ip = None THEN NoSnat
                      ELSE [vip_ip |-> None, nat_ip |-> @.nat_ip, range |-> @.range,
                            ul_vip |-> @.ul_vip, ul_nat |-> @.ul_nat]]

\* dp_del_iface_nat_ip: the entry stays while it has a virtual IP
DelNat(sn, i) ==
    [sn EXCEPT ![i] = IF @.vip_ip = None THEN NoSnat
                      ELSE [vip_ip |-> @.vip_ip, nat_ip |-> None, range |-> <<0, 0>>,
                            ul_vip |-> @.ul_vip, ul_nat |-> @.ul_nat]]

\* the outcomes of dp_set_dnat_ip: the code returned and the table
SetDnat(ip, target) ==
    IF dnat[ip] # None THEN {<<"EXISTS", dnat>>}
    ELSE {<<"OK", [dnat EXCEPT ![ip] = target]>>}
         \cup (IF "memory" \in Faults THEN {<<"CREATE", dnat>>} ELSE {})

\* dp_del_vip_from_dnat with the list as it will be
DelVipFromDnat(ip, list) ==
    IF \E e \in Range(list) : e.ip = ip THEN dnat ELSE [dnat EXCEPT ![ip] = None]

\* Mutant: the underlay address of a failed request is not given back
CreateVipLeak(i, ip) ==
    /\ \E d \in SetDnat(ip, i) :
          LET ul == FreshUnderlay(i, "VIP")
              sn == SetVip(snat, i, ip, ul) IN
          /\ dnat' = IF snat[i].vip_ip # None THEN dnat ELSE d[2]
          /\ vnfs' = IF d[1] = "OK" \/ snat[i].vip_ip = None THEN vnfs \cup {ul} ELSE vnfs
          /\ snat' = IF snat[i].vip_ip # None THEN snat
                     ELSE IF d[1] = "OK" THEN sn ELSE DelVip(sn, i)
    /\ UNCHANGED <<iface_nat, neigh, ports, conns>>

\* dp_process_create_vip; without a VNF (memory, hash) nothing happens
CreateVip(i, ip) ==
    /\ \E d \in SetDnat(ip, i) :
          LET ul == FreshUnderlay(i, "VIP")
              sn == SetVip(snat, i, ip, ul) IN
          \/ /\ snat[i].vip_ip # None       \* err_vnf
             /\ UNCHANGED <<snat, dnat, vnfs>>
          \/ /\ snat[i].vip_ip = None
             /\ d[1] = "OK"
             /\ snat' = sn
             /\ dnat' = d[2]
             /\ vnfs' = vnfs \cup {ul}
          \/ /\ snat[i].vip_ip = None       \* err_snat: also when the address is known
             /\ d[1] # "OK"
             /\ snat' = DelVip(sn, i)
             /\ dnat' = d[2]
             /\ UNCHANGED vnfs
    /\ UNCHANGED <<iface_nat, neigh, ports, conns>>

\* dp_process_delete_vip: the DNAT entry goes whoever else has the address
DeleteVip(i) ==
    /\ snat[i].vip_ip # None
    /\ vnfs' = vnfs \ {snat[i].ul_vip}
    /\ dnat' = [dnat EXCEPT ![snat[i].vip_ip] = None]
    /\ snat' = DelVip(snat, i)
    /\ FreeConns({c \in conns : c.src.iface = i /\ c.type = "VIP"})
    /\ UNCHANGED <<iface_nat, neigh>>

\* dp_process_create_nat: an existing DNAT entry is accepted
CreateNat(i, ip, r) ==
    /\ \E d \in SetDnat(ip, "NAT") :
          LET ul == FreshUnderlay(i, "NAT")
              sn == SetNat(snat, i, ip, r, ul) IN
          \/ /\ snat[i].nat_ip # None       \* err_vnf
             /\ UNCHANGED <<snat, dnat, vnfs, iface_nat>>
          \/ /\ snat[i].nat_ip = None
             /\ d[1] \in {"OK", "EXISTS"}
             /\ snat' = sn
             /\ dnat' = d[2]
             /\ vnfs' = vnfs \cup {ul}
             /\ iface_nat' = [iface_nat EXCEPT ![i] = [ip |-> ip, range |-> r]]
          \/ /\ snat[i].nat_ip = None       \* err_dnat
             /\ d[1] = "CREATE"
             /\ snat' = DelNat(sn, i)
             /\ UNCHANGED <<dnat, vnfs, iface_nat>>
    /\ UNCHANGED <<neigh, ports, conns>>

\* Mutant: the connections of the interface stay
DeleteNatKeepFlows(i) ==
    /\ snat[i].nat_ip # None
    /\ vnfs' = vnfs \ {snat[i].ul_nat}
    /\ dnat' = DelVipFromDnat(snat[i].nat_ip, neigh)
    /\ iface_nat' = [iface_nat EXCEPT ![i] = [ip |-> None, range |-> <<0, 0>>]]
    /\ snat' = DelNat(snat, i)
    /\ UNCHANGED <<neigh, ports, conns>>

\* dp_process_delete_nat
DeleteNat(i) ==
    /\ snat[i].nat_ip # None
    /\ vnfs' = vnfs \ {snat[i].ul_nat}
    /\ dnat' = DelVipFromDnat(snat[i].nat_ip, neigh)
    /\ iface_nat' = [iface_nat EXCEPT ![i] = [ip |-> None, range |-> <<0, 0>>]]
    /\ FreeConns({c \in conns : c.src.iface = i /\ c.type = "LOCAL"})
    /\ snat' = DelNat(snat, i)
    /\ UNCHANGED neigh

\* dp_is_network_nat_entry, for every entry of the list
Positions(ip, r) == {k \in DOMAIN neigh : neigh[k] = [ip |-> ip, range |-> r]}

\* dp_process_create_neighnat: an entry that is there already is refused; the new
\* one is taken out again when the DNAT entry cannot be made
CreateNeighNat(ip, r) ==
    /\ Positions(ip, r) = {}
    /\ \E d \in SetDnat(ip, "NAT") :
          /\ dnat' = d[2]
          /\ neigh' = IF d[1] = "CREATE" THEN neigh
                      ELSE Append(neigh, [ip |-> ip, range |-> r])
    /\ UNCHANGED <<snat, iface_nat, vnfs, ports, conns>>

\* TAILQ_REMOVE of the i-th element
RemoveAt(s, i) == SubSeq(s, 1, i - 1) \o SubSeq(s, i + 1, Len(s))

\* Mutant: the DNAT entry is deleted before the rest of the list is looked at
DeleteNeighNatAlways(ip, r) ==
    /\ Positions(ip, r) # {}
    /\ neigh' = RemoveAt(neigh, Min(Positions(ip, r)))
    /\ dnat' = [dnat EXCEPT ![ip] = None]
    /\ FreeConns({c \in conns : c.ip = ip /\ r[1] <= c.port /\ c.port < r[2]})
    /\ UNCHANGED <<snat, iface_nat, vnfs>>

\* dp_process_delete_neighnat: dp_remove_neighnat_flows looks at the addresses and
\* ports of the flow keys only, so connections of this host go too.  The relayed
\* connections, which it is meant for, are modelled in FlowTable
DeleteNeighNat(ip, r) ==
    /\ Positions(ip, r) # {}
    /\ neigh' = RemoveAt(neigh, Min(Positions(ip, r)))
    /\ dnat' = DelVipFromDnat(ip, neigh')
    /\ FreeConns({c \in conns : c.ip = ip /\ r[1] <= c.port /\ c.port < r[2]})
    /\ UNCHANGED <<snat, iface_nat, vnfs>>

\* dp_process_initialize, and dp_free_vni_data: the DNAT entries and the relayed
\* connections of the neighbours stay
ForgetNeighbours ==
    /\ neigh # <<>>
    /\ neigh' = <<>>
    /\ UNCHANGED <<snat, iface_nat, dnat, vnfs, ports, conns>>

\* dp_process_delete_interface and the creation of an interface with the same
\* address: NAT data, DNAT entries and VNFs stay, the port's copy and the
\* connections go.  Between the two requests the interface does nothing
RecreateInterface(i) ==
    /\ iface_nat' = [iface_nat EXCEPT ![i] = [ip |-> None, range |-> <<0, 0>>]]
    /\ FreeConns({c \in conns : c.src.iface = i})
    /\ UNCHANGED <<snat, dnat, neigh, vnfs>>

\* replies of dp_process_get_nat and dp_process_get_vip
GetNat(i) == IF snat[i].nat_ip = None THEN [err |-> "SNAT_NO_DATA"]
             ELSE [err |-> "OK", ip |-> snat[i].nat_ip, range |-> snat[i].range,
                   ul |-> snat[i].ul_nat]

GetVip(i) == IF snat[i].vip_ip = None THEN [err |-> "SNAT_NO_DATA"]
             ELSE [err |-> "OK", ip |-> snat[i].vip_ip, ul |-> snat[i].ul_vip]

\* replies of dp_list_nat_neigh_entries
ListNeighNats(ip) == {e \in Range(neigh) : e.ip = ip}

-----------------------------------------------------------------------------
Request ==
    \/ \E i \in Ifaces, ip \in VipIps : CreateVip(i, ip)
    \/ \E i \in Ifaces : DeleteVip(i)
    \/ \E i \in Ifaces, ip \in NatIps, r \in ValidRanges : CreateNat(i, ip, r)
    \/ \E i \in Ifaces : DeleteNat(i)
    \/ \E ip \in NatIps, r \in ValidRanges : CreateNeighNat(ip, r)
    \/ \E ip \in NatIps, r \in ValidRanges : DeleteNeighNat(ip, r)
    \/ ForgetNeighbours
    \/ \E i \in Ifaces : RecreateInterface(i)

Packet ==
    \/ /\ Cardinality(conns) < MaxConns
       /\ \E i \in Ifaces, p \in SrcPorts, d \in Dsts, proto \in Protos :
             \/ IPv4Snat(i, p, d, proto)
             \/ IPv6Nat64(i, p, d, proto)
       /\ FoldFunction(+, 0, stuck') <= MaxStuck
       /\ Cardinality(leaked') <= MaxLeaked
    \/ \E c \in conns : AgeOut(c)

Next == Request \/ Packet

Spec == Init /\ [][Next]_vars

-----------------------------------------------------------------------------
(* Properties *)

\* Every table has its type.
TypeOK ==
    /\ snat \in [Ifaces -> SnatData]
    /\ iface_nat \in [Ifaces -> [ip : NatIps \cup {None}, range : ValidRanges \cup {<<0, 0>>}]]
    /\ dnat \in [VipIps \cup NatIps -> Ifaces \cup {"NAT", None}]
    /\ neigh \in Seq(Entries)
    /\ vnfs \subseteq Underlays
    /\ portmap \in [Srcs -> [nat_port : Nat, flow_cnt : 0..(CntMod - 1)] \cup {None}]
    /\ overload \subseteq Keys
    /\ conns \subseteq Conns
    /\ leaked \subseteq Keys
    /\ stuck \in [Srcs -> Nat]

\* netnat_portoverload_tbl holds the keys of the live connections and nothing
\* else but the keys that a failed hash insertion or a failed NAT64 conversion
\* left behind, through every order of aging, removal and reconfiguration; and
\* no two connections share a key, so the host never gives two connections with
\* one protocol and destination the same NAT port.
OverloadExact ==
    /\ overload = {KeyOf(c) : c \in Local(conns)} \cup leaked
    /\ \A c, d \in Local(conns) : KeyOf(c) = KeyOf(d) => c = d
    /\ \A c \in Local(conns) : KeyOf(c) \notin leaked

\* The portmap counts no connection that is gone: an entry has a count of at
\* least one and at most the connections of its source, the counts lost to a
\* failure aside.  So the entry of a source without connections goes with the
\* last one, although an entry may be replaced while its connections live.
PortmapBounded ==
    \A s \in Srcs :
        portmap[s] # None =>
            /\ portmap[s].flow_cnt >= 1
            /\ portmap[s].flow_cnt <= Cardinality({c \in Local(conns) : c.src = s}) + stuck[s]

\* A live connection uses the address, and a port of the range, that GetNat
\* or GetVip reports for its interface now: reconfiguration leaves no connection
\* behind.  A source whose portmap count got stuck keeps its old port and is
\* excepted.
BindingMatchesConfig ==
    \A c \in conns :
        /\ c.type = "VIP" => /\ GetVip(c.src.iface).err = "OK"
                             /\ GetVip(c.src.iface).ip = c.ip
        /\ c.type = "LOCAL" => /\ GetNat(c.src.iface).err = "OK"
                               /\ GetNat(c.src.iface).ip = c.ip
                               /\ \/ GetNat(c.src.iface).range[1] <= c.port
                                     /\ c.port < GetNat(c.src.iface).range[2]
                                  \/ stuck[c.src] > 0

\* The underlay addresses of type VIP and NAT are exactly the ones that the
\* configuration names: a request that fails half-way, for whatever reason,
\* leaves none behind and takes none away.
UnderlayExact ==
    vnfs = {GetVip(i).ul : i \in {j \in Ifaces : GetVip(j).err = "OK"}}
           \cup {GetNat(i).ul : i \in {j \in Ifaces : GetNat(j).err = "OK"}}

\* A packet for a port of a neighbour reaches the neighbour list: the address has
\* its DNAT entry as long as the list has a range of it, also when a local
\* interface with the same address or another neighbour goes.  An address that
\* is also used as a virtual IP is excepted.
NeighbourReachable ==
    \A ip \in NatIps \ VipIps :
        \A e \in ListNeighNats(ip) :
            /\ dnat[ip] = "NAT"
            /\ \A p \in e.range[1]..(e.range[2] - 1) : NeighbourOf(ip, p) # None

=============================================================================
