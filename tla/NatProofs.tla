----------------------------- MODULE NatProofs -----------------------------
(***************************************************************************)
(* Proofs about Nat, for any interfaces, addresses, port ranges, sources   *)
(* and faults.                                                             *)
(***************************************************************************)
EXTENDS Nat, FiniteSetTheorems, WellFoundedInduction, TLAPS

\* The configuration of an interface is complete: a configured address comes
\* with an underlay address of its own kind.
RowOK(i) ==
    /\ snat[i].vip_ip \in VipIps \cup {None}
    /\ snat[i].nat_ip \in NatIps \cup {None}
    /\ snat[i].range \in ValidRanges \cup {<<0, 0>>}
    /\ snat[i].vip_ip # None => snat[i].ul_vip.iface = i /\ snat[i].ul_vip.type = "VIP"
    /\ snat[i].nat_ip # None => snat[i].ul_nat.iface = i /\ snat[i].ul_nat.type = "NAT"

\* The inductive invariant of the configuration.  Each underlay address tells by
\* its interface and type which configured address it belongs to; a DNAT entry of
\* an address no client uses as a virtual IP is the mark for NAT.
ConfigInv ==
    /\ snat = [i \in Ifaces |-> snat[i]]
    /\ \A i \in Ifaces : RowOK(i)
    /\ iface_nat \in [Ifaces -> [ip : NatIps \cup {None}, range : ValidRanges \cup {<<0, 0>>}]]
    /\ vnfs = {snat[i].ul_vip : i \in {j \in Ifaces : snat[j].vip_ip # None}}
              \cup {snat[i].ul_nat : i \in {j \in Ifaces : snat[j].nat_ip # None}}

\* The inductive invariant of the neighbours.
NeighInv ==
    /\ neigh \in Seq(Entries)
    /\ dnat = [ip \in VipIps \cup NatIps |-> dnat[ip]]
    /\ \A ip \in NatIps \ VipIps : dnat[ip] \in {None, "NAT"}
    /\ \A k \in 1..Len(neigh) : neigh[k].ip \notin VipIps => dnat[neigh[k].ip] = "NAT"

\* The inductive invariant of the port tables: an entry of the portmap never
\* holds port 0, which stands for failure.
PortInv ==
    /\ OverloadExact
    /\ portmap = [s \in Srcs |-> portmap[s]]
    /\ \A s \in Srcs : portmap[s] # None => portmap[s].nat_port # 0

-----------------------------------------------------------------------------
\* Operators.

\* A set of natural numbers that has an element has a least one.
LEMMA MinInSet ==
    ASSUME NEW S \in SUBSET Nat, S # {}
    PROVE  Min(S) \in S
<1> DEFINE R == OpToRel(<, Nat)
<1>1. IsWellFoundedOn(R, Nat)
  BY NatLessThanWellFounded, Zenon
<1>2. \A x, y \in Nat : x < y => <<x, y>> \in R
  BY Zenon DEF OpToRel
<1> HIDE DEF R
<1>3. PICK x \in S : \A y \in S : ~(<<y, x>> \in R)
  BY <1>1, WFMin, Zenon
<1>4. ASSUME NEW y \in S PROVE x <= y
  <2>1. x \in Nat /\ y \in Nat
    BY Zenon
  <2>2. ~(y < x)
    BY <2>1, <1>2, <1>3, Zenon
  <2> QED
    BY <2>1, <2>2
<1> QED
  BY <1>4, Zenon DEF Min

\* Removing an element keeps a sequence over its set, and adds no element.
LEMMA Removed ==
    ASSUME NEW S, NEW s \in Seq(S), NEW i \in 1..Len(s)
    PROVE  /\ RemoveAt(s, i) \in Seq(S)
           /\ \A k \in 1..Len(RemoveAt(s, i)) : \E j \in 1..Len(s) : RemoveAt(s, i)[k] = s[j]
<1> DEFINE a == SubSeq(s, 1, i - 1)
           b == SubSeq(s, i + 1, Len(s))
<1>1. a \in Seq(S) /\ Len(a) = i - 1 /\ \A k \in 1..Len(a) : a[k] = s[k]
  OBVIOUS
<1>2. b \in Seq(S) /\ Len(b) = Len(s) - i /\ \A k \in 1..Len(b) : b[k] = s[i + k]
  OBVIOUS
<1>3. RemoveAt(s, i) = a \o b
  BY Zenon DEF RemoveAt
<1> HIDE DEF a, b
<1>4. ASSUME NEW k \in 1..Len(a \o b)
      PROVE  \E j \in 1..Len(s) : (a \o b)[k] = s[j]
  <2>1. CASE k <= Len(a)
    BY <2>1, <1>1, <1>2
  <2>2. CASE k > Len(a)
    <3>1. (a \o b)[k] = b[k - Len(a)] /\ k - Len(a) \in 1..Len(b)
      BY <2>2, <1>1, <1>2
    <3>2. b[k - Len(a)] = s[i + (k - Len(a))] /\ i + (k - Len(a)) \in 1..Len(s)
      BY <3>1, <1>1, <1>2
    <3> QED
      BY <3>1, <3>2, Zenon
  <2> QED
    BY <2>1, <2>2, <1>1, <1>2
<1> QED
  BY <1>1, <1>2, <1>3, <1>4

\* The key of a free port, found by the search, is not in the table.
LEMMA SearchFindsFree ==
    ASSUME NEW src \in Srcs, NEW dst, NEW proto, NEW ip,
           NEW r \in ValidRanges \cup {<<0, 0>>},
           SearchPort(src, dst, proto, ip, r) # 0
    PROVE  Key(ip, SearchPort(src, dst, proto, ip, r), src, dst, proto) \notin overload
<1> DEFINE n == r[2] - r[1]
           Port(p) == r[1] + ((hash[src] + p) % n)
           free == {p \in 0..(n - 1) : Key(ip, Port(p), src, dst, proto) \notin overload}
<1>1. SearchPort(src, dst, proto, ip, r) = IF free = {} THEN 0 ELSE Port(Min(free))
  BY Zenon DEF SearchPort
<1>2. free # {}
  BY <1>1, Zenon
<1>3. free \in SUBSET Nat
  OBVIOUS
<1>4. Min(free) \in free
  BY <1>2, <1>3, MinInSet, Zenon
<1> QED
  BY <1>1, <1>2, <1>4, Zenon

-----------------------------------------------------------------------------
\* The port tables.

\* What an allocation leaves behind: either it failed, and the keys it added are
\* the ones it counts as leaked; or its key is new.
AllocationOK(a, key) ==
    /\ a.portmap = [s \in Srcs |-> a.portmap[s]]
    /\ \A s \in Srcs : a.portmap[s] # None => a.portmap[s].nat_port # 0
    /\ \/ /\ a.port = 0
          /\ a.overload = overload /\ a.leaked = leaked
       \/ /\ a.port = 0
          /\ key \notin overload
          /\ a.overload = overload \cup {key} /\ a.leaked = leaked \cup {key}
       \/ /\ a.port # 0
          /\ key \notin overload
          /\ a.overload = overload \cup {key} /\ a.leaked = leaked

\* Every outcome of dp_allocate_network_snat_port is one of these, and the key of
\* a successful one is made from the port it returns.
LEMMA AllocationOutcome ==
    ASSUME PortInv, NEW src \in Srcs, NEW dst, NEW proto, NEW ip,
           NEW r \in ValidRanges \cup {<<0, 0>>},
           NEW a \in Allocations(src, dst, proto, ip, r)
    PROVE  \E port : /\ AllocationOK(a, Key(ip, port, src, dst, proto))
                     /\ a.port # 0 => a.port = port
<1> DEFINE keep == KeepsPort(src, dst, proto, ip)
           port == IF keep THEN portmap[src].nat_port ELSE SearchPort(src, dst, proto, ip, r)
           key == Key(ip, port, src, dst, proto)
           cnt == IF keep THEN (portmap[src].flow_cnt + 1) % CntMod ELSE 1
           map == [portmap EXCEPT ![src] = [nat_port |-> port, flow_cnt |-> cnt]]
           more == [stuck EXCEPT ![src] = @ + 1]
           Outcome(p, m, keys, lost, over) ==
             [port |-> p, portmap |-> m, overload |-> keys, leaked |-> lost, stuck |-> over]
<1>1. \/ a = Outcome(0, portmap, overload, leaked, stuck)
      \/ /\ keep \/ port # 0
         /\ \/ a = Outcome(port, map, overload \cup {key}, leaked, stuck)
            \/ a = Outcome(0, map, overload, leaked, more)
            \/ a = Outcome(0, portmap, overload \cup {key}, leaked \cup {key}, stuck)
  BY Zenon DEF Allocations
<1>2. keep \/ port # 0 => port # 0 /\ key \notin overload
  <2>1. CASE keep
    BY <2>1, Zenon DEF KeepsPort, PortInv
  <2>2. CASE ~keep /\ port # 0
    BY <2>2, SearchFindsFree, Zenon
  <2> QED
    BY <2>1, <2>2, Zenon
<1>3. keep \/ port # 0 =>
         /\ map = [s \in Srcs |-> map[s]]
         /\ \A s \in Srcs : map[s] # None => map[s].nat_port # 0
  BY <1>2, Zenon DEF PortInv
<1> HIDE DEF keep, port, key, cnt, map, more
<1>4. AllocationOK(a, key)
  BY <1>1, <1>2, <1>3 DEF AllocationOK, PortInv
<1>5. a.port # 0 => a.port = port
  BY <1>1
<1> QED
  BY <1>4, <1>5, Zenon DEF key

\* A new translated connection with a new key keeps the table exact.
LEMMA ConnAdded ==
    ASSUME OverloadExact, NEW c, c.type = "LOCAL", KeyOf(c) \notin overload,
           conns' = conns \cup {c}, overload' = overload \cup {KeyOf(c)}, leaked' = leaked
    PROVE  OverloadExact'
<1>1. Local(conns') = Local(conns) \cup {c}
  BY Zenon DEF Local
<1>2. \A d \in Local(conns) : KeyOf(d) # KeyOf(c)
  BY Zenon DEF OverloadExact
<1>3. OverloadExact' <=>
        /\ overload' = {KeyOf(d) : d \in Local(conns')} \cup leaked'
        /\ \A d, e \in Local(conns') : KeyOf(d) = KeyOf(e) => d = e
        /\ \A d \in Local(conns') : KeyOf(d) \notin leaked'
  BY Zenon DEF OverloadExact, Local
<1>4. /\ overload = {KeyOf(d) : d \in Local(conns)} \cup leaked
      /\ \A d, e \in Local(conns) : KeyOf(d) = KeyOf(e) => d = e
      /\ \A d \in Local(conns) : KeyOf(d) \notin leaked
  BY Zenon DEF OverloadExact
<1>5. KeyOf(c) \notin leaked
  BY <1>4, Zenon
<1>6. overload' = {KeyOf(d) : d \in Local(conns')} \cup leaked'
  BY <1>1, <1>4
<1>7. \A d, e \in Local(conns') : KeyOf(d) = KeyOf(e) => d = e
  BY <1>1, <1>2, <1>4, Zenon
<1>8. \A d \in Local(conns') : KeyOf(d) \notin leaked'
  BY <1>1, <1>4, <1>5, Zenon
<1> QED
  BY <1>3, <1>6, <1>7, <1>8, Zenon

\* A key without a connection keeps it exact when it is counted as leaked.
LEMMA KeyLeaked ==
    ASSUME OverloadExact, NEW key, key \notin overload,
           conns' = conns, overload' = overload \cup {key}, leaked' = leaked \cup {key}
    PROVE  OverloadExact'
  BY Zenon DEF OverloadExact, Local

\* Freeing connections keeps it exact: no other connection and no leaked key
\* has one of their keys.
LEMMA ConnsFreed ==
    ASSUME PortInv, NEW cs \in SUBSET conns, FreeConns(cs)
    PROVE  PortInv'
<1>1. Local(conns') = Local(conns) \ Local(cs) /\ Local(cs) \subseteq Local(conns)
  BY Zenon DEF FreeConns, Local
<1>2. OverloadExact' <=>
        /\ overload' = {KeyOf(d) : d \in Local(conns')} \cup leaked'
        /\ \A d, e \in Local(conns') : KeyOf(d) = KeyOf(e) => d = e
        /\ \A d \in Local(conns') : KeyOf(d) \notin leaked'
  BY Zenon DEF OverloadExact, Local
<1>3. overload' = overload \ {KeyOf(c) : c \in Local(cs)} /\ leaked' = leaked
  BY Zenon DEF FreeConns
<1>4. OverloadExact'
  BY <1>1, <1>2, <1>3 DEF OverloadExact, PortInv
<1>5. portmap' = [s \in Srcs |-> portmap'[s]]
  BY Zenon DEF FreeConns, Released
<1>6. ASSUME NEW s \in Srcs, portmap'[s] # None PROVE portmap'[s].nat_port # 0
  <2> DEFINE k == Cardinality({c \in Local(cs) : c.src = s})
  <2>1. portmap'[s] = Release(portmap[s], k)
    BY Zenon DEF FreeConns, Released
  <2> HIDE DEF k
  <2>2. portmap[s] # None /\ portmap'[s].nat_port = portmap[s].nat_port
    BY <2>1, <1>6 DEF Release
  <2> QED
    BY <2>2, Zenon DEF PortInv
<1> QED
  BY <1>4, <1>5, <1>6, Zenon DEF PortInv

\* The snat node translates the first packet of an IPv4 connection.
LEMMA SnatStep ==
    ASSUME ConfigInv, PortInv, NEW i \in Ifaces, NEW sport \in SrcPorts, NEW dst, NEW proto,
           IPv4Snat(i, sport, dst, proto)
    PROVE  PortInv'
<1> DEFINE src == [iface |-> i, fam |-> "v4", port |-> sport]
           ip == snat[i].nat_ip
           r == snat[i].range
<1>1. src \in Srcs
  BY Zenon DEF Srcs, Families
<1>2. r \in ValidRanges \cup {<<0, 0>>}
  BY Zenon DEF ConfigInv, RowOK
<1>3. CASE snat[i].nat_ip # None
  <2> DEFINE Conn(p) == [src |-> src, dst |-> dst, proto |-> proto, ip |-> ip, port |-> p,
                         type |-> "LOCAL"]
  <2>1. PICK a \in Allocations(src, dst, proto, ip, r) :
           /\ portmap' = a.portmap /\ overload' = a.overload /\ leaked' = a.leaked
           /\ conns' = IF a.port = 0 THEN conns ELSE conns \cup {Conn(a.port)}
    BY <1>3, Zenon DEF IPv4Snat
  <2>2. PICK port : /\ AllocationOK(a, Key(ip, port, src, dst, proto))
                    /\ a.port # 0 => a.port = port
    BY <1>1, <1>2, AllocationOutcome
  <2>3. /\ Conn(port).type = "LOCAL"
        /\ KeyOf(Conn(port)) = Key(ip, port, src, dst, proto)
    BY Zenon DEF KeyOf
  <2> HIDE DEF src, ip, r, Conn
  <2>4. OverloadExact
    BY Zenon DEF PortInv
  <2>5. OverloadExact'
    <3>1. CASE a.port # 0
      BY <3>1, <2>1, <2>2, <2>3, <2>4, ConnAdded, Zenon DEF AllocationOK
    <3>2. CASE a.port = 0 /\ a.overload = overload /\ a.leaked = leaked
      BY <3>2, <2>1, <2>4, Zenon DEF OverloadExact, Local
    <3>3. CASE a.port = 0 /\ ~(a.overload = overload /\ a.leaked = leaked)
      BY <3>3, <2>1, <2>2, <2>4, KeyLeaked, Zenon DEF AllocationOK
    <3> QED
      BY <3>1, <3>2, <3>3, Zenon
  <2> QED
    BY <2>1, <2>2, <2>5, Zenon DEF PortInv, AllocationOK
<1>4. CASE snat[i].nat_ip = None
  <2>1. PICK c : c.type = "VIP" /\ conns' = conns \cup {c} /\ UNCHANGED ports
    BY <1>4, Zenon DEF IPv4Snat
  <2>2. Local(conns') = Local(conns)
    BY <2>1, Zenon DEF Local
  <2> QED
    BY <2>1, <2>2, Zenon DEF PortInv, OverloadExact, Local, ports
<1> QED
  BY <1>3, <1>4, Zenon

\* The same for an IPv6 connection, whose conversion may fail after the port
\* was allocated.
LEMMA Nat64Step ==
    ASSUME ConfigInv, PortInv, NEW i \in Ifaces, NEW sport \in SrcPorts, NEW dst, NEW proto,
           IPv6Nat64(i, sport, dst, proto)
    PROVE  PortInv'
<1> DEFINE src == [iface |-> i, fam |-> "v6", port |-> sport]
           ip == iface_nat[i].ip
           r == iface_nat[i].range
           Conn(p) == [src |-> src, dst |-> dst, proto |-> proto, ip |-> ip, port |-> p,
                       type |-> "LOCAL"]
<1>1. src \in Srcs
  BY Zenon DEF Srcs, Families
<1>2. r \in ValidRanges \cup {<<0, 0>>}
  BY Zenon DEF ConfigInv
<1>3. PICK a \in Allocations(src, dst, proto, ip, r) :
         /\ portmap' = a.portmap /\ overload' = a.overload
         /\ \/ /\ leaked' = a.leaked
               /\ conns' = IF a.port = 0 THEN conns ELSE conns \cup {Conn(a.port)}
            \/ /\ leaked' = a.leaked \cup {Key(ip, a.port, src, dst, proto)}
               /\ a.port # 0 /\ conns' = conns
  BY Zenon DEF IPv6Nat64
<1>4. PICK port : /\ AllocationOK(a, Key(ip, port, src, dst, proto))
                  /\ a.port # 0 => a.port = port
  BY <1>1, <1>2, AllocationOutcome
<1>5. /\ Conn(port).type = "LOCAL"
      /\ KeyOf(Conn(port)) = Key(ip, port, src, dst, proto)
  BY Zenon DEF KeyOf
<1> HIDE DEF src, ip, r, Conn
<1>6. OverloadExact
  BY Zenon DEF PortInv
<1>7. OverloadExact'
  <2>1. CASE a.port # 0 /\ conns' = conns
             /\ leaked' = a.leaked \cup {Key(ip, a.port, src, dst, proto)}
    BY <2>1, <1>3, <1>4, <1>6, KeyLeaked, Zenon DEF AllocationOK
  <2>2. CASE a.port # 0 /\ leaked' = a.leaked /\ conns' = conns \cup {Conn(a.port)}
    BY <2>2, <1>3, <1>4, <1>5, <1>6, ConnAdded, Zenon DEF AllocationOK
  <2>3. CASE a.port = 0 /\ a.overload = overload /\ a.leaked = leaked
    BY <2>3, <1>3, <1>6, Zenon DEF OverloadExact, Local
  <2>4. CASE a.port = 0 /\ ~(a.overload = overload /\ a.leaked = leaked)
    BY <2>4, <1>3, <1>4, <1>6, KeyLeaked, Zenon DEF AllocationOK
  <2> QED
    BY <1>3, <2>1, <2>2, <2>3, <2>4, Zenon
<1> QED
  BY <1>3, <1>4, <1>7, Zenon DEF PortInv, AllocationOK

\* Every step keeps the port tables exact.
LEMMA PortStep ==
    ASSUME ConfigInv, PortInv, [Next]_vars
    PROVE  PortInv'
<1>1. CASE UNCHANGED <<ports, conns>>
  BY <1>1, Zenon DEF ports, PortInv, OverloadExact, Local
<1>2. ASSUME NEW cs \in SUBSET conns, FreeConns(cs) PROVE PortInv'
  BY <1>2, ConnsFreed, Zenon
<1>3. CASE Request
  <2>1. ASSUME NEW i \in Ifaces, DeleteVip(i) PROVE PortInv'
    BY <2>1, <1>2, Zenon DEF DeleteVip
  <2>2. ASSUME NEW i \in Ifaces, DeleteNat(i) PROVE PortInv'
    BY <2>2, <1>2, Zenon DEF DeleteNat
  <2>3. ASSUME NEW ip \in NatIps, NEW r \in ValidRanges, DeleteNeighNat(ip, r) PROVE PortInv'
    BY <2>3, <1>2, Zenon DEF DeleteNeighNat
  <2>4. ASSUME NEW i \in Ifaces, RecreateInterface(i) PROVE PortInv'
    BY <2>4, <1>2, Zenon DEF RecreateInterface
  <2>5. ASSUME NEW i \in Ifaces, NEW ip \in VipIps, CreateVip(i, ip) PROVE UNCHANGED <<ports, conns>>
    BY <2>5, Zenon DEF CreateVip
  <2>6. ASSUME NEW i \in Ifaces, NEW ip \in NatIps, NEW r \in ValidRanges, CreateNat(i, ip, r)
        PROVE UNCHANGED <<ports, conns>>
    BY <2>6, Zenon DEF CreateNat
  <2>7. ASSUME NEW ip \in NatIps, NEW r \in ValidRanges, CreateNeighNat(ip, r)
        PROVE UNCHANGED <<ports, conns>>
    BY <2>7, Zenon DEF CreateNeighNat
  <2>8. ForgetNeighbours => UNCHANGED <<ports, conns>>
    BY Zenon DEF ForgetNeighbours
  <2> QED
    BY <1>1, <1>3, <2>1, <2>2, <2>3, <2>4, <2>5, <2>6, <2>7, <2>8, Zenon DEF Request
<1>4. CASE Packet
  <2>1. ASSUME NEW c \in conns, AgeOut(c) PROVE PortInv'
    BY <2>1, <1>2, Zenon DEF AgeOut
  <2> QED
    BY <1>4, <2>1, SnatStep, Nat64Step, Zenon DEF Packet
<1>5. CASE UNCHANGED vars
  BY <1>1, <1>5, Zenon DEF vars
<1> QED
  BY <1>3, <1>4, <1>5, Zenon DEF Next

-----------------------------------------------------------------------------
\* The configuration.

\* A new underlay address carries its interface and type.
LEMMA FreshFields ==
    ASSUME NEW i, NEW type
    PROVE  FreshUnderlay(i, type).iface = i /\ FreshUnderlay(i, type).type = type
  BY Zenon DEF FreshUnderlay

\* The underlay addresses in use by other interfaces do not change when one
\* interface's row does.
UlOf(sn, js) ==
    {sn[j].ul_vip : j \in {k \in js : sn[k].vip_ip # None}}
    \cup {sn[j].ul_nat : j \in {k \in js : sn[k].nat_ip # None}}

\* The addresses of one interface and those of the others are all of them.
LEMMA UlSplit ==
    ASSUME NEW sn, NEW i \in Ifaces
    PROVE  /\ UlOf(sn, Ifaces) = UlOf(sn, Ifaces \ {i}) \cup UlOf(sn, {i})
           /\ UlOf(sn, {i}) = (IF sn[i].vip_ip # None THEN {sn[i].ul_vip} ELSE {})
                              \cup (IF sn[i].nat_ip # None THEN {sn[i].ul_nat} ELSE {})
  BY Zenon DEF UlOf

\* The addresses of the other interfaces are not those of this one, and stay
\* when only its row changes.
LEMMA UlOthers ==
    ASSUME ConfigInv, NEW i \in Ifaces, NEW row
    PROVE  /\ UlOf([snat EXCEPT ![i] = row], Ifaces \ {i}) = UlOf(snat, Ifaces \ {i})
           /\ \A u \in UlOf(snat, Ifaces \ {i}) : u.iface # i
           /\ [snat EXCEPT ![i] = row][i] = row
<1>1. \A j \in Ifaces \ {i} : [snat EXCEPT ![i] = row][j] = snat[j]
  BY Zenon DEF ConfigInv
<1>2. UlOf([snat EXCEPT ![i] = row], Ifaces \ {i}) = UlOf(snat, Ifaces \ {i})
  <2> DEFINE sn == [snat EXCEPT ![i] = row]
  <2>1. \A j \in Ifaces \ {i} : sn[j] = snat[j]
    BY <1>1, Zenon
  <2> HIDE DEF sn
  <2> QED
    BY <2>1 DEF UlOf
<1>3. \A u \in UlOf(snat, Ifaces \ {i}) : u.iface # i
  BY DEF UlOf, ConfigInv, RowOK
<1>4. [snat EXCEPT ![i] = row][i] = row
  BY Zenon DEF ConfigInv
<1> QED
  BY <1>2, <1>3, <1>4, Zenon

\* The later of two changes to one row counts.
LEMMA Overwritten ==
    ASSUME ConfigInv, NEW i \in Ifaces, NEW row, NEW again
    PROVE  [[snat EXCEPT ![i] = row] EXCEPT ![i] = again] = [snat EXCEPT ![i] = again]
  BY Zenon DEF ConfigInv

\* A step that changes one row, and the addresses in use with it.
LEMMA RowChanged ==
    ASSUME ConfigInv, NEW i \in Ifaces, NEW row,
           snat' = [snat EXCEPT ![i] = row],
           row.vip_ip \in VipIps \cup {None}, row.nat_ip \in NatIps \cup {None},
           row.range \in ValidRanges \cup {<<0, 0>>},
           row.vip_ip # None => row.ul_vip.iface = i /\ row.ul_vip.type = "VIP",
           row.nat_ip # None => row.ul_nat.iface = i /\ row.ul_nat.type = "NAT",
           vnfs' = UlOf(snat, Ifaces \ {i})
                   \cup (IF row.vip_ip # None THEN {row.ul_vip} ELSE {})
                   \cup (IF row.nat_ip # None THEN {row.ul_nat} ELSE {}),
           iface_nat' \in [Ifaces -> [ip : NatIps \cup {None},
                                      range : ValidRanges \cup {<<0, 0>>}]]
    PROVE  ConfigInv'
<1>1. snat' = [j \in Ifaces |-> snat'[j]] /\ snat'[i] = row
      /\ \A j \in Ifaces \ {i} : snat'[j] = snat[j]
  BY Zenon DEF ConfigInv
<1>2. \A j \in Ifaces : RowOK(j)'
  BY <1>1, Zenon DEF ConfigInv, RowOK
<1>3. vnfs' = UlOf(snat', Ifaces)
  <2> DEFINE sn == snat'
  <2>1. sn = [snat EXCEPT ![i] = row]
    BY Zenon
  <2>2. UlOf(sn, Ifaces \ {i}) = UlOf(snat, Ifaces \ {i})
    <3>1. UlOf([snat EXCEPT ![i] = row], Ifaces \ {i}) = UlOf(snat, Ifaces \ {i})
      BY UlOthers, Zenon
    <3> HIDE DEF sn
    <3> QED
      BY <2>1, <3>1, Zenon
  <2>3. sn[i] = row
    BY <1>1, Zenon
  <2> HIDE DEF sn
  <2>4. /\ UlOf(sn, Ifaces) = UlOf(sn, Ifaces \ {i}) \cup UlOf(sn, {i})
        /\ UlOf(sn, {i}) = (IF sn[i].vip_ip # None THEN {sn[i].ul_vip} ELSE {})
                           \cup (IF sn[i].nat_ip # None THEN {sn[i].ul_nat} ELSE {})
    BY UlSplit, Zenon
  <2>5. UlOf(sn, Ifaces) = UlOf(snat, Ifaces \ {i})
                           \cup (IF row.vip_ip # None THEN {row.ul_vip} ELSE {})
                           \cup (IF row.nat_ip # None THEN {row.ul_nat} ELSE {})
    BY <2>2, <2>3, <2>4, Zenon
  <2> QED
    BY <2>5, Zenon DEF sn
<1> QED
  BY <1>1, <1>2, <1>3, Zenon DEF ConfigInv, UlOf

\* The addresses in use, split at an interface.
LEMMA VnfsSplit ==
    ASSUME ConfigInv, NEW i \in Ifaces
    PROVE  /\ vnfs = UlOf(snat, Ifaces \ {i})
                     \cup (IF snat[i].vip_ip # None THEN {snat[i].ul_vip} ELSE {})
                     \cup (IF snat[i].nat_ip # None THEN {snat[i].ul_nat} ELSE {})
           /\ RowOK(i)
           /\ \A u \in UlOf(snat, Ifaces \ {i}) : u.iface # i
<1>1. vnfs = UlOf(snat, Ifaces)
  BY Zenon DEF ConfigInv, UlOf
<1> QED
  <2>1. /\ UlOf(snat, Ifaces) = UlOf(snat, Ifaces \ {i}) \cup UlOf(snat, {i})
        /\ UlOf(snat, {i}) = (IF snat[i].vip_ip # None THEN {snat[i].ul_vip} ELSE {})
                             \cup (IF snat[i].nat_ip # None THEN {snat[i].ul_nat} ELSE {})
    BY UlSplit, Zenon
  <2>2. \A u \in UlOf(snat, Ifaces \ {i}) : u.iface # i
    BY UlOthers, Zenon
  <2>3. RowOK(i)
    BY Zenon DEF ConfigInv
  <2> QED
    BY <1>1, <2>1, <2>2, <2>3, Zenon

\* dp_process_create_vip keeps the configuration and its underlay addresses.
LEMMA CreateVipStep ==
    ASSUME ConfigInv, NEW i \in Ifaces, NEW ip \in VipIps, CreateVip(i, ip)
    PROVE  ConfigInv'
<1> DEFINE ul == FreshUnderlay(i, "VIP")
           old == snat[i]
           set == [vip_ip |-> ip, nat_ip |-> old.nat_ip, range |-> old.range,
                   ul_vip |-> ul, ul_nat |-> old.ul_nat]
           back == IF old.nat_ip = None THEN NoSnat
                   ELSE [vip_ip |-> None, nat_ip |-> old.nat_ip, range |-> old.range,
                         ul_vip |-> ul, ul_nat |-> old.ul_nat]
<1>1. ul.iface = i /\ ul.type = "VIP"
  BY FreshFields, Zenon
<1>2. SetVip(snat, i, ip, ul) = [snat EXCEPT ![i] = set]
  BY Zenon DEF SetVip
<1>3. DelVip(SetVip(snat, i, ip, ul), i) = [snat EXCEPT ![i] = back]
  <2> DEFINE sn == [snat EXCEPT ![i] = set]
  <2>1. DelVip(sn, i) = [sn EXCEPT ![i] = IF sn[i].nat_ip = None THEN NoSnat
                           ELSE [vip_ip |-> None, nat_ip |-> sn[i].nat_ip,
                                 range |-> sn[i].range, ul_vip |-> sn[i].ul_vip,
                                 ul_nat |-> sn[i].ul_nat]]
    BY Zenon DEF DelVip
  <2>2. sn[i] = set
    <3> HIDE DEF set
    <3> QED
      BY Zenon DEF ConfigInv
  <2>3. DelVip(sn, i) = [sn EXCEPT ![i] = back]
    BY <2>1, <2>2, Zenon
  <2> QED
    BY <1>2, <2>3, Overwritten, Zenon
<1>4. iface_nat' \in [Ifaces -> [ip : NatIps \cup {None}, range : ValidRanges \cup {<<0, 0>>}]]
  BY Zenon DEF ConfigInv, CreateVip
<1>5. \/ UNCHANGED <<snat, vnfs>>
      \/ old.vip_ip = None /\ snat' = [snat EXCEPT ![i] = set] /\ vnfs' = vnfs \cup {ul}
      \/ old.vip_ip = None /\ snat' = [snat EXCEPT ![i] = back] /\ vnfs' = vnfs
  BY <1>2, <1>3, Zenon DEF CreateVip
<1> HIDE DEF ul
<1>6. CASE UNCHANGED <<snat, vnfs>>
  BY <1>4, <1>6 DEF ConfigInv, RowOK
<1>7. CASE old.vip_ip = None /\ snat' = [snat EXCEPT ![i] = set] /\ vnfs' = vnfs \cup {ul}
  <2>1. vnfs' = UlOf(snat, Ifaces \ {i})
                \cup (IF set.vip_ip # None THEN {set.ul_vip} ELSE {})
                \cup (IF set.nat_ip # None THEN {set.ul_nat} ELSE {})
    BY <1>7, VnfsSplit, ConstantsAssumption, Zenon
  <2>2. /\ set.vip_ip \in VipIps \cup {None} /\ set.nat_ip \in NatIps \cup {None}
        /\ set.range \in ValidRanges \cup {<<0, 0>>}
        /\ set.vip_ip # None => set.ul_vip.iface = i /\ set.ul_vip.type = "VIP"
        /\ set.nat_ip # None => set.ul_nat.iface = i /\ set.ul_nat.type = "NAT"
    BY <1>1, VnfsSplit, Zenon DEF RowOK
  <2> HIDE DEF set
  <2> QED
    BY <1>4, <1>7, <2>1, <2>2, RowChanged, Zenon
<1>8. CASE old.vip_ip = None /\ snat' = [snat EXCEPT ![i] = back] /\ vnfs' = vnfs
  <2>1. vnfs' = UlOf(snat, Ifaces \ {i})
                \cup (IF back.vip_ip # None THEN {back.ul_vip} ELSE {})
                \cup (IF back.nat_ip # None THEN {back.ul_nat} ELSE {})
    BY <1>8, VnfsSplit, Zenon DEF NoSnat
  <2>2. /\ back.vip_ip \in VipIps \cup {None} /\ back.nat_ip \in NatIps \cup {None}
        /\ back.range \in ValidRanges \cup {<<0, 0>>}
        /\ back.vip_ip # None => back.ul_vip.iface = i /\ back.ul_vip.type = "VIP"
        /\ back.nat_ip # None => back.ul_nat.iface = i /\ back.ul_nat.type = "NAT"
    BY <1>1, VnfsSplit, Zenon DEF RowOK, NoSnat
  <2> HIDE DEF back
  <2> QED
    BY <1>4, <1>8, <2>1, <2>2, RowChanged, Zenon
<1> QED
  BY <1>5, <1>6, <1>7, <1>8, Zenon

\* dp_process_create_nat keeps the configuration and its underlay addresses.
LEMMA CreateNatStep ==
    ASSUME ConfigInv, NEW i \in Ifaces, NEW ip \in NatIps, NEW r \in ValidRanges,
           CreateNat(i, ip, r)
    PROVE  ConfigInv'
<1> DEFINE ul == FreshUnderlay(i, "NAT")
           old == snat[i]
           set == [vip_ip |-> old.vip_ip, nat_ip |-> ip, range |-> r,
                   ul_vip |-> old.ul_vip, ul_nat |-> ul]
           back == IF old.vip_ip = None THEN NoSnat
                   ELSE [vip_ip |-> old.vip_ip, nat_ip |-> None, range |-> <<0, 0>>,
                         ul_vip |-> old.ul_vip, ul_nat |-> ul]
<1>1. ul.iface = i /\ ul.type = "NAT"
  BY FreshFields, Zenon
<1>2. SetNat(snat, i, ip, r, ul) = [snat EXCEPT ![i] = set]
  BY Zenon DEF SetNat
<1>3. DelNat(SetNat(snat, i, ip, r, ul), i) = [snat EXCEPT ![i] = back]
  <2> DEFINE sn == [snat EXCEPT ![i] = set]
  <2>1. DelNat(sn, i) = [sn EXCEPT ![i] = IF sn[i].vip_ip = None THEN NoSnat
                           ELSE [vip_ip |-> sn[i].vip_ip, nat_ip |-> None,
                                 range |-> <<0, 0>>, ul_vip |-> sn[i].ul_vip,
                                 ul_nat |-> sn[i].ul_nat]]
    BY Zenon DEF DelNat
  <2>2. sn[i] = set
    <3> HIDE DEF set
    <3> QED
      BY Zenon DEF ConfigInv
  <2>3. sn[i].vip_ip = old.vip_ip /\ sn[i].ul_vip = old.ul_vip /\ sn[i].ul_nat = ul
    <3> HIDE DEF sn, old, ul
    <3> QED
      BY <2>2
  <2> HIDE DEF sn, old, ul
  <2>4. DelNat(sn, i) = [sn EXCEPT ![i] = back]
    BY <2>1, <2>3, Zenon
  <2> QED
    BY <1>2, <2>4, Overwritten, Zenon DEF sn
<1>4. \/ UNCHANGED <<snat, vnfs, iface_nat>>
      \/ /\ old.nat_ip = None /\ snat' = [snat EXCEPT ![i] = set] /\ vnfs' = vnfs \cup {ul}
         /\ iface_nat' = [iface_nat EXCEPT ![i] = [ip |-> ip, range |-> r]]
      \/ /\ old.nat_ip = None /\ snat' = [snat EXCEPT ![i] = back]
         /\ UNCHANGED <<vnfs, iface_nat>>
  BY <1>2, <1>3, Zenon DEF CreateNat
<1> HIDE DEF ul
<1>5. iface_nat' \in [Ifaces -> [ip : NatIps \cup {None}, range : ValidRanges \cup {<<0, 0>>}]]
  BY <1>4 DEF ConfigInv
<1>6. CASE UNCHANGED <<snat, vnfs, iface_nat>>
  BY <1>6 DEF ConfigInv, RowOK
<1>7. CASE old.nat_ip = None /\ snat' = [snat EXCEPT ![i] = set] /\ vnfs' = vnfs \cup {ul}
  <2>1. vnfs' = UlOf(snat, Ifaces \ {i})
                \cup (IF set.vip_ip # None THEN {set.ul_vip} ELSE {})
                \cup (IF set.nat_ip # None THEN {set.ul_nat} ELSE {})
    BY <1>7, VnfsSplit, ConstantsAssumption, Zenon
  <2>2. /\ set.vip_ip \in VipIps \cup {None} /\ set.nat_ip \in NatIps \cup {None}
        /\ set.range \in ValidRanges \cup {<<0, 0>>}
        /\ set.vip_ip # None => set.ul_vip.iface = i /\ set.ul_vip.type = "VIP"
        /\ set.nat_ip # None => set.ul_nat.iface = i /\ set.ul_nat.type = "NAT"
    BY <1>1, VnfsSplit, Zenon DEF RowOK
  <2> HIDE DEF set
  <2> QED
    BY <1>5, <1>7, <2>1, <2>2, RowChanged, Zenon
<1>8. CASE old.nat_ip = None /\ snat' = [snat EXCEPT ![i] = back] /\ vnfs' = vnfs
  <2>1. vnfs' = UlOf(snat, Ifaces \ {i})
                \cup (IF back.vip_ip # None THEN {back.ul_vip} ELSE {})
                \cup (IF back.nat_ip # None THEN {back.ul_nat} ELSE {})
    BY <1>8, VnfsSplit, Zenon DEF NoSnat
  <2>2. /\ back.vip_ip \in VipIps \cup {None} /\ back.nat_ip \in NatIps \cup {None}
        /\ back.range \in ValidRanges \cup {<<0, 0>>}
        /\ back.vip_ip # None => back.ul_vip.iface = i /\ back.ul_vip.type = "VIP"
        /\ back.nat_ip # None => back.ul_nat.iface = i /\ back.ul_nat.type = "NAT"
    BY <1>1, VnfsSplit, Zenon DEF RowOK, NoSnat
  <2> HIDE DEF back
  <2> QED
    BY <1>5, <1>8, <2>1, <2>2, RowChanged, Zenon
<1> QED
  BY <1>4, <1>6, <1>7, <1>8, Zenon

\* dp_process_delete_vip takes away the underlay address of the virtual IP only.
LEMMA DeleteVipStep ==
    ASSUME ConfigInv, NEW i \in Ifaces, DeleteVip(i)
    PROVE  ConfigInv'
<1> DEFINE old == snat[i]
           row == IF old.nat_ip = None THEN NoSnat
                  ELSE [vip_ip |-> None, nat_ip |-> old.nat_ip, range |-> old.range,
                        ul_vip |-> old.ul_vip, ul_nat |-> old.ul_nat]
<1>1. /\ old.vip_ip # None
      /\ snat' = [snat EXCEPT ![i] = row]
      /\ vnfs' = vnfs \ {old.ul_vip}
      /\ iface_nat' = iface_nat
  BY Zenon DEF DeleteVip, DelVip
<1>2. vnfs' = UlOf(snat, Ifaces \ {i})
              \cup (IF row.vip_ip # None THEN {row.ul_vip} ELSE {})
              \cup (IF row.nat_ip # None THEN {row.ul_nat} ELSE {})
  <2>1. row.vip_ip = None /\ row.nat_ip = old.nat_ip
        /\ (row.nat_ip # None => row.ul_nat = old.ul_nat)
    BY Zenon DEF NoSnat
  <2>2. old.vip_ip # None => old.ul_vip.iface = i /\ old.ul_vip.type = "VIP"
    BY VnfsSplit, Zenon DEF RowOK
  <2>3. old.nat_ip # None => old.ul_nat.type = "NAT"
    BY VnfsSplit, Zenon DEF RowOK
  <2>4. old.ul_vip \notin UlOf(snat, Ifaces \ {i})
    BY <1>1, <2>2, VnfsSplit, Zenon
  <2>5. vnfs = UlOf(snat, Ifaces \ {i})
               \cup {old.ul_vip} \cup (IF old.nat_ip # None THEN {old.ul_nat} ELSE {})
    BY <1>1, VnfsSplit, Zenon
  <2>6. old.nat_ip # None => old.ul_vip # old.ul_nat
    BY <1>1, <2>2, <2>3, Zenon
  <2> HIDE DEF row, old
  <2> QED
    BY <1>1, <2>1, <2>4, <2>5, <2>6, Zenon
<1>3. /\ row.vip_ip \in VipIps \cup {None} /\ row.nat_ip \in NatIps \cup {None}
      /\ row.range \in ValidRanges \cup {<<0, 0>>}
      /\ row.vip_ip # None => row.ul_vip.iface = i /\ row.ul_vip.type = "VIP"
      /\ row.nat_ip # None => row.ul_nat.iface = i /\ row.ul_nat.type = "NAT"
  BY VnfsSplit, Zenon DEF RowOK, NoSnat
<1>4. iface_nat' \in [Ifaces -> [ip : NatIps \cup {None}, range : ValidRanges \cup {<<0, 0>>}]]
  BY <1>1, Zenon DEF ConfigInv
<1> HIDE DEF row
<1> QED
  BY <1>1, <1>2, <1>3, <1>4, RowChanged, Zenon

\* dp_process_delete_nat takes away the underlay address of the NAT only.
LEMMA DeleteNatStep ==
    ASSUME ConfigInv, NEW i \in Ifaces, DeleteNat(i)
    PROVE  ConfigInv'
<1> DEFINE old == snat[i]
           row == IF old.vip_ip = None THEN NoSnat
                  ELSE [vip_ip |-> old.vip_ip, nat_ip |-> None, range |-> <<0, 0>>,
                        ul_vip |-> old.ul_vip, ul_nat |-> old.ul_nat]
<1>1. /\ old.nat_ip # None
      /\ snat' = [snat EXCEPT ![i] = row]
      /\ vnfs' = vnfs \ {old.ul_nat}
      /\ iface_nat' = [iface_nat EXCEPT ![i] = [ip |-> None, range |-> <<0, 0>>]]
  BY Zenon DEF DeleteNat, DelNat
<1>2. vnfs' = UlOf(snat, Ifaces \ {i})
              \cup (IF row.vip_ip # None THEN {row.ul_vip} ELSE {})
              \cup (IF row.nat_ip # None THEN {row.ul_nat} ELSE {})
  <2>1. row.nat_ip = None /\ row.vip_ip = old.vip_ip
        /\ (row.vip_ip # None => row.ul_vip = old.ul_vip)
    BY Zenon DEF NoSnat
  <2>2. old.nat_ip # None => old.ul_nat.iface = i /\ old.ul_nat.type = "NAT"
    BY VnfsSplit, Zenon DEF RowOK
  <2>3. old.vip_ip # None => old.ul_vip.type = "VIP"
    BY VnfsSplit, Zenon DEF RowOK
  <2>4. old.ul_nat \notin UlOf(snat, Ifaces \ {i})
    BY <1>1, <2>2, VnfsSplit, Zenon
  <2>5. vnfs = UlOf(snat, Ifaces \ {i})
               \cup (IF old.vip_ip # None THEN {old.ul_vip} ELSE {}) \cup {old.ul_nat}
    BY <1>1, VnfsSplit, Zenon
  <2>6. old.vip_ip # None => old.ul_vip # old.ul_nat
    BY <1>1, <2>2, <2>3, Zenon
  <2> HIDE DEF row, old
  <2> QED
    BY <1>1, <2>1, <2>4, <2>5, <2>6, Zenon
<1>3. /\ row.vip_ip \in VipIps \cup {None} /\ row.nat_ip \in NatIps \cup {None}
      /\ row.range \in ValidRanges \cup {<<0, 0>>}
      /\ row.vip_ip # None => row.ul_vip.iface = i /\ row.ul_vip.type = "VIP"
      /\ row.nat_ip # None => row.ul_nat.iface = i /\ row.ul_nat.type = "NAT"
  BY VnfsSplit, Zenon DEF RowOK, NoSnat
<1>4. iface_nat' \in [Ifaces -> [ip : NatIps \cup {None}, range : ValidRanges \cup {<<0, 0>>}]]
  BY <1>1, Zenon DEF ConfigInv
<1> HIDE DEF row
<1> QED
  BY <1>1, <1>2, <1>3, <1>4, RowChanged, Zenon

\* Packets leave the configuration alone.
LEMMA PacketConfig == Packet => UNCHANGED config
<1>1. ASSUME NEW i, NEW p, NEW d, NEW proto, IPv4Snat(i, p, d, proto) PROVE UNCHANGED config
  BY <1>1, Zenon DEF IPv4Snat
<1>2. ASSUME NEW i, NEW p, NEW d, NEW proto, IPv6Nat64(i, p, d, proto) PROVE UNCHANGED config
  BY <1>2, Zenon DEF IPv6Nat64
<1>3. ASSUME NEW c, AgeOut(c) PROVE UNCHANGED config
  BY <1>3, Zenon DEF AgeOut
<1> QED
  BY <1>1, <1>2, <1>3, Zenon DEF Packet

\* Every step keeps the configuration and its underlay addresses.
LEMMA ConfigStep ==
    ASSUME ConfigInv, [Next]_vars
    PROVE  ConfigInv'
<1>1. ASSUME UNCHANGED <<snat, vnfs>>,
             iface_nat' \in [Ifaces -> [ip : NatIps \cup {None},
                                        range : ValidRanges \cup {<<0, 0>>}]]
      PROVE  ConfigInv'
  BY <1>1 DEF ConfigInv, RowOK
<1>2. CASE UNCHANGED config
  BY <1>1, <1>2, Zenon DEF config, ConfigInv
<1>3. CASE Request
  <2>1. ASSUME NEW ip \in NatIps, NEW r \in ValidRanges, CreateNeighNat(ip, r) PROVE ConfigInv'
    BY <2>1, <1>1, Zenon DEF CreateNeighNat, ConfigInv
  <2>2. ASSUME NEW ip \in NatIps, NEW r \in ValidRanges, DeleteNeighNat(ip, r) PROVE ConfigInv'
    BY <2>2, <1>1, Zenon DEF DeleteNeighNat, ConfigInv
  <2>3. ForgetNeighbours => ConfigInv'
    BY <1>1, Zenon DEF ForgetNeighbours, ConfigInv
  <2>4. ASSUME NEW i \in Ifaces, RecreateInterface(i) PROVE ConfigInv'
    <3>1. /\ UNCHANGED <<snat, vnfs>>
          /\ iface_nat' = [iface_nat EXCEPT ![i] = [ip |-> None, range |-> <<0, 0>>]]
      BY <2>4, Zenon DEF RecreateInterface
    <3> QED
      BY <3>1, <1>1, Zenon DEF ConfigInv
  <2> QED
    BY <1>3, <2>1, <2>2, <2>3, <2>4, CreateVipStep, CreateNatStep, DeleteVipStep,
       DeleteNatStep, Zenon DEF Request
<1>4. CASE Packet
  BY <1>2, <1>4, PacketConfig, Zenon
<1>5. CASE UNCHANGED vars
  BY <1>5, <1>2, Zenon DEF vars
<1> QED
  BY <1>3, <1>4, <1>5, Zenon DEF Next

-----------------------------------------------------------------------------
\* The neighbours.

\* The address has an entry in the list.
Listed(a, list) == \E e \in Range(list) : e.ip = a

\* What is left of the DNAT table when an address is deleted from it.
LEMMA DnatShape ==
    ASSUME NEW list, NEW ip, dnat = [x \in VipIps \cup NatIps |-> dnat[x]]
    PROVE  /\ DelVipFromDnat(ip, list) =
                [x \in VipIps \cup NatIps |-> DelVipFromDnat(ip, list)[x]]
           /\ \A x \in VipIps \cup NatIps : DelVipFromDnat(ip, list)[x] \in {None, dnat[x]}
  BY Zenon DEF DelVipFromDnat

\* Every step keeps the DNAT entry of each neighbour's address.
LEMMA NeighStep ==
    ASSUME ConfigInv, NeighInv, [Next]_vars
    PROVE  NeighInv'
<1>1. CASE UNCHANGED <<dnat, neigh>>
  BY <1>1, Zenon DEF NeighInv
<1> neigh \in Seq(Entries)
  BY Zenon DEF NeighInv
<1>0. dnat = [x \in VipIps \cup NatIps |-> dnat[x]]
  BY Zenon DEF NeighInv
<1>2. ASSUME NEW k \in 1..Len(neigh) PROVE neigh[k].ip \in NatIps
  <2>1. neigh[k] \in Entries
    OBVIOUS
  <2> QED
    BY <2>1, Zenon DEF Entries
<1>3. ASSUME NEW i \in Ifaces, NEW ip \in VipIps, CreateVip(i, ip) PROVE NeighInv'
  <2>1. neigh' = neigh /\ (dnat' = dnat \/ dnat' = [dnat EXCEPT ![ip] = i])
    BY <1>3 DEF CreateVip, SetDnat
  <2> QED
    BY <1>2, <2>1, Zenon DEF NeighInv
<1>4. ASSUME NEW i \in Ifaces, DeleteVip(i) PROVE NeighInv'
  <2>1. neigh' = neigh /\ dnat' = [dnat EXCEPT ![snat[i].vip_ip] = None]
        /\ snat[i].vip_ip \in VipIps
    BY <1>4, Zenon DEF DeleteVip, ConfigInv, RowOK
  <2> QED
    BY <1>2, <2>1, Zenon DEF NeighInv
<1>5. ASSUME NEW i \in Ifaces, NEW ip \in NatIps, NEW r \in ValidRanges, CreateNat(i, ip, r)
      PROVE  NeighInv'
  <2>1. neigh' = neigh /\ (dnat' = dnat \/ dnat' = [dnat EXCEPT ![ip] = "NAT"])
    BY <1>5 DEF CreateNat, SetDnat
  <2> QED
    BY <1>2, <2>1, Zenon DEF NeighInv
<1>6. ASSUME NEW i \in Ifaces, DeleteNat(i) PROVE NeighInv'
  <2>1. neigh' = neigh /\ dnat' = DelVipFromDnat(snat[i].nat_ip, neigh)
    BY <1>6, Zenon DEF DeleteNat
  <2>2. ASSUME NEW k \in 1..Len(neigh) PROVE dnat'[neigh[k].ip] = dnat[neigh[k].ip]
    <3>1. neigh[k].ip \in VipIps \cup NatIps
      BY <1>2, Zenon
    <3>2. Listed(neigh[k].ip, neigh)
      <4>1. neigh[k] \in Range(neigh)
        BY DEF Range
      <4> QED
        BY <4>1, Zenon DEF Listed
    <3> DEFINE a == neigh[k].ip
               nat_ip == snat[i].nat_ip
    <3> HIDE DEF a, nat_ip
    <3>3. DelVipFromDnat(nat_ip, neigh)[a] = dnat[a]
      BY <1>0, <3>1, <3>2, Zenon DEF a, DelVipFromDnat, Listed
    <3> QED
      BY <2>1, <3>3, Zenon DEF a, nat_ip
  <2>3. /\ dnat' = [x \in VipIps \cup NatIps |-> dnat'[x]]
        /\ \A x \in VipIps \cup NatIps : dnat'[x] \in {None, dnat[x]}
    BY <1>0, <2>1, DnatShape, Zenon
  <2> QED
    BY <2>1, <2>2, <2>3, Zenon DEF NeighInv
<1>7. ASSUME NEW ip \in NatIps, NEW r \in ValidRanges, CreateNeighNat(ip, r) PROVE NeighInv'
  <2> DEFINE e == [ip |-> ip, range |-> r]
  <2>1. PICK d \in SetDnat(ip, "NAT") :
           dnat' = d[2] /\ neigh' = IF d[1] = "CREATE" THEN neigh ELSE Append(neigh, e)
    BY <1>7, Zenon DEF CreateNeighNat
  <2>2. \/ d[1] = "EXISTS" /\ d[2] = dnat /\ dnat[ip] # None
        \/ d[1] = "OK" /\ d[2] = [dnat EXCEPT ![ip] = "NAT"]
        \/ d[1] = "CREATE" /\ d[2] = dnat
    BY DEF SetDnat
  <2>3. e \in Entries /\ e.ip = ip
    BY Zenon DEF Entries
  <2> HIDE DEF e
  <2>4. CASE d[1] = "CREATE"
    BY <1>1, <2>1, <2>2, <2>4, Zenon
  <2>5. CASE d[1] # "CREATE"
    <3>1. neigh' = Append(neigh, e)
      BY <2>1, <2>5, Zenon
    <3>2. /\ neigh' \in Seq(Entries) /\ Len(neigh') = Len(neigh) + 1
          /\ neigh'[Len(neigh) + 1] = e /\ \A k \in 1..Len(neigh) : neigh'[k] = neigh[k]
      BY <2>3, <3>1 DEF NeighInv
    <3>3. /\ dnat' = [x \in VipIps \cup NatIps |-> dnat'[x]]
          /\ \A x \in NatIps \ VipIps : dnat'[x] \in {None, "NAT"}
          /\ ip \notin VipIps => dnat'[ip] = "NAT"
          /\ \A x \in NatIps : dnat[x] = "NAT" => dnat'[x] = "NAT"
      BY <2>1, <2>2, <2>5, Zenon DEF NeighInv
    <3>4. ASSUME NEW k \in 1..Len(neigh'), neigh'[k].ip \notin VipIps
          PROVE  dnat'[neigh'[k].ip] = "NAT"
      <4>1. CASE k = Len(neigh) + 1
        BY <2>3, <3>2, <3>3, <3>4, <4>1, Zenon
      <4>2. CASE k \in 1..Len(neigh)
        BY <1>2, <3>2, <3>3, <3>4, <4>2, Zenon DEF NeighInv
      <4> QED
        BY <3>2, <4>1, <4>2
    <3> QED
      BY <3>2, <3>3, <3>4, Zenon DEF NeighInv
  <2> QED
    BY <2>4, <2>5, Zenon
<1>8. ASSUME NEW ip \in NatIps, NEW r \in ValidRanges, DeleteNeighNat(ip, r) PROVE NeighInv'
  <2>1. /\ Positions(ip, r) # {} /\ neigh' = RemoveAt(neigh, Min(Positions(ip, r)))
        /\ dnat' = DelVipFromDnat(ip, neigh')
    BY <1>8, Zenon DEF DeleteNeighNat
  <2>2. Positions(ip, r) \in SUBSET (1..Len(neigh)) /\ Positions(ip, r) \in SUBSET Nat
    BY DEF Positions, NeighInv
  <2>3. Min(Positions(ip, r)) \in 1..Len(neigh)
    BY <2>1, <2>2, MinInSet, Zenon
  <2>4. /\ neigh' \in Seq(Entries)
        /\ \A k \in 1..Len(neigh') : \E j \in 1..Len(neigh) : neigh'[k] = neigh[j]
    BY <2>1, <2>3, Removed
  <2>5. \A k \in 1..Len(neigh') : neigh'[k].ip \in NatIps
    BY <1>2, <2>4, Zenon
  <2>6. ASSUME NEW k \in 1..Len(neigh') PROVE dnat'[neigh'[k].ip] = dnat[neigh'[k].ip]
    <3>1. neigh'[k].ip \in VipIps \cup NatIps
      BY <2>5, Zenon
    <3>2. Listed(neigh'[k].ip, neigh')
      <4>1. neigh'[k] \in Range(neigh')
        BY <2>4 DEF Range
      <4> QED
        BY <4>1, Zenon DEF Listed
    <3> DEFINE a == neigh'[k].ip
    <3> HIDE DEF a
    <3>3. DelVipFromDnat(ip, neigh')[a] = dnat[a]
      BY <1>0, <3>1, <3>2, Zenon DEF a, DelVipFromDnat, Listed
    <3> QED
      BY <2>1, <3>3, Zenon DEF a
  <2>7. ASSUME NEW k \in 1..Len(neigh'), neigh'[k].ip \notin VipIps
        PROVE  dnat[neigh'[k].ip] = "NAT"
    <3>1. PICK j \in 1..Len(neigh) : neigh'[k] = neigh[j]
      BY <2>4, Zenon
    <3> QED
      BY <2>7, <3>1, Zenon DEF NeighInv
  <2>8. /\ dnat' = [x \in VipIps \cup NatIps |-> dnat'[x]]
        /\ \A x \in NatIps \ VipIps : dnat'[x] \in {None, "NAT"}
    <3> DEFINE d == DelVipFromDnat(ip, neigh')
    <3>1. /\ d = [x \in VipIps \cup NatIps |-> d[x]]
          /\ \A x \in VipIps \cup NatIps : d[x] \in {None, dnat[x]}
      BY <1>0, DnatShape, Zenon
    <3>2. dnat' = d
      BY <2>1, Zenon
    <3> HIDE DEF d
    <3>3. \A x \in NatIps \ VipIps : dnat[x] \in {None, "NAT"}
      BY Zenon DEF NeighInv
    <3> QED
      BY <3>1, <3>2, <3>3, Zenon
  <2> QED
    BY <2>4, <2>6, <2>7, <2>8, Zenon DEF NeighInv
<1>9. ForgetNeighbours => NeighInv'
  BY DEF ForgetNeighbours, NeighInv
<1>10. ASSUME NEW i \in Ifaces, RecreateInterface(i) PROVE UNCHANGED <<dnat, neigh>>
  BY <1>10, Zenon DEF RecreateInterface
<1>11. Packet => UNCHANGED <<dnat, neigh>>
  BY PacketConfig, Zenon DEF config
<1>12. UNCHANGED vars => UNCHANGED <<dnat, neigh>>
  BY Zenon DEF vars, config
<1> QED
  BY <1>1, <1>3, <1>4, <1>5, <1>6, <1>7, <1>8, <1>9, <1>10, <1>11, <1>12, Zenon DEF Next, Request

\* With its DNAT entry, a neighbour's port leads to an entry of the list.
LEMMA NeighbourFound ==
    ASSUME NeighInv, NEW k \in 1..Len(neigh), NEW ip, neigh[k].ip = ip,
           NEW p \in neigh[k].range[1]..(neigh[k].range[2] - 1)
    PROVE  NeighbourOf(ip, p) # None
<1> DEFINE hit == {j \in DOMAIN neigh : /\ neigh[j].ip = ip
                                        /\ neigh[j].range[1] <= p
                                        /\ p < neigh[j].range[2]}
<1>0. neigh[k] \in Entries
  BY DEF NeighInv
<1>1. neigh[k].range \in Nat \X Nat
  BY <1>0, ConstantsAssumption, Zenon DEF Entries, ValidRanges
<1>2. k \in hit
  BY <1>1 DEF NeighInv
<1>3. hit \in SUBSET Nat /\ hit \in SUBSET (1..Len(neigh))
  BY DEF NeighInv
<1>4. NeighbourOf(ip, p) = neigh[Min(hit)]
  BY <1>2, Zenon DEF NeighbourOf
<1> HIDE DEF hit
<1>5. Min(hit) \in 1..Len(neigh)
  BY <1>2, <1>3, MinInSet, Zenon
<1> QED
  BY <1>4, <1>5, ConstantsAssumption DEF NeighInv

-----------------------------------------------------------------------------
\* The counts of the portmap, and the bindings

\* How many connections can still be released before the entry goes: the count
\* is 0 when it wrapped around.
Uses(e) == IF e.flow_cnt = 0 THEN CntMod ELSE e.flow_cnt

ConnsOf(s) == {c \in Local(conns) : c.src = s}

\* PortmapBounded, for counts that may wrap around.
CountInv ==
    /\ IsFiniteSet(conns) /\ stuck \in [Srcs -> Nat]
    /\ \A s \in Srcs : portmap[s] # None =>
           /\ portmap[s].flow_cnt \in 0..(CntMod - 1)
           /\ Uses(portmap[s]) <= Cardinality(ConnsOf(s)) + stuck[s]

InRange(i, port) == snat[i].range[1] <= port /\ port < snat[i].range[2]

\* The interface has an address for NAT, and the source uses a port of its range
\* unless its count got stuck.
Bound(s, port) == snat[s.iface].nat_ip # None /\ (InRange(s.iface, port) \/ stuck[s] > 0)

\* BindingMatchesConfig, with what makes it inductive: the copy NAT64 uses is that
\* of the NAT table or empty, and the portmap has no port of an older range.
BindInv ==
    /\ \A i \in Ifaces : snat[i].nat_ip # None => snat[i].range \in ValidRanges
    /\ \A i \in Ifaces : iface_nat[i].ip # None =>
           snat[i].nat_ip = iface_nat[i].ip /\ snat[i].range = iface_nat[i].range
    /\ \A c \in conns :
           /\ c.src \in Srcs
           /\ c.type = "VIP" => c.ip # None /\ snat[c.src.iface].vip_ip = c.ip
           /\ c.type = "LOCAL" => snat[c.src.iface].nat_ip = c.ip /\ Bound(c.src, c.port)
    /\ \A s \in Srcs : portmap[s] # None /\ stuck[s] = 0 => Bound(s, portmap[s].nat_port)

\* What the count becomes is one more use, also when it wraps around.
LEMMA CountRaised ==
    ASSUME NEW n \in 0..(CntMod - 1)
    PROVE  /\ (n + 1) % CntMod \in 0..(CntMod - 1)
           /\ n + 1 < CntMod => (n + 1) % CntMod = n + 1
           /\ n + 1 = CntMod => (n + 1) % CntMod = 0
<1>1. CntMod \in Nat /\ CntMod > 1
  BY ConstantsAssumption
<1>2. CASE n + 1 < CntMod
  BY <1>1, <1>2
<1>3. CASE n + 1 = CntMod
  BY <1>1, <1>3
<1> QED
  BY <1>1, <1>2, <1>3

\* A port that the search finds is one of the range.
LEMMA SearchInRange ==
    ASSUME NEW src \in Srcs, NEW dst, NEW proto, NEW ip, NEW r \in ValidRanges,
           SearchPort(src, dst, proto, ip, r) # 0
    PROVE  LET p == SearchPort(src, dst, proto, ip, r) IN r[1] <= p /\ p < r[2]
<1> DEFINE n == r[2] - r[1]
           Port(p) == r[1] + ((hash[src] + p) % n)
           free == {p \in 0..(n - 1) : Key(ip, Port(p), src, dst, proto) \notin overload}
<1>1. SearchPort(src, dst, proto, ip, r) = IF free = {} THEN 0 ELSE Port(Min(free))
  BY Zenon DEF SearchPort
<1>2. free # {} /\ free \in SUBSET Nat
  BY <1>1
<1>3. Min(free) \in Nat
  BY <1>2, MinInSet, Zenon
<1>4. r[1] \in Nat /\ r[2] \in Nat /\ r[1] < r[2] /\ hash[src] \in Nat
  BY ConstantsAssumption, Zenon DEF ValidRanges
<1> DEFINE m == hash[src] + Min(free)
<1>5. SearchPort(src, dst, proto, ip, r) = r[1] + (m % n)
  BY <1>1, <1>2, Zenon
<1>6. m \in Nat /\ n \in Nat /\ n > 0
  BY <1>3, <1>4
<1> HIDE DEF m
<1>7. m % n \in 0..(n - 1)
  <2> HIDE DEF n
  <2> QED
    BY <1>6
<1> QED
  BY <1>4, <1>5, <1>7

\* One more use of a source: of the port it had, or of a new one of the range.
Taken(e, f, r) ==
    /\ e.flow_cnt \in 0..(CntMod - 1)
    /\ \/ f # None /\ e.nat_port = f.nat_port /\ Uses(e) <= Uses(f) + 1
       \/ r[1] <= e.nat_port /\ e.nat_port < r[2] /\ Uses(e) = 1

\* What an allocation does to the counts.
CountedOK(a, src, r) ==
    \/ a.port = 0 /\ a.portmap = portmap /\ a.stuck = stuck
    \/ /\ \A s \in Srcs \ {src} : a.portmap[s] = portmap[s]
       /\ Taken(a.portmap[src], portmap[src], r)
       /\ \/ a.port # 0 /\ a.port = a.portmap[src].nat_port /\ a.stuck = stuck
          \/ a.port = 0 /\ a.stuck = [stuck EXCEPT ![src] = @ + 1]

\* Every outcome of dp_allocate_network_snat_port is one of these.
LEMMA AllocationCounted ==
    ASSUME PortInv, CountInv, NEW src \in Srcs, NEW dst, NEW proto, NEW ip,
           NEW r \in ValidRanges, NEW a \in Allocations(src, dst, proto, ip, r)
    PROVE  CountedOK(a, src, r)
<1> DEFINE keep == KeepsPort(src, dst, proto, ip)
           port == IF keep THEN portmap[src].nat_port ELSE SearchPort(src, dst, proto, ip, r)
           key == Key(ip, port, src, dst, proto)
           cnt == IF keep THEN (portmap[src].flow_cnt + 1) % CntMod ELSE 1
           e == [nat_port |-> port, flow_cnt |-> cnt]
           map == [portmap EXCEPT ![src] = e]
           more == [stuck EXCEPT ![src] = @ + 1]
           Outcome(p, m, keys, lost, over) ==
             [port |-> p, portmap |-> m, overload |-> keys, leaked |-> lost, stuck |-> over]
<1>1. \/ a = Outcome(0, portmap, overload, leaked, stuck)
      \/ /\ keep \/ port # 0
         /\ \/ a = Outcome(port, map, overload \cup {key}, leaked, stuck)
            \/ a = Outcome(0, map, overload, leaked, more)
            \/ a = Outcome(0, portmap, overload \cup {key}, leaked \cup {key}, stuck)
  BY Zenon DEF Allocations
<1>2. keep \/ port # 0 => port # 0
  BY Zenon DEF KeepsPort, PortInv
<1>3. keep \/ port # 0 => cnt \in 0..(CntMod - 1)
  <2>1. CASE keep
    BY <2>1, CountRaised, Zenon DEF KeepsPort, CountInv
  <2>2. CASE ~keep
    BY <2>2, ConstantsAssumption
  <2> QED
    BY <2>1, <2>2, Zenon
<1>4. keep \/ port # 0 => Taken(e, portmap[src], r)
  <2>0. e.nat_port = port /\ e.flow_cnt = cnt
    BY Zenon
  <2>1. CASE keep
    <3> DEFINE n == portmap[src].flow_cnt
    <3>1. portmap[src] # None /\ port = portmap[src].nat_port /\ cnt = (n + 1) % CntMod
      BY <2>1, Zenon DEF KeepsPort
    <3>2. n \in 0..(CntMod - 1)
      BY <3>1, Zenon DEF CountInv
    <3>3. Uses(e) <= Uses(portmap[src]) + 1
      <4>1. /\ Uses(e) = IF cnt = 0 THEN CntMod ELSE cnt
            /\ Uses(portmap[src]) = IF n = 0 THEN CntMod ELSE n
        BY <2>0, Zenon DEF Uses
      <4> HIDE DEF n, cnt, e
      <4> QED
        BY <3>1, <3>2, <4>1, CountRaised, ConstantsAssumption
    <3> HIDE DEF e, cnt, port
    <3> QED
      BY <1>3, <2>0, <2>1, <3>1, <3>3, Zenon DEF Taken
  <2>2. CASE ~keep /\ port # 0
    <3>1. r[1] <= port /\ port < r[2] /\ cnt = 1
      BY <2>2, SearchInRange, Zenon
    <3> HIDE DEF e, cnt, port
    <3> QED
      BY <1>3, <2>0, <2>2, <3>1 DEF Taken, Uses
  <2> QED
    BY <2>1, <2>2, Zenon
<1>5. map[src] = e /\ \A s \in Srcs \ {src} : map[s] = portmap[s]
  <2> HIDE DEF e
  <2> QED
    BY Zenon DEF PortInv
<1>6. e.nat_port = port
  BY Zenon
<1> HIDE DEF keep, port, key, cnt, map, e
<1> QED
  BY <1>1, <1>2, <1>4, <1>5, <1>6 DEF CountedOK

\* A source's connections are finitely many.
LEMMA ConnsCounted ==
    ASSUME CountInv, NEW s
    PROVE  IsFiniteSet(ConnsOf(s)) /\ Cardinality(ConnsOf(s)) \in Nat
<1>1. ConnsOf(s) \in SUBSET conns /\ IsFiniteSet(conns)
  BY Zenon DEF ConnsOf, Local, CountInv
<1>2. IsFiniteSet(ConnsOf(s))
  BY <1>1, FS_Subset, Zenon
<1> QED
  BY <1>2, FS_CardinalityType, Zenon

\* An allocation raises the count of its source by one at most, together with
\* the connections of the source or the counts that got stuck.
LEMMA TakenCounted ==
    ASSUME CountInv, NEW src \in Srcs, NEW r,
           \A s \in Srcs \ {src} : portmap'[s] = portmap[s],
           Taken(portmap'[src], portmap[src], r),
           \/ stuck' = stuck /\ \E c : /\ c \notin conns /\ conns' = conns \cup {c}
                                       /\ c.type = "LOCAL" /\ c.src = src
           \/ stuck' = [stuck EXCEPT ![src] = @ + 1] /\ conns' = conns
    PROVE  CountInv'
<1> DEFINE n == Cardinality(ConnsOf(src))
           m == stuck[src]
<1>0. CntMod \in Nat /\ n \in Nat /\ m \in Nat
  BY ConstantsAssumption, ConnsCounted, Zenon DEF CountInv
<1>1. /\ IsFiniteSet(conns') /\ stuck' \in [Srcs -> Nat]
      /\ Cardinality(ConnsOf(src)') + stuck'[src] = n + m + 1
      /\ \A s \in Srcs \ {src} : ConnsOf(s)' = ConnsOf(s) /\ stuck'[s] = stuck[s]
  <2>1. ASSUME stuck' = stuck, NEW c, c \notin conns, conns' = conns \cup {c},
               c.type = "LOCAL", c.src = src
        PROVE  <1>1!:
    <3>1. ConnsOf(src)' = ConnsOf(src) \cup {c} /\ c \notin ConnsOf(src)
      BY <2>1, Zenon DEF ConnsOf, Local
    <3>2. Cardinality(ConnsOf(src)') = n + 1
      BY <3>1, ConnsCounted, FS_AddElement, Zenon
    <3>3. IsFiniteSet(conns')
      BY <2>1, FS_AddElement, Zenon DEF CountInv
    <3>4. \A s \in Srcs \ {src} : ConnsOf(s)' = ConnsOf(s)
      BY <2>1, Zenon DEF ConnsOf, Local
    <3>5. stuck' \in [Srcs -> Nat]
      BY <2>1, Zenon DEF CountInv
    <3>6. Cardinality(ConnsOf(src)') + stuck'[src] = n + m + 1
      <4> HIDE DEF n
      <4> QED
        BY <1>0, <2>1, <3>2
    <3> QED
      BY <2>1, <3>3, <3>4, <3>5, <3>6, Zenon
  <2>2. ASSUME stuck' = [stuck EXCEPT ![src] = @ + 1], conns' = conns
        PROVE  <1>1!:
    <3>1. \A s : ConnsOf(s)' = ConnsOf(s)
      BY <2>2, Zenon DEF ConnsOf, Local
    <3>2. stuck' \in [Srcs -> Nat] /\ stuck'[src] = m + 1
          /\ \A s \in Srcs \ {src} : stuck'[s] = stuck[s]
      BY <2>2 DEF CountInv
    <3>3. IsFiniteSet(conns')
      BY <2>2, Zenon DEF CountInv
    <3>4. Cardinality(ConnsOf(src)') = n
      BY <3>1, Zenon
    <3>5. Cardinality(ConnsOf(src)') + stuck'[src] = n + m + 1
      <4> HIDE DEF n, m
      <4> QED
        BY <1>0, <3>2, <3>4
    <3> QED
      BY <3>1, <3>2, <3>3, <3>5, Zenon
  <2> QED
    BY <2>1, <2>2, Zenon
<1>2. ASSUME NEW s \in Srcs, portmap'[s] # None
      PROVE  /\ portmap'[s].flow_cnt \in 0..(CntMod - 1)
             /\ Uses(portmap'[s]) <= Cardinality(ConnsOf(s)') + stuck'[s]
  <2>1. CASE s # src
    BY <1>1, <1>2, <2>1, Zenon DEF CountInv
  <2>2. CASE s = src
    <3> DEFINE e == portmap'[src]
               f == portmap[src]
               k == Cardinality(ConnsOf(src)') + stuck'[src]
    <3>1. f # None => f.flow_cnt \in 0..(CntMod - 1) /\ Uses(f) <= n + m
      BY Zenon DEF CountInv
    <3>2. k = n + m + 1
      BY <1>1, Zenon
    <3>3. e.flow_cnt \in 0..(CntMod - 1)
      BY Zenon DEF Taken
    <3>4. Uses(e) = 1 \/ (f # None /\ Uses(e) <= Uses(f) + 1)
      BY Zenon DEF Taken
    <3> HIDE DEF e, f, k, n, m
    <3>5. Uses(e) <= k
      <4>1. Uses(e) \in Nat /\ (f # None => Uses(f) \in Nat)
        BY <1>0, <3>1, <3>3 DEF Uses
      <4> QED
        BY <1>0, <3>1, <3>2, <3>4, <4>1
    <3> QED
      BY <2>2, <3>3, <3>5, Zenon DEF e, k
  <2> QED
    BY <2>1, <2>2, Zenon
<1> QED
  BY <1>1, <1>2, Zenon DEF CountInv

\* Freeing connections lowers the count as often as it takes connections away.
LEMMA FreedCounted ==
    ASSUME CountInv, NEW cs \in SUBSET conns, FreeConns(cs)
    PROVE  CountInv'
<1>1. IsFiniteSet(conns') /\ stuck' = stuck /\ stuck \in [Srcs -> Nat]
  <2>1. conns' \in SUBSET conns /\ IsFiniteSet(conns)
    BY Zenon DEF FreeConns, CountInv
  <2>2. IsFiniteSet(conns')
    BY <2>1, FS_Subset, Zenon
  <2> QED
    BY <2>2, Zenon DEF FreeConns, CountInv
<1>2. ASSUME NEW s \in Srcs, portmap'[s] # None
      PROVE  /\ portmap'[s].flow_cnt \in 0..(CntMod - 1)
             /\ Uses(portmap'[s]) <= Cardinality(ConnsOf(s)') + stuck'[s]
  <2> DEFINE gone == {c \in Local(cs) : c.src = s}
             k == Cardinality(gone)
             n == Cardinality(ConnsOf(s))
             e == portmap[s]
             f == portmap'[s]
  <2>1. ConnsOf(s)' = ConnsOf(s) \ gone /\ gone \in SUBSET ConnsOf(s)
    BY Zenon DEF ConnsOf, Local, FreeConns
  <2>2. f = Release(e, k)
    BY Zenon DEF FreeConns, Released
  <2>3. IsFiniteSet(gone) /\ IsFiniteSet(ConnsOf(s))
    BY <2>1, ConnsCounted, FS_Subset, Zenon
  <2>4. k \in Nat /\ n \in Nat /\ CntMod \in Nat \ {0, 1} /\ stuck[s] \in Nat
    BY <1>1, <2>3, FS_CardinalityType, ConstantsAssumption, Zenon
  <2>5. Cardinality(ConnsOf(s)') = n - k
    <3> DEFINE A == ConnsOf(s)
               B == gone
    <3>1. A \cap B = B
      BY <2>1, Zenon
    <3>2. IsFiniteSet(A)
      BY <2>3, Zenon
    <3> HIDE DEF A, B
    <3>3. Cardinality(A \ B) = Cardinality(A) - Cardinality(B)
      BY <3>1, <3>2, FS_Difference, Zenon
    <3> QED
      BY <2>1, <3>3, Zenon DEF A, B
  <2> HIDE DEF k, n, gone
  <2>6. e # None
    BY <1>2, <2>2, Zenon DEF Release
  <2>7. e.flow_cnt \in 0..(CntMod - 1) /\ Uses(e) <= n + stuck[s]
    BY <2>6, Zenon DEF CountInv, n
  <2> HIDE DEF e
  <2>8. ~(k >= Uses(e)) /\ f.flow_cnt = (Uses(e) - k) % CntMod
    BY <1>2, <2>2, <2>6 DEF Release, Uses
  <2> DEFINE u == Uses(e)
             w == u - k
  <2>9. u \in Nat /\ u <= CntMod
    BY <2>4, <2>7 DEF Uses
  <2> HIDE DEF u
  <2>10. w \in Nat /\ w > 0 /\ w <= CntMod
    BY <2>4, <2>8, <2>9 DEF u
  <2>11. f.flow_cnt = w % CntMod
    BY <2>8, Zenon DEF u
  <2>12. w <= (n - k) + stuck[s]
    BY <2>4, <2>7, <2>9 DEF u
  <2> HIDE DEF w, f
  <2>13. f.flow_cnt \in 0..(CntMod - 1) /\ Uses(f) = w
    <3>1. CASE w = CntMod
      BY <2>4, <2>11, <3>1 DEF Uses
    <3>2. CASE w < CntMod
      BY <2>4, <2>10, <2>11, <3>2 DEF Uses
    <3> QED
      BY <2>4, <2>10, <3>1, <3>2
  <2> QED
    BY <1>1, <2>5, <2>12, <2>13, Zenon DEF f
<1> QED
  BY <1>1, <1>2, Zenon DEF CountInv

\* What a packet does to the counts and the connections: nothing, one more
\* connection of a source, or one count more that is stuck.
PacketOK(src, ip, r) ==
    \/ UNCHANGED <<portmap, stuck, conns>>
    \/ /\ \A s \in Srcs \ {src} : portmap'[s] = portmap[s]
       /\ Taken(portmap'[src], portmap[src], r)
       /\ \/ /\ stuck' = stuck
             /\ \E c : /\ c \notin conns /\ conns' = conns \cup {c}
                       /\ c.type = "LOCAL" /\ c.src = src /\ c.ip = ip
                       /\ c.port = portmap'[src].nat_port
          \/ stuck' = [stuck EXCEPT ![src] = @ + 1] /\ conns' = conns

\* The snat node, when the interface has an address for NAT.
LEMMA SnatCounted ==
    ASSUME PortInv, CountInv, NEW i \in Ifaces, NEW sport \in SrcPorts, NEW dst, NEW proto,
           snat[i].range \in ValidRanges, snat[i].nat_ip # None, IPv4Snat(i, sport, dst, proto)
    PROVE  \E src \in Srcs : src.iface = i /\ PacketOK(src, snat[i].nat_ip, snat[i].range)
<1> DEFINE src == [iface |-> i, fam |-> "v4", port |-> sport]
           ip == snat[i].nat_ip
           r == snat[i].range
           Conn(p) == [src |-> src, dst |-> dst, proto |-> proto, ip |-> ip, port |-> p,
                       type |-> "LOCAL"]
<1>1. src \in Srcs /\ src.iface = i
  BY Zenon DEF Srcs, Families
<1>2. \A c \in conns : ~(c.src = src /\ c.dst = dst /\ c.proto = proto)
  BY Zenon DEF IPv4Snat
<1>3. PICK a \in Allocations(src, dst, proto, ip, r) :
         /\ portmap' = a.portmap /\ stuck' = a.stuck
         /\ conns' = IF a.port = 0 THEN conns ELSE conns \cup {Conn(a.port)}
  BY Zenon DEF IPv4Snat
<1>4. \A p : /\ Conn(p) \notin conns /\ Conn(p).type = "LOCAL" /\ Conn(p).src = src
             /\ Conn(p).ip = ip /\ Conn(p).port = p
  BY <1>2, Zenon
<1> HIDE DEF src, ip, Conn
<1>5. CountedOK(a, src, r)
  BY <1>1, AllocationCounted, Zenon
<1>6. PacketOK(src, ip, r)
  BY <1>3, <1>4, <1>5, Zenon DEF CountedOK, PacketOK
<1> QED
  BY <1>1, <1>6, Zenon DEF ip

\* NAT64, with or without a failure of the conversion.
LEMMA Nat64Counted ==
    ASSUME PortInv, CountInv, NEW i \in Ifaces, NEW sport \in SrcPorts, NEW dst, NEW proto,
           iface_nat[i].range \in ValidRanges, IPv6Nat64(i, sport, dst, proto)
    PROVE  \E src \in Srcs : src.iface = i /\ PacketOK(src, iface_nat[i].ip, iface_nat[i].range)
<1> DEFINE src == [iface |-> i, fam |-> "v6", port |-> sport]
           ip == iface_nat[i].ip
           r == iface_nat[i].range
           Conn(p) == [src |-> src, dst |-> dst, proto |-> proto, ip |-> ip, port |-> p,
                       type |-> "LOCAL"]
<1>1. src \in Srcs /\ src.iface = i
  BY Zenon DEF Srcs, Families
<1>2. \A c \in conns : ~(c.src = src /\ c.dst = dst /\ c.proto = proto)
  BY Zenon DEF IPv6Nat64
<1>3. PICK a \in Allocations(src, dst, proto, ip, r) :
         /\ portmap' = a.portmap
         /\ \/ /\ stuck' = a.stuck
               /\ conns' = IF a.port = 0 THEN conns ELSE conns \cup {Conn(a.port)}
            \/ a.port # 0 /\ stuck' = [a.stuck EXCEPT ![src] = @ + 1] /\ conns' = conns
  BY Zenon DEF IPv6Nat64
<1>4. \A p : /\ Conn(p) \notin conns /\ Conn(p).type = "LOCAL" /\ Conn(p).src = src
             /\ Conn(p).ip = ip /\ Conn(p).port = p
  BY <1>2, Zenon
<1> HIDE DEF src, ip, Conn
<1>5. CountedOK(a, src, r)
  BY <1>1, AllocationCounted, Zenon
<1>6. PacketOK(src, ip, r)
  <2>1. CASE a.port = 0
    BY <1>3, <1>5, <2>1, Zenon DEF CountedOK, PacketOK
  <2>2. CASE a.port # 0
    <3>1. /\ \A s \in Srcs \ {src} : a.portmap[s] = portmap[s]
          /\ Taken(a.portmap[src], portmap[src], r)
          /\ a.port = a.portmap[src].nat_port /\ a.stuck = stuck
      BY <1>5, <2>2, Zenon DEF CountedOK
    <3>2. CASE stuck' = a.stuck /\ conns' = conns \cup {Conn(a.port)}
      BY <1>3, <1>4, <3>1, <3>2, Zenon DEF PacketOK
    <3>3. CASE stuck' = [a.stuck EXCEPT ![src] = @ + 1] /\ conns' = conns
      BY <1>3, <3>1, <3>3, Zenon DEF PacketOK
    <3> QED
      BY <1>3, <2>2, <3>2, <3>3, Zenon
  <2> QED
    BY <2>1, <2>2, Zenon
<1> QED
  BY <1>1, <1>6, Zenon DEF ip

\* A packet through the snat node without an address for NAT: a connection of
\* the virtual IP.
LEMMA VipCounted ==
    ASSUME NEW i \in Ifaces, NEW sport \in SrcPorts, NEW dst, NEW proto,
           snat[i].nat_ip = None, IPv4Snat(i, sport, dst, proto)
    PROVE  \E c : /\ conns' = conns \cup {c} /\ UNCHANGED ports
                  /\ c.type = "VIP" /\ c.src \in Srcs /\ c.src.iface = i
                  /\ c.ip = snat[i].vip_ip /\ c.ip # None
<1> DEFINE src == [iface |-> i, fam |-> "v4", port |-> sport]
           c == [src |-> src, dst |-> dst, proto |-> proto, ip |-> snat[i].vip_ip,
                 port |-> sport, type |-> "VIP"]
<1>1. src \in Srcs /\ src.iface = i
  BY Zenon DEF Srcs, Families
<1>2. conns' = conns \cup {c} /\ UNCHANGED ports /\ snat[i].vip_ip # None
  BY Zenon DEF IPv4Snat
<1>3. c.type = "VIP" /\ c.src = src /\ c.ip = snat[i].vip_ip
  BY Zenon
<1> HIDE DEF c, src
<1> QED
  BY <1>1, <1>2, <1>3, Zenon

\* The packets of the snat and NAT64 nodes keep the counts and the bindings.
PacketBinds(i) ==
    \/ \E src \in Srcs : /\ src.iface = i /\ snat[i].nat_ip # None
                         /\ PacketOK(src, snat[i].nat_ip, snat[i].range)
    \/ \E c : /\ conns' = conns \cup {c} /\ UNCHANGED ports
              /\ c.type = "VIP" /\ c.src \in Srcs /\ c.src.iface = i
              /\ c.ip = snat[i].vip_ip /\ c.ip # None

\* Every packet of a new connection is one of these.
LEMMA EveryPacket ==
    ASSUME PortInv, CountInv, BindInv, NEW i \in Ifaces, NEW sport \in SrcPorts,
           NEW dst, NEW proto,
           IPv4Snat(i, sport, dst, proto) \/ IPv6Nat64(i, sport, dst, proto)
    PROVE  PacketBinds(i)
<1>1. CASE IPv4Snat(i, sport, dst, proto) /\ snat[i].nat_ip # None
  <2>1. snat[i].range \in ValidRanges
    BY <1>1, Zenon DEF BindInv
  <2> QED
    BY <1>1, <2>1, SnatCounted, Zenon DEF PacketBinds
<1>2. CASE IPv4Snat(i, sport, dst, proto) /\ snat[i].nat_ip = None
  BY <1>2, VipCounted, Zenon DEF PacketBinds
<1>3. CASE IPv6Nat64(i, sport, dst, proto)
  <2>1. iface_nat[i].ip # None
    BY <1>3, Zenon DEF IPv6Nat64
  <2>2. /\ snat[i].nat_ip = iface_nat[i].ip /\ snat[i].range = iface_nat[i].range
        /\ snat[i].range \in ValidRanges /\ snat[i].nat_ip # None
    BY <2>1, Zenon DEF BindInv
  <2> QED
    BY <1>3, <2>2, Nat64Counted, Zenon DEF PacketBinds
<1> QED
  BY <1>1, <1>2, <1>3, Zenon

\* A packet keeps the counts ...
LEMMA PacketCounts ==
    ASSUME CountInv, NEW i \in Ifaces, PacketBinds(i)
    PROVE  CountInv'
<1>1. ASSUME NEW src \in Srcs, NEW ip, NEW r, PacketOK(src, ip, r)
      PROVE  CountInv'
  <2>1. CASE UNCHANGED <<portmap, stuck, conns>>
    BY <2>1, Zenon DEF CountInv, ConnsOf, Local
  <2>2. CASE ~UNCHANGED <<portmap, stuck, conns>>
    BY <1>1, <2>2, TakenCounted, Zenon DEF PacketOK
  <2> QED
    BY <2>1, <2>2, Zenon
<1>2. ASSUME NEW c, conns' = conns \cup {c}, UNCHANGED ports, c.type = "VIP"
      PROVE  CountInv'
  <2>1. \A s : ConnsOf(s)' = ConnsOf(s)
    BY <1>2, Zenon DEF ConnsOf, Local
  <2>2. portmap' = portmap /\ stuck' = stuck
    BY <1>2, Zenon DEF ports
  <2>3. IsFiniteSet(conns')
    BY <1>2, FS_AddElement, Zenon DEF CountInv
  <2> QED
    BY <2>1, <2>2, <2>3, Zenon DEF CountInv
<1> QED
  BY <1>1, <1>2, Zenon DEF PacketBinds

\* ... and the bindings.
LEMMA PacketKeeps ==
    ASSUME PortInv, CountInv, BindInv, NEW i \in Ifaces, PacketBinds(i), UNCHANGED config
    PROVE  BindInv'
<1>0. UNCHANGED <<snat, iface_nat>> /\ stuck \in [Srcs -> Nat]
  BY Zenon DEF config, CountInv
<1>1. ASSUME NEW src \in Srcs, src.iface = i, snat[i].nat_ip # None,
             PacketOK(src, snat[i].nat_ip, snat[i].range)
      PROVE  BindInv'
  <2>1. CASE UNCHANGED <<portmap, stuck, conns>>
    BY <1>0, <2>1, Zenon DEF BindInv, Bound, InRange
  <2>2. CASE ~UNCHANGED <<portmap, stuck, conns>>
    <3>1. /\ \A s \in Srcs \ {src} : portmap'[s] = portmap[s]
          /\ Taken(portmap'[src], portmap[src], snat[i].range)
      BY <1>1, <2>2, Zenon DEF PacketOK
    <3>2. /\ \A s \in Srcs : stuck[s] > 0 => stuck'[s] > 0
          /\ \A s \in Srcs : stuck'[s] = 0 => stuck[s] = 0
      <4>1. CASE stuck' = stuck
        BY <4>1, Zenon
      <4>2. CASE stuck' = [stuck EXCEPT ![src] = @ + 1]
        BY <1>0, <4>2
      <4> QED
        BY <1>1, <2>2, <4>1, <4>2, Zenon DEF PacketOK
    <3>3. \A s \in Srcs : \A p : Bound(s, p) => Bound(s, p)'
      BY <1>0, <3>2, Zenon DEF Bound, InRange
    <3>4. ASSUME NEW s \in Srcs, portmap'[s] # None, stuck'[s] = 0
          PROVE  Bound(s, portmap[s].nat_port)'
      <4>1. CASE s # src
        BY <3>1, <3>2, <3>3, <3>4, <4>1, Zenon DEF BindInv
      <4>2. CASE s = src
        <5>1. CASE portmap[src] # None /\ portmap'[src].nat_port = portmap[src].nat_port
          BY <3>2, <3>3, <3>4, <4>2, <5>1, Zenon DEF BindInv
        <5>2. CASE InRange(i, portmap'[src].nat_port)
          BY <1>0, <1>1, <4>2, <5>2, Zenon DEF Bound, InRange
        <5> QED
          BY <3>1, <5>1, <5>2, Zenon DEF Taken, InRange
      <4> QED
        BY <4>1, <4>2, Zenon
    <3>5. ASSUME NEW c \in conns'
          PROVE  /\ c.src \in Srcs
                 /\ c.type = "VIP" => c.ip # None /\ snat'[c.src.iface].vip_ip = c.ip
                 /\ c.type = "LOCAL" => snat'[c.src.iface].nat_ip = c.ip /\ Bound(c.src, c.port)'
      <4>1. CASE c \in conns
        BY <1>0, <3>3, <4>1, Zenon DEF BindInv
      <4>2. CASE c \notin conns
        <5>1. /\ stuck' = stuck /\ c.type = "LOCAL" /\ c.src = src /\ c.ip = snat[i].nat_ip
              /\ c.port = portmap'[src].nat_port
          BY <1>1, <2>2, <3>5, <4>2, Zenon DEF PacketOK
        <5>2. Bound(src, c.port)'
          <6>1. CASE portmap'[src] # None /\ stuck'[src] = 0
            BY <3>4, <5>1, <6>1, Zenon
          <6>2. CASE stuck'[src] # 0
            BY <1>0, <1>1, <5>1, <6>2 DEF Bound
          <6>3. CASE portmap'[src] = None /\ stuck'[src] = 0
            <7>1. CASE portmap[src] # None /\ portmap'[src].nat_port = portmap[src].nat_port
              BY <3>2, <3>3, <5>1, <6>3, <7>1, Zenon DEF BindInv
            <7>2. CASE InRange(i, portmap'[src].nat_port)
              BY <1>0, <1>1, <5>1, <7>2, Zenon DEF Bound, InRange
            <7> QED
              BY <3>1, <7>1, <7>2, Zenon DEF Taken, InRange
          <6> QED
            BY <6>1, <6>2, <6>3, Zenon
        <5> QED
          BY <1>0, <1>1, <5>1, <5>2, Zenon
      <4> QED
        BY <4>1, <4>2, Zenon
    <3> QED
      BY <1>0, <3>4, <3>5, Zenon DEF BindInv
  <2> QED
    BY <2>1, <2>2, Zenon
<1>2. ASSUME NEW c, conns' = conns \cup {c}, UNCHANGED ports, c.type = "VIP",
             c.src \in Srcs, c.src.iface = i, c.ip = snat[i].vip_ip, c.ip # None
      PROVE  BindInv'
  <2>1. portmap' = portmap /\ stuck' = stuck
    BY <1>2, Zenon DEF ports
  <2> QED
    BY <1>0, <1>2, <2>1, Zenon DEF BindInv, Bound, InRange
<1> QED
  BY <1>1, <1>2, Zenon DEF PacketBinds

\* A virtual IP, or an address and range for NAT, stays as it is.
KeepsVip(i) == snat[i].vip_ip # None => snat'[i].vip_ip = snat[i].vip_ip

KeepsNat(i) ==
    snat[i].nat_ip # None => snat'[i].nat_ip = snat[i].nat_ip /\ snat'[i].range = snat[i].range

\* The rows of the NAT table and NAT64's copies fit together after the step.
RowFits(i) ==
    /\ snat'[i].nat_ip # None => snat'[i].range \in ValidRanges
    /\ iface_nat'[i].ip # None =>
           snat'[i].nat_ip = iface_nat'[i].ip /\ snat'[i].range = iface_nat'[i].range

RowsFit == \A i \in Ifaces : RowFits(i)

\* A row whose NAT part stays fits, when NAT64's copy stays too or goes.
LEMMA RowKept ==
    ASSUME BindInv, NEW i \in Ifaces, snat'[i].nat_ip = snat[i].nat_ip,
           snat[i].nat_ip # None => snat'[i].range = snat[i].range,
           iface_nat'[i] = iface_nat[i] \/ iface_nat'[i].ip = None
    PROVE  RowFits(i)
<1>1. snat[i].nat_ip # None => snat[i].range \in ValidRanges
  BY Zenon DEF BindInv
<1>2. iface_nat[i].ip # None =>
          snat[i].nat_ip = iface_nat[i].ip /\ snat[i].range = iface_nat[i].range
  BY Zenon DEF BindInv
<1>3. CASE iface_nat'[i].ip = None
  BY <1>1, <1>3, Zenon DEF RowFits
<1>4. CASE iface_nat'[i] = iface_nat[i]
  BY <1>1, <1>2, <1>4, Zenon DEF RowFits
<1> QED
  BY <1>3, <1>4, Zenon

\* A request that takes no address from a source with connections or with a port
\* keeps the bindings.
LEMMA RequestKeeps ==
    ASSUME BindInv, RowsFit, stuck' = stuck, conns' \subseteq conns,
           \A s \in Srcs : portmap'[s] # None =>
               portmap[s] # None /\ portmap'[s].nat_port = portmap[s].nat_port,
           \A c \in conns' : /\ c.type = "VIP" => KeepsVip(c.src.iface)
                             /\ c.type = "LOCAL" => KeepsNat(c.src.iface),
           \A s \in Srcs : portmap'[s] # None /\ stuck[s] = 0 => KeepsNat(s.iface)
    PROVE  BindInv'
<1>1. ASSUME NEW s \in Srcs, NEW p, Bound(s, p), KeepsNat(s.iface) PROVE Bound(s, p)'
  BY <1>1, Zenon DEF Bound, InRange, KeepsNat
<1>2. ASSUME NEW c \in conns'
      PROVE  /\ c.src \in Srcs
             /\ c.type = "VIP" => c.ip # None /\ snat'[c.src.iface].vip_ip = c.ip
             /\ c.type = "LOCAL" => snat'[c.src.iface].nat_ip = c.ip /\ Bound(c.src, c.port)'
  <2>1. c \in conns /\ c.src \in Srcs
    BY <1>2, Zenon DEF BindInv
  <2>2. ASSUME c.type = "VIP" PROVE c.ip # None /\ snat'[c.src.iface].vip_ip = c.ip
    BY <2>1, <2>2, Zenon DEF BindInv, KeepsVip
  <2>3. ASSUME c.type = "LOCAL" PROVE snat'[c.src.iface].nat_ip = c.ip /\ Bound(c.src, c.port)'
    <3>1. snat[c.src.iface].nat_ip = c.ip /\ Bound(c.src, c.port) /\ KeepsNat(c.src.iface)
      BY <2>1, <2>3, Zenon DEF BindInv
    <3>2. Bound(c.src, c.port)'
      BY <1>1, <2>1, <3>1, Zenon
    <3> QED
      BY <3>1, <3>2, Zenon DEF Bound, KeepsNat
  <2> QED
    BY <2>1, <2>2, <2>3, Zenon
<1>3. ASSUME NEW s \in Srcs, portmap'[s] # None, stuck'[s] = 0
      PROVE  Bound(s, portmap[s].nat_port)'
  <2>1. Bound(s, portmap[s].nat_port) /\ KeepsNat(s.iface)
        /\ portmap'[s].nat_port = portmap[s].nat_port
    BY <1>3, Zenon DEF BindInv
  <2> DEFINE p == portmap[s].nat_port
  <2>2. p = portmap'[s].nat_port /\ Bound(s, p) /\ KeepsNat(s.iface)
    BY <2>1, Zenon
  <2> HIDE DEF p
  <2>3. \A q : Bound(s, q) => Bound(s, q)'
    BY <1>1, <2>2, Zenon
  <2> QED
    BY <2>2, <2>3, Zenon DEF Bound, InRange
<1> QED
  BY <1>2, <1>3, Zenon DEF BindInv, RowsFit, RowFits

\* A released entry keeps its port.
LEMMA ReleasedPort ==
    ASSUME NEW cs, FreeConns(cs), NEW s \in Srcs, portmap'[s] # None
    PROVE  portmap[s] # None /\ portmap'[s].nat_port = portmap[s].nat_port
<1> DEFINE k == Cardinality({c \in Local(cs) : c.src = s})
<1>1. portmap'[s] = Release(portmap[s], k)
  BY Zenon DEF FreeConns, Released
<1> HIDE DEF k
<1> QED
  BY <1>1 DEF Release

\* Connections go, and NAT64's copies at most.
LEMMA FreeKeeps ==
    ASSUME ConfigInv, BindInv, NEW cs, FreeConns(cs), snat' = snat,
           \A i \in Ifaces : iface_nat'[i] = iface_nat[i] \/ iface_nat'[i].ip = None
    PROVE  BindInv'
<1>1. RowsFit
  BY RowKept, Zenon DEF RowsFit
<1>2. \A i : KeepsVip(i) /\ KeepsNat(i)
  BY Zenon DEF KeepsVip, KeepsNat
<1>3. conns' \subseteq conns /\ stuck' = stuck
  BY Zenon DEF FreeConns
<1> QED
  BY <1>1, <1>2, <1>3, ReleasedPort, RequestKeeps, Zenon

\* A configuration request without connections.
LEMMA ConfigKeeps ==
    ASSUME BindInv, RowsFit, UNCHANGED <<ports, conns>>,
           \A i \in Ifaces : KeepsVip(i) /\ KeepsNat(i)
    PROVE  BindInv'
<1>1. stuck' = stuck /\ portmap' = portmap /\ conns' = conns
  BY Zenon DEF ports
<1>2. \A s \in Srcs : s.iface \in Ifaces
  BY Zenon DEF Srcs
<1>3. \A c \in conns' : c.src.iface \in Ifaces
  BY <1>1, <1>2, Zenon DEF BindInv
<1> QED
  BY <1>1, <1>2, <1>3, RequestKeeps, Zenon

\* Removing the virtual IP from a row keeps its NAT part, ...
LEMMA VipRow ==
    ASSUME NEW a, NEW b, b = IF a.nat_ip = None THEN NoSnat
                             ELSE [vip_ip |-> None, nat_ip |-> a.nat_ip, range |-> a.range,
                                   ul_vip |-> a.ul_vip, ul_nat |-> a.ul_nat]
    PROVE  b.nat_ip = a.nat_ip /\ (a.nat_ip # None => b.range = a.range)
<1>1. CASE a.nat_ip = None
  BY <1>1, Zenon DEF NoSnat
<1>2. CASE a.nat_ip # None
  BY <1>2, Zenon
<1> QED
  BY <1>1, <1>2, Zenon

\* ... and removing the NAT its virtual IP.
LEMMA NatRow ==
    ASSUME NEW a, NEW b, b = IF a.vip_ip = None THEN NoSnat
                             ELSE [vip_ip |-> a.vip_ip, nat_ip |-> None, range |-> <<0, 0>>,
                                   ul_vip |-> a.ul_vip, ul_nat |-> a.ul_nat]
    PROVE  b.nat_ip = None /\ b.vip_ip = a.vip_ip
<1>1. CASE a.vip_ip = None
  BY <1>1, Zenon DEF NoSnat
<1>2. CASE a.vip_ip # None
  BY <1>2, Zenon
<1> QED
  BY <1>1, <1>2, Zenon

\* dp_process_create_vip gives back what it set when it fails.
LEMMA CreateVipBinds ==
    ASSUME ConfigInv, BindInv, NEW i \in Ifaces, NEW ip \in VipIps, CreateVip(i, ip)
    PROVE  BindInv'
<1> DEFINE ul == FreshUnderlay(i, "VIP")
           sn == SetVip(snat, i, ip, ul)
<1>1. UNCHANGED <<iface_nat, ports, conns>>
  BY Zenon DEF CreateVip
<1>2. \A j \in Ifaces : /\ j # i => sn[j] = snat[j]
                        /\ sn[j].nat_ip = snat[j].nat_ip /\ sn[j].range = snat[j].range
  BY Zenon DEF SetVip, ConfigInv
<1>3. sn = [j \in Ifaces |-> sn[j]]
  BY Zenon DEF SetVip, ConfigInv
<1>4. \/ snat' = snat
      \/ snat[i].vip_ip = None /\ snat' = sn
      \/ snat[i].vip_ip = None /\ snat' = DelVip(sn, i)
  BY Zenon DEF CreateVip
<1> HIDE DEF sn
<1>5. \A j \in Ifaces : /\ snat'[j].nat_ip = snat[j].nat_ip
                        /\ snat[j].nat_ip # None => snat'[j].range = snat[j].range
                        /\ KeepsVip(j)
  <2>1. CASE snat' = snat
    BY <2>1, Zenon DEF KeepsVip
  <2>2. CASE snat[i].vip_ip = None /\ snat' = sn
    BY <1>2, <2>2, Zenon DEF KeepsVip
  <2>3. CASE snat[i].vip_ip = None /\ snat' = DelVip(sn, i)
    <3>1. /\ \A j \in Ifaces \ {i} : snat'[j] = sn[j]
          /\ snat'[i] = IF sn[i].nat_ip = None THEN NoSnat
                        ELSE [vip_ip |-> None, nat_ip |-> sn[i].nat_ip, range |-> sn[i].range,
                              ul_vip |-> sn[i].ul_vip, ul_nat |-> sn[i].ul_nat]
      BY <1>3, <2>3, Zenon DEF DelVip
    <3>2. /\ snat'[i].nat_ip = sn[i].nat_ip
          /\ sn[i].nat_ip # None => snat'[i].range = sn[i].range
      BY <3>1, VipRow, Zenon
    <3> QED
      BY <1>2, <2>3, <3>1, <3>2, Zenon DEF KeepsVip
  <2> QED
    BY <1>4, <2>1, <2>2, <2>3, Zenon
<1>6. RowsFit
  BY <1>1, <1>5, RowKept, Zenon DEF RowsFit
<1> QED
  BY <1>1, <1>5, <1>6, ConfigKeeps, Zenon DEF KeepsNat

\* dp_process_create_nat does too; a new range is that of a source without ports.
LEMMA CreateNatBinds ==
    ASSUME ConfigInv, BindInv, NEW i \in Ifaces, NEW ip \in NatIps, NEW r \in ValidRanges,
           CreateNat(i, ip, r)
    PROVE  BindInv'
<1> DEFINE ul == FreshUnderlay(i, "NAT")
           sn == SetNat(snat, i, ip, r, ul)
<1>1. UNCHANGED <<ports, conns>>
  BY Zenon DEF CreateNat
<1>2. /\ \A j \in Ifaces \ {i} : sn[j] = snat[j]
      /\ sn[i].vip_ip = snat[i].vip_ip /\ sn[i].nat_ip = ip /\ sn[i].range = r
  BY Zenon DEF SetNat, ConfigInv
<1>3. sn = [j \in Ifaces |-> sn[j]]
  BY Zenon DEF SetNat, ConfigInv
<1>4. \/ snat' = snat /\ iface_nat' = iface_nat
      \/ /\ snat[i].nat_ip = None /\ snat' = sn
         /\ iface_nat' = [iface_nat EXCEPT ![i] = [ip |-> ip, range |-> r]]
      \/ snat[i].nat_ip = None /\ snat' = DelNat(sn, i) /\ iface_nat' = iface_nat
  BY Zenon DEF CreateNat
<1> HIDE DEF sn
<1>5. CASE snat' = snat /\ iface_nat' = iface_nat
  BY <1>1, <1>5, RowKept, ConfigKeeps, Zenon DEF RowsFit, KeepsNat, KeepsVip
<1>6. CASE /\ snat[i].nat_ip = None /\ snat' = sn
           /\ iface_nat' = [iface_nat EXCEPT ![i] = [ip |-> ip, range |-> r]]
  <2>1. /\ iface_nat'[i].ip = ip /\ iface_nat'[i].range = r
        /\ \A j \in Ifaces \ {i} : iface_nat'[j] = iface_nat[j]
    BY <1>6, Zenon DEF ConfigInv
  <2>2. RowsFit
    <3>1. RowFits(i)
      BY <1>2, <1>6, <2>1, Zenon DEF RowFits
    <3>2. \A j \in Ifaces \ {i} : RowFits(j)
      BY <1>2, <1>6, <2>1, RowKept, Zenon
    <3> QED
      BY <3>1, <3>2, Zenon DEF RowsFit
  <2>3. \A j \in Ifaces : KeepsVip(j) /\ KeepsNat(j)
    BY <1>2, <1>6, Zenon DEF KeepsVip, KeepsNat
  <2> QED
    BY <1>1, <2>2, <2>3, ConfigKeeps, Zenon
<1>7. CASE snat[i].nat_ip = None /\ snat' = DelNat(sn, i) /\ iface_nat' = iface_nat
  <2>1. /\ \A j \in Ifaces \ {i} : snat'[j] = sn[j]
        /\ snat'[i] = IF sn[i].vip_ip = None THEN NoSnat
                      ELSE [vip_ip |-> sn[i].vip_ip, nat_ip |-> None, range |-> <<0, 0>>,
                            ul_vip |-> sn[i].ul_vip, ul_nat |-> sn[i].ul_nat]
    BY <1>3, <1>7, Zenon DEF DelNat
  <2>2. snat'[i].nat_ip = None /\ snat'[i].vip_ip = sn[i].vip_ip
    BY <2>1, NatRow, Zenon
  <2>3. RowsFit
    BY <1>2, <1>7, <2>1, <2>2, RowKept, Zenon DEF RowsFit
  <2>4. \A j \in Ifaces : KeepsVip(j) /\ KeepsNat(j)
    BY <1>2, <1>7, <2>1, <2>2, Zenon DEF KeepsVip, KeepsNat
  <2> QED
    BY <1>1, <2>3, <2>4, ConfigKeeps, Zenon
<1> QED
  BY <1>4, <1>5, <1>6, <1>7, Zenon

\* dp_process_delete_vip takes the connections of the virtual IP with it ...
LEMMA DeleteVipBinds ==
    ASSUME ConfigInv, BindInv, NEW i \in Ifaces, DeleteVip(i)
    PROVE  BindInv'
<1> DEFINE cs == {c \in conns : c.src.iface = i /\ c.type = "VIP"}
<1>1. FreeConns(cs) /\ iface_nat' = iface_nat /\ snat' = DelVip(snat, i)
  BY Zenon DEF DeleteVip
<1>2. conns' = conns \ cs /\ stuck' = stuck
  BY <1>1, Zenon DEF FreeConns
<1>3. \A c \in conns' : c \in conns /\ c.src \in Srcs /\ (c.type = "VIP" => c.src.iface # i)
  BY <1>2, Zenon DEF BindInv
<1>4. /\ \A j \in Ifaces \ {i} : snat'[j] = snat[j]
      /\ snat'[i] = IF snat[i].nat_ip = None THEN NoSnat
                    ELSE [vip_ip |-> None, nat_ip |-> snat[i].nat_ip, range |-> snat[i].range,
                          ul_vip |-> snat[i].ul_vip, ul_nat |-> snat[i].ul_nat]
  BY <1>1, Zenon DEF DelVip, ConfigInv
<1>5. /\ snat'[i].nat_ip = snat[i].nat_ip
      /\ snat[i].nat_ip # None => snat'[i].range = snat[i].range
  BY <1>4, VipRow, Zenon
<1>6. RowsFit
  BY <1>1, <1>4, <1>5, RowKept, Zenon DEF RowsFit
<1>7. \A j \in Ifaces : KeepsNat(j) /\ (j # i => KeepsVip(j))
  BY <1>4, <1>5, Zenon DEF KeepsVip, KeepsNat
<1>8. \A s \in Srcs : s.iface \in Ifaces
  BY Zenon DEF Srcs
<1> HIDE DEF cs
<1> QED
  BY <1>1, <1>2, <1>3, <1>6, <1>7, <1>8, ReleasedPort, RequestKeeps, Zenon

\* ... and dp_process_delete_nat those of the NAT: a source without connections
\* has no port any more, unless its count got stuck.
LEMMA DeleteNatBinds ==
    ASSUME ConfigInv, CountInv, BindInv, CountInv', NEW i \in Ifaces, DeleteNat(i)
    PROVE  BindInv'
<1> DEFINE cs == {c \in conns : c.src.iface = i /\ c.type = "LOCAL"}
<1>1. /\ FreeConns(cs) /\ snat' = DelNat(snat, i)
      /\ iface_nat' = [iface_nat EXCEPT ![i] = [ip |-> None, range |-> <<0, 0>>]]
  BY Zenon DEF DeleteNat
<1>2. conns' = conns \ cs /\ stuck' = stuck
  BY <1>1, Zenon DEF FreeConns
<1>3. \A c \in conns' : c \in conns /\ c.src \in Srcs /\ (c.type = "LOCAL" => c.src.iface # i)
  BY <1>2, Zenon DEF BindInv
<1>4. /\ \A j \in Ifaces \ {i} : snat'[j] = snat[j]
      /\ snat'[i] = IF snat[i].vip_ip = None THEN NoSnat
                    ELSE [vip_ip |-> snat[i].vip_ip, nat_ip |-> None, range |-> <<0, 0>>,
                          ul_vip |-> snat[i].ul_vip, ul_nat |-> snat[i].ul_nat]
  BY <1>1, Zenon DEF DelNat, ConfigInv
<1>5. snat'[i].nat_ip = None /\ snat'[i].vip_ip = snat[i].vip_ip
  BY <1>4, NatRow, Zenon
<1>6. RowsFit
  <2>1. iface_nat'[i].ip = None /\ \A j \in Ifaces \ {i} : iface_nat'[j] = iface_nat[j]
    BY <1>1, Zenon DEF ConfigInv
  <2>2. RowFits(i)
    BY <1>5, <2>1, Zenon DEF RowFits
  <2>3. \A j \in Ifaces \ {i} : RowFits(j)
    BY <1>4, <2>1, RowKept, Zenon
  <2> QED
    BY <2>2, <2>3, Zenon DEF RowsFit
<1>7. \A j \in Ifaces : KeepsVip(j) /\ (j # i => KeepsNat(j))
  BY <1>4, <1>5, Zenon DEF KeepsVip, KeepsNat
<1>8. \A s \in Srcs : s.iface \in Ifaces
  BY Zenon DEF Srcs
<1>9. ASSUME NEW s \in Srcs, s.iface = i, stuck[s] = 0 PROVE portmap'[s] = None
  <2>1. ConnsOf(s)' = {}
    BY <1>3, <1>9, Zenon DEF ConnsOf, Local
  <2>2. Cardinality(ConnsOf(s)') = 0
    BY <2>1, FS_EmptySet, Zenon
  <2>3. portmap'[s] # None =>
           /\ portmap'[s].flow_cnt \in 0..(CntMod - 1)
           /\ Uses(portmap'[s]) <= Cardinality(ConnsOf(s)') + stuck'[s]
    BY Zenon DEF CountInv
  <2>4. stuck'[s] = 0 /\ CntMod \in Nat \ {0, 1}
    BY <1>2, <1>9, ConstantsAssumption, Zenon
  <2> DEFINE e == portmap'[s]
             n == Cardinality(ConnsOf(s)')
  <2>5. e # None => e.flow_cnt \in 0..(CntMod - 1) /\ Uses(e) <= n + 0
    BY <2>3, <2>4, Zenon
  <2>6. n = 0
    BY <2>2, Zenon
  <2> HIDE DEF e, n
  <2>7. e = None
    BY <2>4, <2>5, <2>6 DEF Uses
  <2> QED
    BY <2>7, Zenon DEF e
<1> HIDE DEF cs
<1> QED
  BY <1>1, <1>2, <1>3, <1>6, <1>7, <1>8, <1>9, ReleasedPort, RequestKeeps, Zenon

\* Every step keeps the counts and the bindings.
LEMMA BindStep ==
    ASSUME ConfigInv, PortInv, CountInv, BindInv, [Next]_vars
    PROVE  CountInv' /\ BindInv'
<1>1. CASE UNCHANGED vars
  <2>1. UNCHANGED <<snat, iface_nat, portmap, stuck, conns>>
    BY <1>1, Zenon DEF vars, config, ports
  <2> QED
    BY <2>1, Zenon DEF CountInv, ConnsOf, Local, BindInv, Bound, InRange
<1>2. ASSUME NEW cs \in SUBSET conns, FreeConns(cs) PROVE CountInv'
  BY <1>2, FreedCounted, Zenon
<1>3. ASSUME UNCHANGED <<ports, conns>> PROVE CountInv'
  <2>1. UNCHANGED <<portmap, stuck, conns>>
    BY <1>3, Zenon DEF ports
  <2> QED
    BY <2>1, Zenon DEF CountInv, ConnsOf, Local
<1>4. CASE Request
  <2>1. ASSUME NEW i \in Ifaces, NEW ip \in VipIps, CreateVip(i, ip) PROVE CountInv' /\ BindInv'
    <3>1. UNCHANGED <<ports, conns>>
      BY <2>1, Zenon DEF CreateVip
    <3> QED
      BY <1>3, <2>1, <3>1, CreateVipBinds, Zenon
  <2>2. ASSUME NEW i \in Ifaces, DeleteVip(i) PROVE CountInv' /\ BindInv'
    <3>1. CountInv'
      BY <1>2, <2>2, Zenon DEF DeleteVip
    <3> QED
      BY <2>2, <3>1, DeleteVipBinds, Zenon
  <2>3. ASSUME NEW i \in Ifaces, NEW ip \in NatIps, NEW r \in ValidRanges, CreateNat(i, ip, r)
        PROVE  CountInv' /\ BindInv'
    <3>1. UNCHANGED <<ports, conns>>
      BY <2>3, Zenon DEF CreateNat
    <3> QED
      BY <1>3, <2>3, <3>1, CreateNatBinds, Zenon
  <2>4. ASSUME NEW i \in Ifaces, DeleteNat(i) PROVE CountInv' /\ BindInv'
    <3>1. CountInv'
      BY <1>2, <2>4, Zenon DEF DeleteNat
    <3> QED
      BY <2>4, <3>1, DeleteNatBinds, Zenon
  <2>5. ASSUME UNCHANGED <<snat, iface_nat, ports, conns>> PROVE CountInv' /\ BindInv'
    <3>1. RowsFit /\ \A i \in Ifaces : KeepsVip(i) /\ KeepsNat(i)
      BY <2>5, RowKept, Zenon DEF RowsFit, KeepsVip, KeepsNat
    <3> QED
      BY <1>3, <2>5, <3>1, ConfigKeeps, Zenon
  <2>6. ASSUME NEW ip \in NatIps, NEW r \in ValidRanges, CreateNeighNat(ip, r)
        PROVE  CountInv' /\ BindInv'
    BY <2>5, <2>6, Zenon DEF CreateNeighNat
  <2>7. ASSUME NEW ip \in NatIps, NEW r \in ValidRanges, DeleteNeighNat(ip, r)
        PROVE  CountInv' /\ BindInv'
    <3>1. PICK cs \in SUBSET conns : FreeConns(cs) /\ UNCHANGED <<snat, iface_nat>>
      BY <2>7, Zenon DEF DeleteNeighNat
    <3> QED
      BY <1>2, <3>1, FreeKeeps, Zenon
  <2>8. ASSUME ForgetNeighbours PROVE CountInv' /\ BindInv'
    BY <2>5, <2>8, Zenon DEF ForgetNeighbours
  <2>9. ASSUME NEW i \in Ifaces, RecreateInterface(i) PROVE CountInv' /\ BindInv'
    <3>1. PICK cs \in SUBSET conns : FreeConns(cs)
      BY <2>9, Zenon DEF RecreateInterface
    <3>2. /\ snat' = snat
          /\ iface_nat' = [iface_nat EXCEPT ![i] = [ip |-> None, range |-> <<0, 0>>]]
      BY <2>9, Zenon DEF RecreateInterface
    <3>3. \A j \in Ifaces : iface_nat'[j] = iface_nat[j] \/ iface_nat'[j].ip = None
      BY <3>2, Zenon DEF ConfigInv
    <3> QED
      BY <1>2, <3>1, <3>2, <3>3, FreeKeeps, Zenon
  <2> QED
    BY <1>4, <2>1, <2>2, <2>3, <2>4, <2>6, <2>7, <2>8, <2>9, Zenon DEF Request
<1>5. CASE Packet
  <2>1. UNCHANGED config
    BY <1>5, PacketConfig, Zenon
  <2>2. ASSUME NEW c \in conns, AgeOut(c) PROVE CountInv' /\ BindInv'
    <3>1. FreeConns({c}) /\ UNCHANGED <<snat, iface_nat>>
      BY <2>2, Zenon DEF AgeOut, config
    <3>2. {c} \in SUBSET conns
      BY Zenon
    <3> QED
      BY <1>2, <3>1, <3>2, FreeKeeps, Zenon
  <2>3. ASSUME NEW i \in Ifaces, NEW p \in SrcPorts, NEW d \in Dsts, NEW proto \in Protos,
               IPv4Snat(i, p, d, proto) \/ IPv6Nat64(i, p, d, proto)
        PROVE  CountInv' /\ BindInv'
    BY <2>1, <2>3, EveryPacket, PacketCounts, PacketKeeps, Zenon
  <2> QED
    BY <1>5, <2>2, <2>3, Zenon DEF Packet
<1> QED
  BY <1>1, <1>4, <1>5, Zenon DEF Next

-----------------------------------------------------------------------------
\* Main results.

\* The three invariants hold throughout.
LEMMA NatInvariant == Spec => [](ConfigInv /\ NeighInv /\ PortInv)
<1>1. Init => ConfigInv /\ NeighInv /\ PortInv
  <2> SUFFICES ASSUME Init PROVE ConfigInv /\ NeighInv /\ PortInv
    BY Zenon
  <2>1. ConfigInv
    BY Zenon DEF Init, ConfigInv, RowOK, NoSnat
  <2>2. NeighInv
    <3>1. neigh = <<>> /\ dnat = [ip \in VipIps \cup NatIps |-> None]
      BY Zenon DEF Init
    <3>2. neigh \in Seq(Entries) /\ Len(neigh) = 0
      BY <3>1
    <3> QED
      BY <3>1, <3>2 DEF NeighInv
  <2>3. PortInv
    BY Zenon DEF Init, PortInv, OverloadExact, Local
  <2> QED
    BY <2>1, <2>2, <2>3, Zenon
<1>2. ConfigInv /\ NeighInv /\ PortInv /\ [Next]_vars => (ConfigInv /\ NeighInv /\ PortInv)'
  BY ConfigStep, NeighStep, PortStep, Zenon
<1> QED
  BY <1>1, <1>2, PTL DEF Spec

\* The counts and the bindings are right throughout.
LEMMA BindInvariant == Spec => [](CountInv /\ BindInv)
<1>1. Init => CountInv /\ BindInv
  <2> SUFFICES ASSUME Init PROVE CountInv /\ BindInv
    BY Zenon
  <2>1. IsFiniteSet(conns)
    BY FS_EmptySet, Zenon DEF Init
  <2>2. CountInv
    BY <2>1, Zenon DEF Init, CountInv
  <2>3. BindInv
    BY Zenon DEF Init, BindInv, NoSnat
  <2> QED
    BY <2>2, <2>3, Zenon
<1>2. /\ (ConfigInv /\ NeighInv /\ PortInv) /\ CountInv /\ BindInv /\ [Next]_vars
      => CountInv' /\ BindInv'
  BY BindStep, Zenon
<1> QED
  BY <1>1, <1>2, NatInvariant, PTL DEF Spec

\* netnat_portoverload_tbl holds the keys of the live connections and the leaked
\* ones, and no two connections share a key, for every number of interfaces,
\* sources, destinations and ports and whichever insertions fail (dp_nat.c).
THEOREM OverloadTableExact == Spec => []OverloadExact
<1>1. PortInv => OverloadExact
  BY Zenon DEF PortInv
<1> QED
  BY <1>1, NatInvariant, PTL

\* No request, successful or not, leaks or takes away an underlay address
\* (dp_grpc_impl.c: create and delete of virtual IPs and NAT).
THEOREM UnderlayAddressesExact == Spec => []UnderlayExact
<1>1. ConfigInv => UnderlayExact
  <2> SUFFICES ASSUME ConfigInv PROVE UnderlayExact
    BY Zenon
  <2>1. \A i \in Ifaces : /\ GetVip(i).err = "OK" <=> snat[i].vip_ip # None
                          /\ GetNat(i).err = "OK" <=> snat[i].nat_ip # None
    BY Zenon DEF GetVip, GetNat
  <2>2. \A i \in Ifaces : /\ snat[i].vip_ip # None => GetVip(i).ul = snat[i].ul_vip
                          /\ snat[i].nat_ip # None => GetNat(i).ul = snat[i].ul_nat
    BY Zenon DEF GetVip, GetNat
  <2> QED
    <3>1. {GetVip(i).ul : i \in {j \in Ifaces : GetVip(j).err = "OK"}}
          = {snat[i].ul_vip : i \in {j \in Ifaces : snat[j].vip_ip # None}}
      BY <2>1, <2>2, Zenon
    <3>2. {GetNat(i).ul : i \in {j \in Ifaces : GetNat(j).err = "OK"}}
          = {snat[i].ul_nat : i \in {j \in Ifaces : snat[j].nat_ip # None}}
      BY <2>1, <2>2, Zenon
    <3> QED
      BY <3>1, <3>2, Zenon DEF UnderlayExact, ConfigInv
<1> QED
  BY <1>1, NatInvariant, PTL

\* A packet for a port of a neighbour is relayed as long as the neighbour is
\* configured, whatever happens to other holders of the address (dp_nat.c).
THEOREM NeighboursReachable == Spec => []NeighbourReachable
<1>1. NeighInv => NeighbourReachable
  <2> SUFFICES ASSUME NeighInv, NEW ip \in NatIps \ VipIps, NEW e \in ListNeighNats(ip)
               PROVE  /\ dnat[ip] = "NAT"
                      /\ \A p \in e.range[1]..(e.range[2] - 1) : NeighbourOf(ip, p) # None
    BY Zenon DEF NeighbourReachable
  <2>1. PICK k \in 1..Len(neigh) : e = neigh[k] /\ e.ip = ip
    BY DEF ListNeighNats, Range, NeighInv
  <2> QED
    BY <2>1, NeighbourFound, Zenon DEF NeighInv
<1> QED
  BY <1>1, NatInvariant, PTL

\* A connection is bound to what its interface is configured with, through every
\* order of requests, packets and aging, counts that wrap around included
\* (dp_process_delete_nat, dp_allocate_network_snat_port).
THEOREM BindingsMatchConfig == Spec => []BindingMatchesConfig
<1>1. BindInv => BindingMatchesConfig
  <2> SUFFICES ASSUME BindInv, NEW c \in conns
               PROVE  /\ c.type = "VIP" => /\ GetVip(c.src.iface).err = "OK"
                                           /\ GetVip(c.src.iface).ip = c.ip
                      /\ c.type = "LOCAL" => /\ GetNat(c.src.iface).err = "OK"
                                             /\ GetNat(c.src.iface).ip = c.ip
                                             /\ \/ GetNat(c.src.iface).range[1] <= c.port
                                                   /\ c.port < GetNat(c.src.iface).range[2]
                                                \/ stuck[c.src] > 0
    BY Zenon DEF BindingMatchesConfig
  <2> DEFINE i == c.src.iface
  <2>1. ASSUME c.type = "VIP" PROVE GetVip(i).err = "OK" /\ GetVip(i).ip = c.ip
    <3>1. snat[i].vip_ip = c.ip /\ c.ip # None
      BY <2>1, Zenon DEF BindInv
    <3> QED
      BY <3>1, Zenon DEF GetVip
  <2>2. ASSUME c.type = "LOCAL"
        PROVE  /\ GetNat(i).err = "OK" /\ GetNat(i).ip = c.ip
               /\ \/ GetNat(i).range[1] <= c.port /\ c.port < GetNat(i).range[2]
                  \/ stuck[c.src] > 0
    <3>1. snat[i].nat_ip = c.ip /\ Bound(c.src, c.port)
      BY <2>2, Zenon DEF BindInv
    <3>2. snat[i].nat_ip # None /\ (InRange(i, c.port) \/ stuck[c.src] > 0)
      BY <3>1, Zenon DEF Bound
    <3>3. /\ GetNat(i).err = "OK" /\ GetNat(i).ip = snat[i].nat_ip
          /\ GetNat(i).range = snat[i].range
      BY <3>2, Zenon DEF GetNat
    <3> QED
      BY <3>1, <3>2, <3>3, Zenon DEF InRange
  <2> QED
    BY <2>1, <2>2, Zenon
<1> QED
  BY <1>1, BindInvariant, PTL

\* flow_cnt has a value for every number of uses of a source.
NoWrap == \A s \in Srcs : Cardinality({c \in Local(conns) : c.src = s}) + stuck[s] < CntMod

\* As long as no source has 2^16 connections and stuck counts, the portmap counts
\* no connection that is gone and drops the entry with the last one
\* (dp_allocate_network_snat_port, dp_remove_network_snat_port).
THEOREM PortmapCountsBounded == Spec => [](NoWrap => PortmapBounded)
<1>1. CountInv => (NoWrap => PortmapBounded)
  <2> SUFFICES ASSUME CountInv, NoWrap, NEW s \in Srcs, portmap[s] # None
               PROVE  /\ portmap[s].flow_cnt >= 1
                      /\ portmap[s].flow_cnt <= Cardinality({c \in Local(conns) : c.src = s})
                                                + stuck[s]
    BY Zenon DEF PortmapBounded
  <2> DEFINE m == Cardinality(ConnsOf(s))
             n == portmap[s].flow_cnt
  <2>1. n \in 0..(CntMod - 1) /\ (IF n = 0 THEN CntMod ELSE n) <= m + stuck[s]
    BY Zenon DEF CountInv, Uses
  <2>2. m + stuck[s] < CntMod /\ CntMod \in Nat
    BY ConstantsAssumption, Zenon DEF NoWrap, ConnsOf
  <2>3. m \in Nat /\ stuck[s] \in Nat
    BY ConnsCounted, Zenon DEF CountInv
  <2> HIDE DEF m, n
  <2>4. n >= 1 /\ n <= m + stuck[s]
    BY <2>1, <2>2, <2>3
  <2> QED
    BY <2>4, Zenon DEF m, n, ConnsOf
<1> QED
  BY <1>1, BindInvariant, PTL
=============================================================================
