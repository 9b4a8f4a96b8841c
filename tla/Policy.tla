------------------------------- MODULE Policy -------------------------------
(***************************************************************************)
(* What decides the path of a connection: the back ends of a load balancer  *)
(* (dp_lb.c, lb_node.c) and the firewall rules of the interfaces            *)
(* (dp_firewall.c, firewall_node.c), with the requests that change them     *)
(* while connections are open.  Both nodes decide on a connection's first   *)
(* packet and keep the decision in its flow record.                         *)
(*                                                                          *)
(* The load balancer is one of one VNI; ControlPlane has the tables that    *)
(* hold load balancers and interfaces, FlowTable the life of flow records.  *)
(* Packets here are in the connection's original direction: a reply changes *)
(* nothing in either node.                                                  *)
(***************************************************************************)
EXTENDS Integers, Sequences, FiniteSets, FiniteSetsExt, Functions

CONSTANTS
    UINT16_MAX, \* the largest port number and the largest back_end_cnt
    Vfs,        \* interfaces; any other port is physical
    Flows,      \* [connection -> its packets' header], see Headers
    LbIp,       \* the address of the load balancer
    Listens,    \* the loadbalanced_ports lists that clients ask for
    MaxPorts,   \* DP_LB_MAX_PORTS
    MaxIps,     \* DP_LB_MAX_IPS_PER_VIP
    Backends,   \* underlay addresses of back ends, Zero not among them
    Zero,       \* the address ::, which marks an empty slot
    RuleSet,    \* firewall rules that clients ask for
    MaxRules,   \* bound on the rules of all interfaces
    MaxMiscounts, \* bound on the history variable miscounts
    None

Conns == DOMAIN Flows

\* struct dp_flow.  The union l4_info lets an ICMP packet's type and code be
\* read as a destination port, its identifier as a source port.  An ICMP error
\* is a packet of the connection that it reports on.
Headers == [in : Vfs \cup {None}, out : Vfs \cup {None}, l3 : {4, 6},
            l4 : {"TCP", "UDP", "ICMP", "ICMPV6", "SCTP"}, src : Nat, dst : Nat \cup {LbIp},
            sport : 0..UINT16_MAX, dport : 0..UINT16_MAX]

Icmp(h) == h.l4 \in {"ICMP", "ICMPV6"}
IcmpType(h) == h.dport \div 256
IcmpCode(h) == h.dport % 256

\* DP_FWALL_MATCH_ANY_PORT, _ICMP_TYPE and _ICMP_CODE: larger than any port
AnyPort == UINT16_MAX + 1

\* struct dp_fwall_rule.  An address with its mask is the set it matches; the
\* union filter holds an ICMP rule's type and code in slo and shi.
Rules == [id : STRING, dir : {"INGRESS", "EGRESS"}, action : {"ACCEPT", "DROP"},
          proto : {"ANY", "TCP", "UDP", "ICMP"}, l3src : {4, 6}, l3dst : {4, 6},
          srcs : SUBSET (0..3), dsts : SUBSET (0..3),
          slo : 0..AnyPort, shi : 0..AnyPort, dlo : 0..AnyPort, dhi : 0..AnyPort]

ASSUME ConstantsAssumption ==
    /\ UINT16_MAX \in Nat
    /\ None \notin Vfs /\ Zero \notin Backends
    /\ \A c \in Conns : Flows[c] \in Headers /\ (Icmp(Flows[c]) => IcmpType(Flows[c]) # 3)
    /\ MaxPorts \in Nat \ {0} /\ MaxIps \in 1..UINT16_MAX
    /\ \A l \in Listens : \A i \in DOMAIN l : l[i].port \in 0..UINT16_MAX
    /\ RuleSet \subseteq Rules
    /\ MaxRules \in Nat /\ MaxMiscounts \in Nat

\* CreateLoadBalancerCall::FillRequest leaves the last entry free
LbRequests == {l \in Listens : Len(l) < MaxPorts}

\* CreateFirewallRuleCall::FillRequest: an empty range or an ICMP type over 255 is
\* refused, and a rule without a filter gets AnyPort as lower bounds
RangeOk(lo, hi) == lo = AnyPort \/ hi >= lo

FwRequests ==
    {r \in RuleSet :
        /\ r.proto \in {"TCP", "UDP"} => RangeOk(r.slo, r.shi) /\ RangeOk(r.dlo, r.dhi)
        /\ r.proto = "ICMP" => {r.slo, r.shi} \subseteq (0..255) \cup {AnyPort} /\ r.dlo = 0 /\ r.dhi = 0
        /\ r.proto = "ANY" => r.slo = AnyPort /\ r.dlo = AnyPort /\ r.shi = 0 /\ r.dhi = 0}

VARIABLES
    lb,         \* struct lb_value of the load balancer, None without one
    rules,      \* [Vfs -> Seq(Rules)]: iface.fwall_head
    conns,      \* the flow records of connections, None when there is none
    crashed,    \* the process wrote through a null pointer
    miscounts   \* history: deletions of Zero that were counted as a back end's

vars == <<lb, rules, conns, crashed, miscounts>>

Slots == 0..(MaxIps - 1)
LbValues == [ports : [1..MaxPorts -> [port : 0..UINT16_MAX, proto : {"TCP", "UDP", None}]],
             ips : [Slots -> Backends \cup {Zero}], last : Slots, cnt : 0..UINT16_MAX]

\* struct flow_value: the flags that matter here, the decisions they stand for
Records == [flags : SUBSET {"DST_LB", "FIREWALL"}, backend : Backends \cup {None},
            verdict : {"ACCEPT", "DROP", None}]
NewRecord == [flags |-> {}, backend |-> None, verdict |-> None]

Init == /\ lb = None
        /\ rules = [v \in Vfs |-> <<>>]
        /\ conns = [c \in Conns |-> None]
        /\ crashed = FALSE
        /\ miscounts = 0

(***************************************************************************)
(* Load balancer                                                            *)
(***************************************************************************)
\* The record is zeroed, so that slot 0 counts as the last one selected
dp_create_lb(listen) ==
    /\ lb = None
    /\ lb' = [ports |-> [i \in 1..MaxPorts |-> IF i \in DOMAIN listen THEN listen[i]
                                               ELSE [port |-> 0, proto |-> None]],
              ips |-> [i \in Slots |-> Zero], last |-> 0, cnt |-> 0]
    /\ UNCHANGED <<rules, conns, miscounts>>

\* The connections keep their back ends
dp_delete_lb ==
    /\ lb # None
    /\ lb' = None
    /\ UNCHANGED <<rules, conns, miscounts>>

Occupied(l) == {i \in Slots : l.ips[i] # Zero}

SlotsWith(l, ip) == {i \in Slots : l.ips[i] = ip}

dp_lb_is_back_ip_inserted(l, ip) == SlotsWith(l, ip) # {}

dp_lb_last_free_pos(l) == Min(SlotsWith(l, Zero))

dp_add_lb_back_ip(ip) ==
    /\ lb # None
    /\ ~dp_lb_is_back_ip_inserted(lb, ip)
    /\ SlotsWith(lb, Zero) # {}
    /\ lb' = [lb EXCEPT !.ips[dp_lb_last_free_pos(lb)] = ip,
                        !.cnt = (@ + 1) % (UINT16_MAX + 1)]
    /\ UNCHANGED <<rules, conns, miscounts>>

\* Mutant: the slot is emptied but still counted
DeleteBackIpKeepCount(l, ip) == [l EXCEPT !.ips[Min(SlotsWith(l, ip))] = Zero]

dp_lb_delete_back_ip(l, ip) ==
    [l EXCEPT !.ips[Min(SlotsWith(l, ip))] = Zero, !.cnt = (@ - 1) % (UINT16_MAX + 1)]

\* Zero is found in an empty slot, and counted
dp_del_lb_back_ip(ip) ==
    /\ lb # None
    /\ dp_lb_is_back_ip_inserted(lb, ip)
    /\ ip = Zero => miscounts < MaxMiscounts
    /\ lb' = dp_lb_delete_back_ip(lb, ip)
    /\ miscounts' = IF ip = Zero THEN miscounts + 1 ELSE miscounts
    /\ UNCHANGED <<rules, conns>>

dp_get_lb_back_ips(l) == {l.ips[i] : i \in Occupied(l)}

\* The list ends with the first port 0; one without an end matches everything
Listening(l, port, proto) ==
    LET ends == {k \in 1..MaxPorts : l.ports[k].port = 0}
        hits == {k \in 1..MaxPorts : l.ports[k] = [port |-> port, proto |-> proto]}
    IN IF hits \cup ends = {} THEN TRUE ELSE Min(hits \cup ends) \in hits

\* The slots to select from, in the order of the search: all of them for a
\* single back end, else those after the last one selected
SearchOrder(l) ==
    IF l.cnt = 1 THEN [i \in 1..MaxIps |-> i - 1]
    ELSE [i \in 1..(MaxIps - 1) |-> (l.last + i) % MaxIps]

Candidates(l) == {i \in DOMAIN SearchOrder(l) : SearchOrder(l)[i] \in Occupied(l)}

dp_lb_rr_backend(l, port, proto) ==
    IF Listening(l, port, proto) /\ Candidates(l) # {} THEN SearchOrder(l)[Min(Candidates(l))] ELSE -1

(***************************************************************************)
(* Firewall                                                                 *)
(***************************************************************************)
dp_get_firewall_rule(vf, id) == {i \in DOMAIN rules[vf] : rules[vf][i].id = id}

\* Rules with the action DROP are refused
dp_process_create_fwrule(vf, r) ==
    /\ dp_get_firewall_rule(vf, r.id) = {}
    /\ r.action = "ACCEPT"
    /\ MapThenSumSet(LAMBDA v : Len(rules[v]), Vfs) < MaxRules
    /\ rules' = [rules EXCEPT ![vf] = Append(@, r)]
    /\ UNCHANGED <<lb, conns, miscounts>>

\* TAILQ_REMOVE of the i-th element
RemoveAt(s, i) == SubSeq(s, 1, i - 1) \o SubSeq(s, i + 1, Len(s))

dp_delete_firewall_rule(vf, id) ==
    /\ dp_get_firewall_rule(vf, id) # {}
    /\ rules' = [rules EXCEPT ![vf] = RemoveAt(@, Min(dp_get_firewall_rule(vf, id)))]
    /\ UNCHANGED <<lb, conns, miscounts>>

\* With the interface; its connections go with dp_remove_iface_flows
dp_del_all_firewall_rules(vf) ==
    /\ rules[vf] # <<>>
    /\ rules' = [rules EXCEPT ![vf] = <<>>]
    /\ conns' = [c \in Conns |-> IF vf \in {Flows[c].in, Flows[c].out} THEN None ELSE conns[c]]
    /\ UNCHANGED <<lb, miscounts>>

AddressesMatch(r, h) == h.src \in r.srcs /\ h.dst \in r.dsts

\* Also applied to an ICMP packet whose type and code did not match, with
\* the unions read as ports
PortsMatch(r, h) ==
    /\ r.slo = AnyPort \/ h.sport \in r.slo..r.shi
    /\ r.dlo = AnyPort \/ h.dport \in r.dlo..r.dhi

ProtocolMatches(r, h) ==
    \/ r.proto = "ANY" /\ h.l4 # "SCTP"
    \/ r.proto = h.l4
    \/ r.proto = "ICMP" /\ h.l4 = "ICMPV6"

\* A match of the ICMP type and code decides before the addresses are compared.
\* An ICMPv6 packet counts as ICMP only in IPv6.
dp_is_rule_matching(r, h) ==
    LET sameProtocol == r.proto \in {"ANY", h.l4} \/ (Icmp(h) /\ h.l3 = 6 /\ r.proto = "ICMP")
        icmpMatches  == /\ Icmp(h)
                        /\ r.slo \in {AnyPort, IcmpType(h)} /\ r.shi \in {AnyPort, IcmpCode(h)}
    IN /\ r.l3src = h.l3 \/ r.l3dst = h.l3
       /\ ProtocolMatches(r, h)
       /\ sameProtocol
       /\ icmpMatches \/ (AddressesMatch(r, h) /\ PortsMatch(r, h))

Matching(list, dir, h) ==
    {i \in DOMAIN list : list[i].dir = dir /\ dp_is_rule_matching(list[i], h)}

\* The rules looked at: all, or those up to the first that matches
Scanned(list, dir, h) ==
    IF Matching(list, dir, h) = {} THEN DOMAIN list ELSE 1..Min(Matching(list, dir, h))

\* dp_is_matched_in_fwall_list counts egress rules for either direction
EgressRuleCount(list, dir, h) ==
    Cardinality({i \in Scanned(list, dir, h) : list[i].dir = "EGRESS"})

\* Mutant: no default drop
EgressActionDefault(list, h) == "ACCEPT"

dp_get_egress_action(list, h) ==
    IF Matching(list, "EGRESS", h) # {} THEN list[Min(Matching(list, "EGRESS", h))].action
    ELSE IF EgressRuleCount(list, "EGRESS", h) = 0 THEN "ACCEPT" ELSE "DROP"

IngressAction(list, h) ==
    IF Matching(list, "INGRESS", h) = {} THEN "DROP"
    ELSE list[Min(Matching(list, "INGRESS", h))].action

EgressAction(h) == IF h.in = None THEN "ACCEPT" ELSE dp_get_egress_action(rules[h.in], h)

\* The ingress search has no counter to increment (the argument is NULL)
CountsThroughNull(h) ==
    /\ h.out # None /\ EgressAction(h) = "ACCEPT"
    /\ EgressRuleCount(rules[h.out], "INGRESS", h) > 0

dp_get_firewall_action(h) ==
    IF h.out = None THEN EgressAction(h)
    ELSE IF EgressAction(h) # "ACCEPT" THEN "DROP"
    ELSE IngressAction(rules[h.out], h)

(***************************************************************************)
(* Packets                                                                  *)
(***************************************************************************)
Record(c) == IF conns[c] = None THEN NewRecord ELSE conns[c]

\* Mutant: a connection that has taken another path is balanced when a load
\* balancer appears
ToLbAlways(c) == /\ lb # None
                 /\ "DST_LB" \notin Record(c).flags
                 /\ Flows[c].dst = LbIp

\* The load balancer's node decides only on a connection without any flag
ToLb(c) == /\ lb # None
           /\ Record(c).flags = {}
           /\ Flows[c].dst = LbIp

Selected(c) == dp_lb_rr_backend(lb, Flows[c].dport, Flows[c].l4)

\* An echo request is answered, other ICMP is dropped, and so is a packet that no
\* back end is found for
LbNode(c) ==
    /\ ToLb(c)
    /\ IF Icmp(Flows[c]) \/ Selected(c) = -1
       THEN conns' = [conns EXCEPT ![c] = Record(c)] /\ UNCHANGED lb
       ELSE /\ lb' = [lb EXCEPT !.last = Selected(c)]
            /\ conns' = [conns EXCEPT ![c] = [flags   |-> Record(c).flags \cup {"DST_LB"},
                                              backend |-> lb.ips[Selected(c)],
                                              verdict |-> Record(c).verdict]]
    /\ UNCHANGED <<rules, miscounts>>

\* A balanced connection stays with its back end while there is a load balancer
\* in the table; without any the node lets all packets pass
LbNodeKeeps(c) == lb # None /\ "DST_LB" \in Record(c).flags

\* The others reach the firewall, unless a node in between drops them
FirewallNode(c) ==
    LET action == dp_get_firewall_action(Flows[c])
        known  == "FIREWALL" \in Record(c).flags
    IN /\ ~ToLb(c) /\ ~LbNodeKeeps(c)
       /\ conns' = [conns EXCEPT ![c] = IF known THEN Record(c)
                        ELSE [flags   |-> Record(c).flags \cup {"FIREWALL"},
                              backend |-> Record(c).backend,
                              verdict |-> action]]
       /\ UNCHANGED <<lb, rules, miscounts>>

Expire(c) ==
    /\ conns[c] # None
    /\ conns' = [conns EXCEPT ![c] = None]
    /\ UNCHANGED <<lb, rules, miscounts>>

Evaluates(c) == ~ToLb(c) /\ ~LbNodeKeeps(c) /\ "FIREWALL" \notin Record(c).flags

\* Undefined behaviour: the build may crash here or drop the increment
Crash == /\ ~crashed
         /\ \E c \in Conns : Evaluates(c) /\ CountsThroughNull(Flows[c])
         /\ crashed' = TRUE
         /\ UNCHANGED <<lb, rules, conns, miscounts>>

Step ==
    \/ \E l \in LbRequests : dp_create_lb(l)
    \/ dp_delete_lb
    \/ \E ip \in Backends : dp_add_lb_back_ip(ip)
    \/ \E ip \in Backends \cup {Zero} : dp_del_lb_back_ip(ip)
    \/ \E vf \in Vfs : \/ \E r \in FwRequests : dp_process_create_fwrule(vf, r)
                       \/ \E r \in FwRequests : dp_delete_firewall_rule(vf, r.id)
                       \/ dp_del_all_firewall_rules(vf)
    \/ \E c \in Conns : LbNode(c) \/ FirewallNode(c) \/ Expire(c)

Next == \/ ~crashed /\ Step /\ UNCHANGED crashed
        \/ Crash

Spec == Init /\ [][Next]_vars

(***************************************************************************)
(* Properties                                                               *)
(***************************************************************************)
\* The variables hold what their C types allow.
TypeOK == /\ lb \in LbValues \cup {None}
          /\ rules \in [Vfs -> Seq(RuleSet)]
          /\ conns \in [Conns -> Records \cup {None}]
          /\ crashed \in BOOLEAN
          /\ miscounts \in 0..MaxMiscounts

\* The slots chosen for the next n new connections
NextSelected(l, n, port, proto) ==
    LET next(last) == dp_lb_rr_backend([l EXCEPT !.last = last], port, proto)
        chosen[k \in 1..n] == next(IF k = 1 THEN l.last ELSE chosen[k - 1])
    IN Range(chosen) \ {-1}

\* As many new connections as there are back ends are spread over all of them,
\* whatever slots earlier additions and deletions have left, and a port nobody
\* listens on gets none; but for deletions of the address :: (dp_lb_rr_backend).
RoundRobinComplete ==
    lb # None /\ miscounts = 0 =>
        \A c \in Conns :
            LET h == Flows[c] IN
            NextSelected(lb, Cardinality(Occupied(lb)), h.dport, h.l4)
                = IF Listening(lb, h.dport, h.l4) THEN Occupied(lb) ELSE {}

\* What makes it inductive: back_end_cnt is the number of slots in use, and
\* last_sel_pos is one of the slots.
LbInv ==
    /\ miscounts \in Nat
    /\ lb # None =>
        /\ lb = [ports |-> lb.ports, ips |-> lb.ips, last |-> lb.last, cnt |-> lb.cnt]
        /\ lb.ips \in [Slots -> Backends \cup {Zero}] /\ lb.last \in Slots
        /\ miscounts = 0 => lb.cnt = Cardinality(Occupied(lb))

\* A connection keeps its back end and its verdict, and one that passed the
\* firewall unbalanced is never balanced later, whatever load balancers, back
\* ends and rules come and go meanwhile (lb_node.c, firewall_node.c).
PathNeverChanges ==
    [][\A c \in Conns : conns[c] # None /\ conns'[c] # None =>
          /\ "DST_LB" \in conns[c].flags => conns'[c].backend = conns[c].backend
          /\ "FIREWALL" \in conns[c].flags =>
                 conns'[c].verdict = conns[c].verdict /\ conns'[c].backend = conns[c].backend]_vars

\* "Egress default for the traffic originating from VFs is Accept, when no rule
\* matches.  If there is at least one Egress rule than the default action becomes
\* drop" (dp_firewall.c:181), and traffic to an interface needs a rule of it.
FirewallVerdict ==
    \A c \in Conns :
        LET h == Flows[c]
            Accepting(vf, dir) == \E i \in DOMAIN rules[vf] :
                rules[vf][i].dir = dir /\ dp_is_rule_matching(rules[vf][i], h)
            NoEgressRule(vf) == \A i \in DOMAIN rules[vf] : rules[vf][i].dir = "INGRESS"
        IN (dp_get_firewall_action(h) = "ACCEPT")
             <=> /\ h.in # None => Accepting(h.in, "EGRESS") \/ NoEgressRule(h.in)
                 /\ h.out # None => Accepting(h.out, "INGRESS")
=============================================================================
