---------------------------- MODULE ControlPlane ----------------------------
(***************************************************************************)
(* Interfaces, VNIs, routes, prefixes and load balancers: the requests of   *)
(* dp_grpc_impl.c that create and delete them, and the tables behind them   *)
(* (dp_iface.c, dp_vni.c, dp_lpm.c, dp_vnf.c, dp_lb.c, dp_port.c).          *)
(*                                                                          *)
(* One request updates several tables, one after the other.  A step that    *)
(* fails is answered by undoing the earlier ones (create) or by carrying on *)
(* with the others (delete).  Requests run one at a time in the worker, so  *)
(* a request is one action; its steps are operators on the record s of all  *)
(* the tables, named after the functions that do them.  The parameter f of  *)
(* a request is the step of it that fails for want of memory or because the *)
(* driver refuses, "none" when all succeed.                                 *)
(*                                                                          *)
(* Every prefix stands for one with its length; the route to an interface's *)
(* own address is the prefix of full length.  NAT and virtual IPs are in    *)
(* Nat, firewall rules and back ends in Policy.                             *)
(***************************************************************************)
EXTENDS Naturals, FiniteSets, FiniteSetsExt, Functions

CONSTANTS
    PortSeq,       \* the virtual functions, in the order of DP_FOREACH_PORT
    Pf0,           \* the physical port: next hop of the external routes
    Vnis, Ids,     \* network identifiers; interface ids that clients use
    Addrs4, Addrs6,\* overlay addresses and destinations, none of them zero
    Pfxs,          \* those that clients use as prefixes of an interface
    LbIps, LbIds,  \* addresses and ids of load balancers
    Faults,        \* the steps of requests that may fail
    MaxUnderlays,  \* bound on the underlay addresses of one kind in use
    None

Ports == Range(PortSeq)
Zero4 == <<"zero", 4>>
Zero6 == <<"zero", 6>>

VnfFaults == {"vnf handle", "vnf value"}
AllFaults == VnfFaults \cup {"id", "vni", "route", "meter", "start", "stop",
                             "lb", "lb id"}

\* struct dp_vnf; an underlay address is one of those generated for its record
Vnfs == [type : {"INTERFACE_IP", "ALIAS_PFX", "LB_ALIAS_PFX", "LB"}, port : Ports \cup {Pf0},
         vni : Vnis, pfx : Pfxs \cup {None}]
Underlays == [vnf : Vnfs, nr : 1..MaxUnderlays]

\* struct dp_port_iface of a port that is ready
Interfaces == [id : Ids, vni : Vnis, ip4 : Addrs4 \cup {Zero4},
               ip6 : Addrs6 \cup {Zero6}, ul : Underlays]

ASSUME ConstantsAssumption ==
    /\ IsInjective(PortSeq) /\ IsFiniteSet(Ports) /\ Pf0 \notin Ports
    /\ Addrs4 \cap Addrs6 = {} /\ Pfxs \subseteq Addrs4 \cup Addrs6
    /\ {Zero4, Zero6} \cap (Addrs4 \cup Addrs6) = {}
    /\ Faults \subseteq AllFaults
    /\ MaxUnderlays \in Nat \ {0}
    /\ None \notin Ports /\ None \notin Vnis \X LbIps /\ None \notin Interfaces

Routes == [vni : Vnis, dst : Addrs4 \cup Addrs6 \cup {Zero4, Zero6}, nh : Ports \cup {Pf0}]

LbKeys == Vnis \X LbIps
\* an entry of ipv4_lb_tbl; freed when the record it points to is
Lbs == [key : LbKeys, ul : Underlays, freed : BOOLEAN]

VARIABLES
    iface,      \* port->iface, None when it is not ready
    allocated,  \* port->allocated
    iface_id,   \* iface_id_table
    vni_ref,    \* ref_count of the vni_handle_tbl entry, 0 without one
    routes,     \* the RIBs of all VNIs
    vnf_handle, \* vnf_handle_tbl: the underlay addresses, with their records
    vnf_value,  \* vnf_value_tbl: per record the underlay address stored last
    lb,         \* ipv4_lb_tbl
    lb_id,      \* id_map_lb_tbl
    stuck       \* history: ports that the driver refused to stop

vars == <<iface, allocated, iface_id, vni_ref, routes, vnf_handle, vnf_value, lb, lb_id, stuck>>

\* The tables as one record, and the step that replaces them
Tables == [iface |-> iface, allocated |-> allocated, iface_id |-> iface_id,
           vni_ref |-> vni_ref, routes |-> routes, vnf_handle |-> vnf_handle,
           vnf_value |-> vnf_value, lb |-> lb, lb_id |-> lb_id, stuck |-> stuck]

Become(s) == /\ iface' = s.iface /\ allocated' = s.allocated /\ iface_id' = s.iface_id
             /\ vni_ref' = s.vni_ref /\ routes' = s.routes
             /\ vnf_handle' = s.vnf_handle /\ vnf_value' = s.vnf_value
             /\ lb' = s.lb /\ lb_id' = s.lb_id /\ stuck' = s.stuck

Init == /\ iface = [p \in Ports |-> None]
        /\ allocated = [p \in Ports |-> FALSE]
        /\ iface_id = [i \in Ids |-> None]
        /\ vni_ref = [v \in Vnis |-> 0]
        /\ routes = {} /\ vnf_handle = {} /\ vnf_value = {}
        /\ lb = {} /\ lb_id = [i \in LbIds |-> None]
        /\ stuck = {}

(***************************************************************************)
(* Underlay addresses                                                       *)
(***************************************************************************)
dp_fill_vnf_data(type, port, vni, pfx) == [type |-> type, port |-> port, vni |-> vni, pfx |-> pfx]

\* An address never used before: the least number free in both tables
FreeNumbers(vnf) ==
    {n \in 1..MaxUnderlays : [vnf |-> vnf, nr |-> n] \notin vnf_handle \cup vnf_value}

dp_generate_underlay_ipv6(vnf) == [vnf |-> vnf, nr |-> Min(FreeNumbers(vnf))]

\* A second record with the same value takes the place of the first
dp_add_vnf_value(s, ul) ==
    [s EXCEPT !.vnf_value = {u \in @ : u.vnf # ul.vnf} \cup {ul}]

\* Whichever address the record has stored
dp_delete_vnf_value(s, vnf) == [s EXCEPT !.vnf_value = {u \in @ : u.vnf # vnf}]

dp_vnf_value_exists(s, vnf) == \E u \in s.vnf_value : u.vnf = vnf

dp_del_vnf(s, ul) ==
    IF ul \in s.vnf_handle
    THEN dp_delete_vnf_value([s EXCEPT !.vnf_handle = @ \ {ul}], ul.vnf)
    ELSE s

dp_add_vnf(s, ul, f) ==
    LET added == [s EXCEPT !.vnf_handle = @ \cup {ul}] IN
    IF f = "vnf handle" THEN s
    ELSE IF f = "vnf value" THEN dp_del_vnf(added, ul)
    ELSE dp_add_vnf_value(added, ul)

dp_del_vnf_by_value(s, vnf) ==
    IF dp_vnf_value_exists(s, vnf)
    THEN dp_del_vnf(s, CHOOSE u \in s.vnf_value : u.vnf = vnf)
    ELSE s

dp_list_vnf_alias_prefixes(port, type) ==
    {u \in vnf_handle : u.vnf.port = port /\ u.vnf.type = type}

(***************************************************************************)
(* VNIs and routes                                                          *)
(***************************************************************************)
dp_is_vni_route_table_available(s, vni) == s.vni_ref[vni] > 0

\* An entry that exists only gets one more reference
dp_create_vni_route_tables(s, vni) == [s EXCEPT !.vni_ref[vni] = @ + 1]

VniFails(s, vni, f) == ~dp_is_vni_route_table_available(s, vni) /\ f = "vni"

\* dp_free_vni_data frees both RIBs with the last reference
dp_delete_vni_route_tables(s, vni) ==
    IF s.vni_ref[vni] > 1 THEN [s EXCEPT !.vni_ref[vni] = @ - 1]
    ELSE [s EXCEPT !.vni_ref[vni] = 0, !.routes = {r \in @ : r.vni # vni}]

dp_add_route(s, port, vni, dst) ==
    [s EXCEPT !.routes = @ \cup {[vni |-> vni, dst |-> dst, nh |-> port]}]

\* NO_VNI, ROUTE_EXISTS or ROUTE_INSERT
AddRouteFails(s, vni, dst, f) ==
    \/ ~dp_is_vni_route_table_available(s, vni)
    \/ \E r \in s.routes : r.vni = vni /\ r.dst = dst
    \/ f = "route"

\* A route with another next hop stays (ROUTE_BAD_PORT)
dp_del_route(s, port, vni, dst) ==
    [s EXCEPT !.routes = @ \ {[vni |-> vni, dst |-> dst, nh |-> port]}]

\* The tries <<n, 4>>, <<n, 6>> for the own addresses of the n-th port, the zero
\* ones included, in the order in which they are made
OwnRoute(s, t) ==
    LET port == PortSeq[t[1]] IN
    [vni |-> s.iface[port].vni, nh |-> port,
     dst |-> IF t[2] = 4 THEN s.iface[port].ip4 ELSE s.iface[port].ip6]

Before(t, u) == t[1] < u[1] \/ (t[1] = u[1] /\ t[2] < u[2])

\* NO_VNI, or ROUTE_EXISTS since an earlier try was for the same destination
TryFails(s, tries, t) ==
    LET r == OwnRoute(s, t) IN
    \/ ~dp_is_vni_route_table_available(s, r.vni)
    \/ \E u \in tries : Before(u, t) /\ OwnRoute(s, u).vni = r.vni /\ OwnRoute(s, u).dst = r.dst

\* One route after the other, until one cannot be added
dp_lpm_fill_route_tables(s, tries) ==
    {OwnRoute(s, t) : t \in {v \in tries : \A u \in tries :
                                 u = v \/ Before(u, v) => ~TryFails(s, tries, u)}}

\* External, prefix and own routes go; the own ones come back, in port order
dp_lpm_reset_route_tables(s, vnis) ==
    LET ready == {n \in DOMAIN PortSeq : /\ s.iface[PortSeq[n]] # None
                                         /\ s.iface[PortSeq[n]].vni \in vnis}
        kept  == {r \in s.routes : r.vni \notin vnis}
    IN [s EXCEPT !.routes = kept \cup dp_lpm_fill_route_tables(s, ready \X {4, 6})]

\* The IPv4 routes with a physical port as next hop
dp_list_routes(vni) == {r \in routes : r.vni = vni /\ r.dst \in Addrs4 /\ r.nh = Pf0}

(***************************************************************************)
(* Interfaces                                                               *)
(***************************************************************************)
dp_map_iface_id(s, id, port) == [s EXCEPT !.iface_id[id] = port]

dp_unmap_iface_id(s, id) == [s EXCEPT !.iface_id[id] = None]

dp_get_port_with_iface_id(id) == iface_id[id]

\* With the addresses that dp_process_create_interface stores next
dp_setup_iface(s, r, ul) ==
    [dp_create_vni_route_tables(s, r.vni)
     EXCEPT !.iface[r.port] = [id |-> r.id, vni |-> r.vni, ip4 |-> r.ip4, ip6 |-> r.ip6,
                               ul |-> ul]]

\* Mutant: the interface's reference to the VNI is not given back
DeleteIfaceKeepVni(s, port) ==
    LET i == s.iface[port]
        withdrawn == dp_del_route(dp_del_route(s, port, i.vni, i.ip4), port, i.vni, i.ip6)
    IN [withdrawn EXCEPT !.iface[port] = None]

dp_delete_iface(s, port) ==
    LET i == s.iface[port]
        withdrawn == dp_del_route(dp_del_route(s, port, i.vni, i.ip4), port, i.vni, i.ip6)
    IN [dp_delete_vni_route_tables(withdrawn, i.vni) EXCEPT !.iface[port] = None]

dp_start_port(s, port) == [s EXCEPT !.allocated[port] = TRUE]

\* The port stays allocated when the driver cannot stop it
dp_stop_port(s, port, f) ==
    IF f = "stop" THEN [s EXCEPT !.stuck = @ \cup {port}]
    ELSE [s EXCEPT !.allocated[port] = FALSE]

\* CreateInterfaceCall::FillRequest refuses an interface without any address
InterfaceRequests ==
    {r \in [id : Ids, port : Ports, vni : Vnis, ip4 : Addrs4 \cup {Zero4},
            ip6 : Addrs6 \cup {Zero6}] : ~(r.ip4 = Zero4 /\ r.ip6 = Zero6)}

\* The labels err_vnf, handle_err, iface_err, route_err and route6_err of
\* dp_process_create_interface, each falling through to the ones before it
UndoVnf(s, ul) == dp_del_vnf(s, ul)

\* Mutant: the failed interface's id stays mapped
UndoHandleKeepId(s, r, ul) == UndoVnf(s, ul)

UndoHandle(s, r, ul) == UndoVnf(dp_unmap_iface_id(s, r.id), ul)
UndoIface(s, r, ul) == UndoHandle(dp_delete_iface(s, r.port), r, ul)
UndoRoute(s, r, ul) == UndoIface(dp_del_route(s, r.port, r.vni, r.ip4), r, ul)
UndoRoute6(s, r, ul) == UndoRoute(dp_del_route(s, r.port, r.vni, r.ip6), r, ul)

\* A zero address is a marker, not installed as a route
AddOwnRoute(s, port, vni, addr) ==
    IF addr \in {Zero4, Zero6} THEN s ELSE dp_add_route(s, port, vni, addr)

OwnRouteFails(s, vni, addr, f) ==
    addr \notin {Zero4, Zero6} /\ AddRouteFails(s, vni, addr, f)

CreateInterfaceSteps(s, r, ul, f) ==
    LET withVnf   == dp_add_vnf(s, ul, f)
        withId    == dp_map_iface_id(withVnf, r.id, r.port)
        withIface == dp_setup_iface(withId, r, ul)
        with4     == AddOwnRoute(withIface, r.port, r.vni, r.ip4)
        with6     == AddOwnRoute(with4, r.port, r.vni, r.ip6)
    IN IF f \in VnfFaults THEN withVnf
       ELSE IF s.iface_id[r.id] # None \/ f = "id" THEN UndoVnf(withVnf, ul)
       ELSE IF VniFails(s, r.vni, f) THEN UndoHandle(withId, r, ul)
       ELSE IF OwnRouteFails(withIface, r.vni, r.ip4, f) THEN UndoIface(withIface, r, ul)
       ELSE IF OwnRouteFails(with4, r.vni, r.ip6, f) THEN UndoRoute(with4, r, ul)
       ELSE IF f \in {"meter", "start"} THEN UndoRoute6(with6, r, ul)
       ELSE dp_start_port(with6, r.port)

dp_process_create_interface(r, f) ==
    LET vnf == dp_fill_vnf_data("INTERFACE_IP", r.port, r.vni, None) IN
    /\ ~allocated[r.port]
    /\ FreeNumbers(vnf) # {}
    /\ Become(CreateInterfaceSteps(Tables, r, dp_generate_underlay_ipv6(vnf), f))

\* Carries on with the clean-up when the port cannot be stopped; the prefixes'
\* routes and underlay addresses stay
dp_process_delete_interface(id, f) ==
    LET port == dp_get_port_with_iface_id(id) IN
    /\ port # None
    /\ LET stopped == dp_stop_port(dp_del_vnf(Tables, iface[port].ul), port, f)
       IN Become(dp_delete_iface(dp_unmap_iface_id(stopped, id), port))

dp_process_get_interface(id) ==
    IF iface_id[id] = None THEN None ELSE iface[iface_id[id]]

dp_process_list_interfaces == {iface[p] : p \in {q \in Ports : iface[q] # None}}

(***************************************************************************)
(* Prefixes and routes                                                      *)
(***************************************************************************)
PrefixRequests == [id : Ids, pfx : Pfxs]

CreatePrefixSteps(s, port, vni, pfx, ul, f) ==
    LET routed == dp_add_route(s, port, vni, pfx)
        done   == dp_add_vnf(routed, ul, f)
    IN IF AddRouteFails(s, vni, pfx, f) THEN s
       ELSE IF f \in VnfFaults THEN dp_del_route(done, port, vni, pfx)
       ELSE done

dp_process_create_prefix(r, f) ==
    LET port == dp_get_port_with_iface_id(r.id)
        vnf  == dp_fill_vnf_data("ALIAS_PFX", port, iface[port].vni, r.pfx)
    IN /\ port # None
       /\ FreeNumbers(vnf) # {}
       /\ Become(CreatePrefixSteps(Tables, port, iface[port].vni, r.pfx,
                                   dp_generate_underlay_ipv6(vnf), f))

\* Mutant: the underlay address goes, the route stays
DeletePrefixKeepRoute(r) ==
    LET port == dp_get_port_with_iface_id(r.id) IN
    /\ port # None
    /\ Become(dp_del_vnf_by_value(Tables, dp_fill_vnf_data("ALIAS_PFX", port, iface[port].vni, r.pfx)))

\* The underlay address goes even when the route is not there
dp_process_delete_prefix(r) ==
    LET port == dp_get_port_with_iface_id(r.id)
        vni  == iface[port].vni
    IN /\ port # None
       /\ Become(dp_del_vnf_by_value(dp_del_route(Tables, port, vni, r.pfx),
                                     dp_fill_vnf_data("ALIAS_PFX", port, vni, r.pfx)))

dp_process_create_lbprefix(r, f) ==
    LET port == dp_get_port_with_iface_id(r.id)
        vnf  == dp_fill_vnf_data("LB_ALIAS_PFX", port, iface[port].vni, r.pfx)
    IN /\ port # None
       /\ ~dp_vnf_value_exists(Tables, vnf)
       /\ FreeNumbers(vnf) # {}
       /\ Become(dp_add_vnf(Tables, dp_generate_underlay_ipv6(vnf), f))

dp_process_delete_lbprefix(r) ==
    LET port == dp_get_port_with_iface_id(r.id) IN
    /\ port # None
    /\ Become(dp_del_vnf_by_value(Tables,
                  dp_fill_vnf_data("LB_ALIAS_PFX", port, iface[port].vni, r.pfx)))

RouteRequests == [vni : Vnis, dst : Addrs4 \cup Addrs6]

dp_process_create_route(r, f) ==
    /\ ~AddRouteFails(Tables, r.vni, r.dst, f)
    /\ Become(dp_add_route(Tables, Pf0, r.vni, r.dst))

dp_process_delete_route(r) == Become(dp_del_route(Tables, Pf0, r.vni, r.dst))

dp_process_reset_vni(vni) == Become(dp_lpm_reset_route_tables(Tables, {vni}))

\* The neighbour NAT entries it also deletes are in Nat
dp_process_initialize == Become(dp_lpm_reset_route_tables(Tables, Vnis))

(***************************************************************************)
(* Load balancers                                                           *)
(***************************************************************************)
LbRequests == [id : LbIds, key : LbKeys]

LbEntries(s, key) == {l \in s.lb : l.key = key}

\* An id that is known already is given the new key
dp_map_lb_handle(s, r) == [s EXCEPT !.lb_id[r.id] = r.key]

\* When the id cannot be mapped the record is freed and its entry stays
dp_create_lb(s, r, ul, f) ==
    LET entry(freed) == [key |-> r.key, ul |-> ul, freed |-> freed] IN
    IF f = "lb" THEN s
    ELSE IF f = "lb id" THEN [s EXCEPT !.lb = @ \cup {entry(TRUE)}]
    ELSE dp_map_lb_handle([s EXCEPT !.lb = @ \cup {entry(FALSE)}], r)

dp_get_lb(s, id) == LbEntries(s, s.lb_id[id])

\* Mutant: the id's entry stays
DeleteLbKeepId(s, id) == [s EXCEPT !.lb = @ \ dp_get_lb(s, id)]

dp_delete_lb(s, id) == [s EXCEPT !.lb = @ \ dp_get_lb(s, id), !.lb_id[id] = None]

CreateLbSteps(s, r, ul, f) ==
    LET withVnf == dp_add_vnf(s, ul, f)
        withLb  == dp_create_lb(withVnf, r, ul, f)
    IN IF f \in VnfFaults THEN withVnf
       ELSE IF LbEntries(s, r.key) # {} THEN dp_del_vnf(withVnf, ul)
       ELSE IF f \in {"lb", "lb id"} THEN dp_del_vnf(withLb, ul)
       ELSE IF VniFails(s, r.key[1], f) THEN dp_del_vnf(dp_delete_lb(withLb, r.id), ul)
       ELSE dp_create_vni_route_tables(withLb, r.key[1])

\* All load balancers of a VNI have the same record
dp_process_create_lb(r, f) ==
    LET vnf == dp_fill_vnf_data("LB", Pf0, r.key[1], None) IN
    /\ FreeNumbers(vnf) # {}
    /\ Become(CreateLbSteps(Tables, r, dp_generate_underlay_ipv6(vnf), f))

dp_process_delete_lb(id) ==
    \E l \in dp_get_lb(Tables, id) :
        Become(dp_delete_vni_route_tables(dp_delete_lb(dp_del_vnf(Tables, l.ul), id), l.key[1]))

(***************************************************************************)
(* dp_process_request                                                       *)
(***************************************************************************)
\* What can fail in a request, apart from what the tables refuse
Failing(steps) == (Faults \cap steps) \cup {"none"}

Create ==
    \/ \E r \in InterfaceRequests,
          f \in Failing(VnfFaults \cup {"id", "vni", "route", "meter", "start"}) :
           dp_process_create_interface(r, f)
    \/ \E r \in PrefixRequests, f \in Failing(VnfFaults \cup {"route"}) :
           dp_process_create_prefix(r, f)
    \/ \E r \in PrefixRequests, f \in Failing(VnfFaults) : dp_process_create_lbprefix(r, f)
    \/ \E r \in RouteRequests, f \in Failing({"route"}) : dp_process_create_route(r, f)
    \/ \E r \in LbRequests, f \in Failing(VnfFaults \cup {"vni", "lb", "lb id"}) :
           dp_process_create_lb(r, f)

Delete ==
    \/ \E id \in Ids, f \in Failing({"stop"}) : dp_process_delete_interface(id, f)
    \/ \E r \in PrefixRequests : \/ dp_process_delete_prefix(r)
                                 \/ dp_process_delete_lbprefix(r)
    \/ \E r \in RouteRequests : dp_process_delete_route(r)
    \/ \E id \in LbIds : dp_process_delete_lb(id)
    \/ \E v \in Vnis : dp_process_reset_vni(v)
    \/ dp_process_initialize

Next == Create \/ Delete

Spec == Init /\ [][Next]_vars

(***************************************************************************)
(* Properties                                                               *)
(***************************************************************************)
\* The tables hold what their C types allow.
TypeOK ==
    /\ iface \in [Ports -> Interfaces \cup {None}]
    /\ allocated \in [Ports -> BOOLEAN]
    /\ iface_id \in [Ids -> Ports \cup {None}]
    /\ vni_ref \in [Vnis -> Nat]
    /\ routes \subseteq Routes
    /\ vnf_handle \subseteq Underlays /\ vnf_value \subseteq Underlays
    /\ lb \subseteq Lbs
    /\ lb_id \in [LbIds -> LbKeys \cup {None}]
    /\ stuck \subseteq Ports

Ready == {p \in Ports : iface[p] # None}

\* The reference count of a VNI is the number of its interfaces and load
\* balancers, so that its routing tables are freed with the last of them and not
\* before, whatever requests failed half-way (dp_vni.c, dp_process_create_*).
VniRefExact ==
    \A v \in Vnis :
        vni_ref[v] = Cardinality({p \in Ready : iface[p].vni = v})
                   + Cardinality({l \in lb : l.key[1] = v /\ ~l.freed})

\* An interface exists in all the tables or in none of them: a creation that
\* fails at any step is undone completely, and a deletion leaves no id, no
\* underlay address and no allocated port behind, but for a port that the driver
\* refused to stop (dp_process_create_interface, dp_process_delete_interface).
InterfaceWhole ==
    /\ \A id \in Ids : iface_id[id] # None =>
           /\ iface_id[id] \in Ready /\ iface[iface_id[id]].id = id
           /\ dp_process_get_interface(id) \in dp_process_list_interfaces
    /\ \A p \in Ready : iface_id[iface[p].id] = p /\ allocated[p]
    /\ \A p \in Ports \ Ready : allocated[p] => p \in stuck
    /\ LET own == {iface[p].ul : p \in Ready}
           OfInterfaces(S) == {u \in S : u.vnf.type = "INTERFACE_IP"}
       IN OfInterfaces(vnf_handle) = own /\ OfInterfaces(vnf_value) = own

\* A route to a port is the route to an own address of its interface, or that of
\* a prefix which still has its underlay address and can be found by value, so
\* that DeletePrefix removes both (dp_process_create_prefix, dp_lpm.c).
LocalRouteOwned ==
    \A r \in routes : r.nh # Pf0 =>
        \/ r.nh \in Ready /\ iface[r.nh].vni = r.vni /\ r.dst \in {iface[r.nh].ip4, iface[r.nh].ip6}
        \/ \E u \in vnf_value \cap dp_list_vnf_alias_prefixes(r.nh, "ALIAS_PFX") :
               u.vnf.vni = r.vni /\ u.vnf.pfx = r.dst

\* An id of a load balancer leads to a live entry, whose underlay address is
\* known, and to a VNI with routing tables (dp_lb.c, dp_process_create_lb).
LbIdLive ==
    \A id \in LbIds : lb_id[id] # None =>
        \E l \in dp_get_lb(Tables, id) :
            ~l.freed /\ l.ul \in vnf_handle /\ vni_ref[l.key[1]] > 0
=============================================================================
