------------------------- MODULE ControlPlaneProofs -------------------------
(***************************************************************************)
(* Proofs about ControlPlane, for any number of ports, interfaces, VNIs,    *)
(* load balancers and requests, wherever a request fails: creating and      *)
(* deleting an interface changes all its tables or none of them, the        *)
(* references to a VNI are counted exactly, the id of a load balancer leads *)
(* to a live one, and a route to a port belongs to its interface.           *)
(***************************************************************************)
EXTENDS ControlPlane, FiniteSetTheorems, WellFoundedInduction, TLAPS

\* s has the fields of Tables and no others.
IsTables(s) ==
    s = [iface |-> s.iface, allocated |-> s.allocated, iface_id |-> s.iface_id,
         vni_ref |-> s.vni_ref, routes |-> s.routes, vnf_handle |-> s.vnf_handle,
         vnf_value |-> s.vnf_value, lb |-> s.lb, lb_id |-> s.lb_id, stuck |-> s.stuck]

OfInterfaces(S) == {u \in S : u.vnf.type = "INTERFACE_IP"}

ReadyIn(s) == {p \in Ports : s.iface[p] # None}

OwnIn(s) == {s.iface[p].ul : p \in ReadyIn(s)}

\* InterfaceWhole, with what makes it inductive: an interface's underlay address
\* is that of a record which names its port, and load balancers have other ones.
WholeIn(s) ==
    /\ IsTables(s)
    /\ s.iface \in [Ports -> Interfaces \cup {None}]
    /\ s.iface_id \in [Ids -> Ports \cup {None}]
    /\ s.allocated \in [Ports -> BOOLEAN]
    /\ \A id \in Ids : s.iface_id[id] # None =>
           s.iface[s.iface_id[id]] # None /\ s.iface[s.iface_id[id]].id = id
    /\ \A p \in ReadyIn(s) : s.iface_id[s.iface[p].id] = p /\ s.allocated[p]
    /\ \A p \in Ports : s.iface[p] = None /\ s.allocated[p] => p \in s.stuck
    /\ \A p \in ReadyIn(s) : s.iface[p].ul.vnf.port = p
                                /\ s.iface[p].ul.vnf.type = "INTERFACE_IP"
    /\ OfInterfaces(s.vnf_handle) = OwnIn(s)
    /\ OfInterfaces(s.vnf_value) = OwnIn(s)
    /\ \A l \in s.lb : l.ul.vnf.type = "LB"

\* t differs from s in routes and VNI references at most.
Same(s, t) ==
    /\ IsTables(t)
    /\ t.iface = s.iface /\ t.iface_id = s.iface_id /\ t.allocated = s.allocated
    /\ t.vnf_handle = s.vnf_handle /\ t.vnf_value = s.vnf_value
    /\ t.lb = s.lb /\ t.lb_id = s.lb_id /\ t.stuck = s.stuck

\* No VNI reference is left behind in t, and no route or load balancer's id.
Back(s, t) ==
    /\ s.vni_ref \in [Vnis -> Nat] => t.vni_ref = s.vni_ref
    /\ t.routes \subseteq s.routes
    /\ t.lb_id = s.lb_id

\* A request that failed.
Undone(s, t) == Same(s, t) /\ Back(s, t)

-----------------------------------------------------------------------------
\* The steps on which no interface depends

\* Tables that differ in the routes only are as whole.
LEMMA SameWhole ==
    ASSUME NEW s, NEW t, WholeIn(s), Same(s, t)
    PROVE  WholeIn(t)
BY DEF WholeIn, Same, ReadyIn, OwnIn

\* ... and so are tables that differ in other underlay addresses too.
LEMMA FrameWhole ==
    ASSUME NEW s, NEW t, WholeIn(s), IsTables(t),
           t.iface = s.iface, t.iface_id = s.iface_id, t.allocated = s.allocated,
           t.lb = s.lb, t.stuck = s.stuck,
           OfInterfaces(t.vnf_handle) = OfInterfaces(s.vnf_handle),
           OfInterfaces(t.vnf_value) = OfInterfaces(s.vnf_value)
    PROVE  WholeIn(t)
<1>1. ReadyIn(t) = ReadyIn(s) /\ OwnIn(t) = OwnIn(s)
  BY Zenon DEF ReadyIn, OwnIn
<1> QED
  BY <1>1 DEF WholeIn

\* ... or in load balancers.
LEMMA FrameLb ==
    ASSUME NEW s, NEW t, WholeIn(s), IsTables(t),
           t.iface = s.iface, t.iface_id = s.iface_id, t.allocated = s.allocated,
           t.vnf_handle = s.vnf_handle, t.vnf_value = s.vnf_value, t.stuck = s.stuck,
           \A l \in t.lb : l.ul.vnf.type = "LB"
    PROVE  WholeIn(t)
<1>1. ReadyIn(t) = ReadyIn(s) /\ OwnIn(t) = OwnIn(s)
  BY Zenon DEF ReadyIn, OwnIn
<1> QED
  BY <1>1 DEF WholeIn

\* Same is transitive.
LEMMA SameTrans ==
    ASSUME NEW s, NEW t, NEW u, Same(s, t), Same(t, u)
    PROVE  Same(s, u)
BY Zenon DEF Same

\* dp_add_route, dp_del_route and the VNI references change nothing else.
LEMMA RouteSame ==
    ASSUME NEW s, IsTables(s), NEW port, NEW vni, NEW dst
    PROVE  /\ Same(s, dp_add_route(s, port, vni, dst))
           /\ Same(s, dp_del_route(s, port, vni, dst))
           /\ Same(s, dp_create_vni_route_tables(s, vni))
           /\ Same(s, dp_delete_vni_route_tables(s, vni))
<1>1. Same(s, dp_add_route(s, port, vni, dst))
  BY DEF Same, IsTables, dp_add_route
<1>2. Same(s, dp_del_route(s, port, vni, dst))
  BY DEF Same, IsTables, dp_del_route
<1>3. Same(s, dp_create_vni_route_tables(s, vni))
  BY DEF Same, IsTables, dp_create_vni_route_tables
<1>4. Same(s, dp_delete_vni_route_tables(s, vni))
  <2>1. CASE s.vni_ref[vni] > 1
    BY <2>1, Zenon DEF Same, IsTables, dp_delete_vni_route_tables
  <2>2. CASE ~(s.vni_ref[vni] > 1)
    BY <2>2, Zenon DEF Same, IsTables, dp_delete_vni_route_tables
  <2> QED
    BY <2>1, <2>2, Zenon
<1> QED
  BY <1>1, <1>2, <1>3, <1>4, Zenon

\* Resetting the routes changes nothing else.
LEMMA ResetSame ==
    ASSUME NEW s, IsTables(s), NEW vnis
    PROVE  Same(s, dp_lpm_reset_route_tables(s, vnis))
<1>1. PICK R : dp_lpm_reset_route_tables(s, vnis) = [s EXCEPT !.routes = R]
  BY Zenon DEF dp_lpm_reset_route_tables
<1> QED
  BY <1>1, Zenon DEF Same, IsTables

\* Removing an underlay address takes it out of one table and its record out of
\* the other.
LEMMA DelVnf ==
    ASSUME NEW s, IsTables(s), NEW ul
    PROVE  LET t == dp_del_vnf(s, ul) IN
           /\ IsTables(t)
           /\ t.iface = s.iface /\ t.iface_id = s.iface_id /\ t.allocated = s.allocated
           /\ t.lb = s.lb /\ t.stuck = s.stuck
           /\ t.vnf_handle = s.vnf_handle \ {ul}
           /\ t.vnf_value = IF ul \in s.vnf_handle
                            THEN {u \in s.vnf_value : u.vnf # ul.vnf}
                            ELSE s.vnf_value
           /\ t.vni_ref = s.vni_ref /\ t.routes = s.routes /\ t.lb_id = s.lb_id
<1>1. CASE ul \in s.vnf_handle
  BY <1>1, Zenon DEF IsTables, dp_del_vnf, dp_delete_vnf_value
<1>2. CASE ul \notin s.vnf_handle
  BY <1>2, Zenon DEF IsTables, dp_del_vnf, dp_delete_vnf_value
<1> QED
  BY <1>1, <1>2, Zenon

\* An underlay address that is not an interface's goes: interfaces stay whole.
LEMMA DelOther ==
    ASSUME NEW s, WholeIn(s), NEW ul, ul.vnf.type # "INTERFACE_IP"
    PROVE  WholeIn(dp_del_vnf(s, ul))
<1> DEFINE t == dp_del_vnf(s, ul)
<1>1. /\ IsTables(t)
      /\ t.iface = s.iface /\ t.iface_id = s.iface_id /\ t.allocated = s.allocated
      /\ t.lb = s.lb /\ t.stuck = s.stuck
      /\ t.vnf_handle = s.vnf_handle \ {ul}
      /\ t.vnf_value = IF ul \in s.vnf_handle
                       THEN {u \in s.vnf_value : u.vnf # ul.vnf}
                       ELSE s.vnf_value
  <2>1. IsTables(s)
    BY Zenon DEF WholeIn
  <2> QED
    BY <2>1, DelVnf
<1> HIDE DEF t
<1>2. OfInterfaces(t.vnf_handle) = OfInterfaces(s.vnf_handle)
  BY <1>1, Zenon DEF OfInterfaces
<1>3. OfInterfaces(t.vnf_value) = OfInterfaces(s.vnf_value)
  BY <1>1 DEF OfInterfaces
<1>4. WholeIn(t)
  BY <1>1, <1>2, <1>3, FrameWhole, Zenon
<1> QED
  BY <1>4, Zenon DEF t

\* ... and so with one that is added, even when adding it fails half-way.
LEMMA AddOther ==
    ASSUME NEW s, WholeIn(s), NEW ul, ul.vnf.type # "INTERFACE_IP", NEW f
    PROVE  WholeIn(dp_add_vnf(s, ul, f))
<1> DEFINE added == [s EXCEPT !.vnf_handle = @ \cup {ul}]
<1>1. /\ IsTables(added)
      /\ added.iface = s.iface /\ added.iface_id = s.iface_id
      /\ added.allocated = s.allocated /\ added.lb = s.lb /\ added.stuck = s.stuck
      /\ added.vnf_handle = s.vnf_handle \cup {ul} /\ added.vnf_value = s.vnf_value
  <2>1. IsTables(s)
    BY Zenon DEF WholeIn
  <2> QED
    BY <2>1 DEF IsTables
<1>2. dp_add_vnf(s, ul, f) = IF f = "vnf handle" THEN s
                             ELSE IF f = "vnf value" THEN dp_del_vnf(added, ul)
                             ELSE dp_add_vnf_value(added, ul)
  BY Zenon DEF dp_add_vnf
<1> HIDE DEF added
<1>3. OfInterfaces(added.vnf_handle) = OfInterfaces(s.vnf_handle)
  BY <1>1, Zenon DEF OfInterfaces
<1>4. WholeIn(added)
  BY <1>1, <1>3, FrameWhole, Zenon
<1>5. WholeIn(dp_del_vnf(added, ul))
  BY <1>4, DelOther, Zenon
<1>6. WholeIn(dp_add_vnf_value(added, ul))
  <2> DEFINE t == dp_add_vnf_value(added, ul)
  <2>1. /\ IsTables(t)
        /\ t.iface = added.iface /\ t.iface_id = added.iface_id
        /\ t.allocated = added.allocated /\ t.lb = added.lb /\ t.stuck = added.stuck
        /\ t.vnf_handle = added.vnf_handle
        /\ t.vnf_value = {u \in added.vnf_value : u.vnf # ul.vnf} \cup {ul}
    BY <1>1 DEF IsTables, dp_add_vnf_value
  <2> HIDE DEF t
  <2>2. OfInterfaces(t.vnf_value) = OfInterfaces(added.vnf_value)
    BY <2>1, Zenon DEF OfInterfaces
  <2>3. WholeIn(t)
    BY <1>4, <2>1, <2>2, FrameWhole, Zenon
  <2> QED
    BY <2>3, Zenon DEF t
<1> QED
  BY <1>2, <1>5, <1>6, Zenon

\* ... and when it is removed by value.
LEMMA DelByValueOther ==
    ASSUME NEW s, WholeIn(s), NEW vnf, vnf.type # "INTERFACE_IP"
    PROVE  WholeIn(dp_del_vnf_by_value(s, vnf))
<1>1. CASE dp_vnf_value_exists(s, vnf)
  <2> DEFINE ul == CHOOSE u \in s.vnf_value : u.vnf = vnf
  <2>1. ul.vnf = vnf
    BY <1>1, Zenon DEF dp_vnf_value_exists
  <2> HIDE DEF ul
  <2>2. WholeIn(dp_del_vnf(s, ul))
    BY <2>1, DelOther, Zenon
  <2> QED
    BY <1>1, <2>2, Zenon DEF dp_del_vnf_by_value, ul
<1>2. CASE ~dp_vnf_value_exists(s, vnf)
  BY <1>2, Zenon DEF dp_del_vnf_by_value
<1> QED
  BY <1>1, <1>2, Zenon

-----------------------------------------------------------------------------
\* Creating an interface

\* The stages of dp_process_create_interface after s: the underlay address is
\* added; the id is mapped; the interface is set up.
VnfStage(s, t, ul) ==
    /\ IsTables(t) /\ Back(s, t)
    /\ t.iface = s.iface /\ t.iface_id = s.iface_id /\ t.allocated = s.allocated
    /\ t.lb = s.lb /\ t.stuck = s.stuck
    /\ t.vnf_handle = s.vnf_handle \cup {ul} /\ t.vnf_value = s.vnf_value \cup {ul}

HandleStage(s, t, r, ul) ==
    /\ IsTables(t) /\ Back(s, t)
    /\ t.iface = s.iface /\ t.iface_id = [s.iface_id EXCEPT ![r.id] = r.port]
    /\ t.allocated = s.allocated /\ t.lb = s.lb /\ t.stuck = s.stuck
    /\ t.vnf_handle = s.vnf_handle \cup {ul} /\ t.vnf_value = s.vnf_value \cup {ul}

\* The routes to an interface's own addresses.
RoutesOf(port, i) ==
    {[vni |-> i.vni, dst |-> i.ip4, nh |-> port], [vni |-> i.vni, dst |-> i.ip6, nh |-> port]}

\* One more VNI reference, and routes to the addresses of the new interface.
Grown(s, t, r) ==
    /\ s.vni_ref \in [Vnis -> Nat] => t.vni_ref = [s.vni_ref EXCEPT ![r.vni] = @ + 1]
    /\ t.routes \subseteq s.routes \cup RoutesOf(r.port, r)
    /\ t.lb_id = s.lb_id

IfaceStage(s, t, r, ul) ==
    /\ IsTables(t) /\ Grown(s, t, r)
    /\ t.iface = [s.iface EXCEPT ![r.port] = [id |-> r.id, vni |-> r.vni, ip4 |-> r.ip4,
                                              ip6 |-> r.ip6, ul |-> ul]]
    /\ t.iface_id = [s.iface_id EXCEPT ![r.id] = r.port]
    /\ t.allocated = s.allocated /\ t.lb = s.lb /\ t.stuck = s.stuck
    /\ t.vnf_handle = s.vnf_handle \cup {ul} /\ t.vnf_value = s.vnf_value \cup {ul}

\* What the request finds: a port that is not in use, and an address for its record.
Creatable(s, r, ul) ==
    /\ WholeIn(s)
    /\ r \in InterfaceRequests
    /\ ~s.allocated[r.port]
    /\ ul \in Underlays /\ ul.vnf.type = "INTERFACE_IP" /\ ul.vnf.port = r.port

\* A free port has no interface and no underlay address.
LEMMA FreePort ==
    ASSUME NEW s, NEW r, NEW ul, Creatable(s, r, ul)
    PROVE  /\ r.port \in Ports /\ r.id \in Ids
           /\ s.iface[r.port] = None
           /\ \A u \in s.vnf_handle \cup s.vnf_value : u.vnf # ul.vnf
<1>1. r.port \in Ports /\ r.id \in Ids
  BY Zenon DEF Creatable, InterfaceRequests
<1>2. s.iface[r.port] = None
  BY <1>1, Zenon DEF Creatable, WholeIn, ReadyIn
<1>3. ASSUME NEW u \in s.vnf_handle \cup s.vnf_value, u.vnf = ul.vnf
      PROVE  FALSE
  <2>1. u \in OwnIn(s)
    BY <1>3 DEF Creatable, WholeIn, OfInterfaces
  <2>2. PICK p \in ReadyIn(s) : u = s.iface[p].ul
    BY <2>1, Zenon DEF OwnIn
  <2>3. u.vnf.port = p
    BY <2>2, Zenon DEF Creatable, WholeIn
  <2> QED
    BY <1>2, <1>3, <2>2, <2>3, Zenon DEF Creatable, ReadyIn
<1> QED
  BY <1>1, <1>2, <1>3, Zenon

\* dp_add_vnf adds the address, or leaves nothing behind.
LEMMA AddOwn ==
    ASSUME NEW s, NEW r, NEW ul, Creatable(s, r, ul), NEW f
    PROVE  IF f \in VnfFaults THEN Undone(s, dp_add_vnf(s, ul, f))
                              ELSE VnfStage(s, dp_add_vnf(s, ul, f), ul)
<1> DEFINE added == [s EXCEPT !.vnf_handle = @ \cup {ul}]
<1>1. IsTables(s)
  BY Zenon DEF Creatable, WholeIn
<1>2. \A u \in s.vnf_handle \cup s.vnf_value : u.vnf # ul.vnf
  BY FreePort, Zenon
<1>3. /\ IsTables(added)
      /\ added.iface = s.iface /\ added.iface_id = s.iface_id
      /\ added.allocated = s.allocated /\ added.lb = s.lb /\ added.stuck = s.stuck
      /\ added.vnf_handle = s.vnf_handle \cup {ul} /\ added.vnf_value = s.vnf_value
      /\ added.vni_ref = s.vni_ref /\ added.routes = s.routes /\ added.lb_id = s.lb_id
  BY <1>1 DEF IsTables
<1>4. dp_add_vnf(s, ul, f) = IF f = "vnf handle" THEN s
                             ELSE IF f = "vnf value" THEN dp_del_vnf(added, ul)
                             ELSE dp_add_vnf_value(added, ul)
  BY Zenon DEF dp_add_vnf
<1> HIDE DEF added
<1>5. Undone(s, s)
  BY <1>1, Zenon DEF Undone, Same, Back
<1>6. Undone(s, dp_del_vnf(added, ul))
  <2> DEFINE t == dp_del_vnf(added, ul)
  <2>1. /\ IsTables(t)
        /\ t.vni_ref = added.vni_ref /\ t.routes = added.routes /\ t.lb_id = added.lb_id
        /\ t.iface = added.iface /\ t.iface_id = added.iface_id
        /\ t.allocated = added.allocated /\ t.lb = added.lb /\ t.stuck = added.stuck
        /\ t.vnf_handle = added.vnf_handle \ {ul}
        /\ t.vnf_value = IF ul \in added.vnf_handle
                         THEN {u \in added.vnf_value : u.vnf # ul.vnf}
                         ELSE added.vnf_value
    BY <1>3, DelVnf, Zenon
  <2> HIDE DEF t
  <2>2. t.vnf_handle = s.vnf_handle /\ t.vnf_value = s.vnf_value
    BY <1>2, <1>3, <2>1, Zenon
  <2>3. Undone(s, t)
    BY <1>3, <2>1, <2>2, Zenon DEF Undone, Same, Back
  <2> QED
    BY <2>3, Zenon DEF t
<1>7. VnfStage(s, dp_add_vnf_value(added, ul), ul)
  <2> DEFINE t == dp_add_vnf_value(added, ul)
  <2>0. IsTables(added)
    BY <1>3, Zenon
  <2>1. /\ IsTables(t)
        /\ t.iface = added.iface /\ t.iface_id = added.iface_id
        /\ t.allocated = added.allocated /\ t.lb = added.lb /\ t.stuck = added.stuck
        /\ t.vnf_handle = added.vnf_handle
        /\ t.vnf_value = {u \in added.vnf_value : u.vnf # ul.vnf} \cup {ul}
    BY <2>0 DEF IsTables, dp_add_vnf_value
  <2>4. t.vni_ref = added.vni_ref /\ t.routes = added.routes /\ t.lb_id = added.lb_id
    BY <2>0, Zenon DEF IsTables, dp_add_vnf_value
  <2> HIDE DEF t
  <2>2. t.vnf_value = s.vnf_value \cup {ul}
    BY <1>2, <1>3, <2>1, Zenon
  <2>3. VnfStage(s, t, ul)
    BY <1>3, <2>1, <2>2, <2>4, Zenon DEF VnfStage, Back
  <2> QED
    BY <2>3, Zenon DEF t
<1> QED
  BY <1>4, <1>5, <1>6, <1>7, Zenon DEF VnfFaults

\* err_vnf: the address goes again.
LEMMA UndoVnfSame ==
    ASSUME NEW s, NEW r, NEW ul, Creatable(s, r, ul), NEW t, VnfStage(s, t, ul)
    PROVE  Undone(s, UndoVnf(t, ul))
<1> DEFINE w == dp_del_vnf(t, ul)
<1>1. \A u \in s.vnf_handle \cup s.vnf_value : u.vnf # ul.vnf
  BY FreePort, Zenon
<1>2. IsTables(t)
  BY Zenon DEF VnfStage
<1>3. /\ IsTables(w)
      /\ w.iface = t.iface /\ w.iface_id = t.iface_id /\ w.allocated = t.allocated
      /\ w.lb = t.lb /\ w.stuck = t.stuck
      /\ w.vnf_handle = t.vnf_handle \ {ul}
      /\ w.vnf_value = IF ul \in t.vnf_handle
                       THEN {u \in t.vnf_value : u.vnf # ul.vnf}
                       ELSE t.vnf_value
      /\ w.vni_ref = t.vni_ref /\ w.routes = t.routes /\ w.lb_id = t.lb_id
  BY <1>2, DelVnf, Zenon
<1> HIDE DEF w
<1>4. w.vnf_handle = s.vnf_handle /\ w.vnf_value = s.vnf_value
  BY <1>1, <1>3 DEF VnfStage
<1>5. Undone(s, w)
  BY <1>3, <1>4, Zenon DEF Undone, Same, Back, VnfStage
<1> QED
  BY <1>5, Zenon DEF w, UndoVnf

\* handle_err: and the id.
LEMMA UndoHandleSame ==
    ASSUME NEW s, NEW r, NEW ul, Creatable(s, r, ul), s.iface_id[r.id] = None,
           NEW t, HandleStage(s, t, r, ul)
    PROVE  Undone(s, UndoHandle(t, r, ul))
<1> DEFINE w == dp_unmap_iface_id(t, r.id)
<1>1. /\ IsTables(w)
      /\ w.iface = t.iface /\ w.iface_id = [t.iface_id EXCEPT ![r.id] = None]
      /\ w.allocated = t.allocated /\ w.lb = t.lb /\ w.stuck = t.stuck
      /\ w.vnf_handle = t.vnf_handle /\ w.vnf_value = t.vnf_value
      /\ w.vni_ref = t.vni_ref /\ w.routes = t.routes /\ w.lb_id = t.lb_id
  BY DEF HandleStage, IsTables, dp_unmap_iface_id
<1> HIDE DEF w
<1>2. s.iface_id \in [Ids -> Ports \cup {None}]
  BY Zenon DEF Creatable, WholeIn
<1>3. r.id \in Ids
  BY FreePort, Zenon
<1>4. w.iface_id = s.iface_id
  BY <1>1, <1>2, <1>3, Zenon DEF HandleStage
<1>5. VnfStage(s, w, ul)
  BY <1>1, <1>4, Zenon DEF VnfStage, HandleStage, Back
<1>6. Undone(s, UndoVnf(w, ul))
  BY <1>5, UndoVnfSame, Zenon
<1> QED
  BY <1>6, Zenon DEF w, UndoHandle

\* The reference counts with one reference less.
Released(ref, vni) == [ref EXCEPT ![vni] = IF ref[vni] > 1 THEN ref[vni] - 1 ELSE 0]

\* A reference that is taken and released leaves the counts as they were.
LEMMA ReleasedAgain ==
    ASSUME NEW ref \in [Vnis -> Nat], NEW vni \in Vnis
    PROVE  Released([ref EXCEPT ![vni] = @ + 1], vni) = ref
<1> DEFINE up == [ref EXCEPT ![vni] = @ + 1]
<1>1. up \in [Vnis -> Nat] /\ up[vni] = ref[vni] + 1 /\ \A v \in Vnis \ {vni} : up[v] = ref[v]
  OBVIOUS
<1>2. ref[vni] \in Nat
  BY Zenon
<1>3. (IF up[vni] > 1 THEN up[vni] - 1 ELSE 0) = ref[vni]
  <2> DEFINE n == ref[vni]
             m == up[vni]
  <2>1. n \in Nat /\ m = n + 1
    BY <1>1, <1>2, Zenon
  <2> HIDE DEF n, m, up
  <2>2. (IF m > 1 THEN m - 1 ELSE 0) = n
    BY <2>1
  <2> QED
    BY <2>2, Zenon DEF n, m
<1>4. Released(up, vni) = [up EXCEPT ![vni] = ref[vni]]
  BY <1>3, Zenon DEF Released
<1> HIDE DEF up
<1>5. [up EXCEPT ![vni] = ref[vni]] = ref
  BY <1>1, Zenon
<1> QED
  BY <1>4, <1>5, Zenon DEF up

\* What the steps on routes and VNI references do to those: a route is added,
LEMMA RouteAdded ==
    ASSUME NEW s, IsTables(s), NEW port, NEW vni, NEW dst
    PROVE  LET t == dp_add_route(s, port, vni, dst) IN
           /\ t.vni_ref = s.vni_ref
           /\ t.routes = s.routes \cup {[vni |-> vni, dst |-> dst, nh |-> port]}
BY Zenon DEF IsTables, dp_add_route

\* or deleted,
LEMMA RouteDeleted ==
    ASSUME NEW s, IsTables(s), NEW port, NEW vni, NEW dst
    PROVE  LET t == dp_del_route(s, port, vni, dst) IN
           /\ t.vni_ref = s.vni_ref
           /\ t.routes = s.routes \ {[vni |-> vni, dst |-> dst, nh |-> port]}
BY Zenon DEF IsTables, dp_del_route

\* a reference is taken,
LEMMA VniTaken ==
    ASSUME NEW s, IsTables(s), NEW vni
    PROVE  LET t == dp_create_vni_route_tables(s, vni) IN
           /\ t.vni_ref = [s.vni_ref EXCEPT ![vni] = @ + 1]
           /\ t.routes = s.routes
BY Zenon DEF IsTables, dp_create_vni_route_tables

\* or released, the routes of the VNI with the last one.
LEMMA VniReleased ==
    ASSUME NEW s, IsTables(s), NEW vni
    PROVE  LET t == dp_delete_vni_route_tables(s, vni) IN
           /\ t.vni_ref = Released(s.vni_ref, vni)
           /\ t.routes \subseteq s.routes
<1>1. CASE s.vni_ref[vni] > 1
  BY <1>1, Zenon DEF IsTables, dp_delete_vni_route_tables, Released
<1>2. CASE ~(s.vni_ref[vni] > 1)
  BY <1>2, Zenon DEF IsTables, dp_delete_vni_route_tables, Released
<1> QED
  BY <1>1, <1>2, Zenon

\* The tables w without the interface of port.
IfaceDeleted(t, port, w) ==
    /\ IsTables(w)
    /\ w.iface = [t.iface EXCEPT ![port] = None]
    /\ w.iface_id = t.iface_id /\ w.allocated = t.allocated
    /\ w.lb = t.lb /\ w.lb_id = t.lb_id /\ w.stuck = t.stuck
    /\ w.vnf_handle = t.vnf_handle /\ w.vnf_value = t.vnf_value
    /\ w.routes \subseteq t.routes \ RoutesOf(port, t.iface[port])
    /\ w.vni_ref = Released(t.vni_ref, t.iface[port].vni)

\* dp_delete_iface leaves the other tables as they were.
LEMMA DeleteIface ==
    ASSUME NEW t, IsTables(t), NEW port, NEW w, w = dp_delete_iface(t, port)
    PROVE  IfaceDeleted(t, port, w)
<1> DEFINE i == t.iface[port]
           a == dp_del_route(t, port, i.vni, i.ip4)
           b == dp_del_route(a, port, i.vni, i.ip6)
           c == dp_delete_vni_route_tables(b, i.vni)
<1>1. Same(t, a)
  BY RouteSame, Zenon
<1>2. Same(a, b)
  <2>1. IsTables(a)
    BY <1>1, Zenon DEF Same
  <2> HIDE DEF a
  <2> QED
    BY <2>1, RouteSame, Zenon
<1>3. Same(b, c)
  <2>1. IsTables(b)
    BY <1>2, Zenon DEF Same
  <2> HIDE DEF b
  <2> QED
    BY <2>1, RouteSame, Zenon
<1>4. w = [c EXCEPT !.iface[port] = None]
  BY Zenon DEF dp_delete_iface
<1> HIDE DEF a, b, c
<1>5. Same(t, c)
  BY <1>1, <1>2, <1>3, SameTrans, Zenon
<1>6. /\ c.routes \subseteq t.routes \ RoutesOf(port, i)
      /\ c.vni_ref = Released(t.vni_ref, i.vni)
  <2> DEFINE r4 == [vni |-> i.vni, dst |-> i.ip4, nh |-> port]
             r6 == [vni |-> i.vni, dst |-> i.ip6, nh |-> port]
  <2>0. IsTables(a) /\ IsTables(b)
    BY <1>1, <1>2, Zenon DEF Same
  <2>1. a.vni_ref = t.vni_ref /\ a.routes = t.routes \ {r4}
    BY RouteDeleted DEF a
  <2>2. b.vni_ref = a.vni_ref /\ b.routes = a.routes \ {r6}
    BY <2>0, RouteDeleted DEF b
  <2>3. c.vni_ref = Released(b.vni_ref, i.vni) /\ c.routes \subseteq b.routes
    BY <2>0, VniReleased, Zenon DEF c
  <2>4. RoutesOf(port, i) = {r4, r6}
    BY Zenon DEF RoutesOf
  <2> HIDE DEF r4, r6
  <2> QED
    BY <2>1, <2>2, <2>3, <2>4, Zenon
<1> HIDE DEF i
<1>7. c.iface = t.iface
  BY <1>5, Zenon DEF Same
<1>8. /\ IsTables(w) /\ w.iface = [c.iface EXCEPT ![port] = None]
      /\ w.iface_id = c.iface_id /\ w.allocated = c.allocated
      /\ w.lb = c.lb /\ w.lb_id = c.lb_id /\ w.stuck = c.stuck
      /\ w.vnf_handle = c.vnf_handle /\ w.vnf_value = c.vnf_value
      /\ w.routes = c.routes /\ w.vni_ref = c.vni_ref
  BY <1>4, <1>5, Zenon DEF Same, IsTables
<1> QED
  BY <1>5, <1>6, <1>7, <1>8, Zenon DEF Same, i, IfaceDeleted

\* iface_err: and the interface.
LEMMA UndoIfaceSame ==
    ASSUME NEW s, NEW r, NEW ul, Creatable(s, r, ul), s.iface_id[r.id] = None,
           NEW t, IfaceStage(s, t, r, ul)
    PROVE  Undone(s, UndoIface(t, r, ul))
<1> DEFINE w == dp_delete_iface(t, r.port)
           i == t.iface[r.port]
<1> HIDE DEF w, i
<1>1. IsTables(t)
  BY Zenon DEF IfaceStage
<1>2. /\ IsTables(w)
      /\ w.iface = [t.iface EXCEPT ![r.port] = None]
      /\ w.iface_id = t.iface_id /\ w.allocated = t.allocated
      /\ w.lb = t.lb /\ w.lb_id = t.lb_id /\ w.stuck = t.stuck
      /\ w.vnf_handle = t.vnf_handle /\ w.vnf_value = t.vnf_value
      /\ w.routes \subseteq t.routes \ RoutesOf(r.port, i)
      /\ w.vni_ref = Released(t.vni_ref, i.vni)
  <2>1. w = dp_delete_iface(t, r.port) /\ i = t.iface[r.port]
    BY Zenon DEF w, i
  <2>2. IfaceDeleted(t, r.port, w)
    BY <1>1, <2>1, DeleteIface, Zenon
  <2> QED
    BY <2>1, <2>2, Zenon DEF IfaceDeleted
<1>3. s.iface \in [Ports -> Interfaces \cup {None}]
  BY Zenon DEF Creatable, WholeIn
<1>4. r.port \in Ports /\ s.iface[r.port] = None
  BY FreePort, Zenon
<1>5. w.iface = s.iface
  BY <1>2, <1>3, <1>4 DEF IfaceStage
<1>6. Back(s, w)
  <2>1. i.vni = r.vni /\ i.ip4 = r.ip4 /\ i.ip6 = r.ip6
    BY <1>3, <1>4 DEF IfaceStage, i
  <2>2. RoutesOf(r.port, i) = RoutesOf(r.port, r)
    BY <2>1, Zenon DEF RoutesOf
  <2>3. w.routes \subseteq s.routes
    BY <1>2, <2>2, Zenon DEF IfaceStage, Grown
  <2>4. ASSUME s.vni_ref \in [Vnis -> Nat] PROVE w.vni_ref = s.vni_ref
    <3>1. t.vni_ref = [s.vni_ref EXCEPT ![r.vni] = @ + 1] /\ r.vni \in Vnis
      BY <2>4, Zenon DEF IfaceStage, Grown, Creatable, InterfaceRequests
    <3>2. w.vni_ref = Released(t.vni_ref, r.vni)
      BY <1>2, <2>1, Zenon
    <3> QED
      BY <2>4, <3>1, <3>2, ReleasedAgain, Zenon
  <2>5. w.lb_id = s.lb_id
    BY <1>2, Zenon DEF IfaceStage, Grown
  <2> QED
    BY <2>3, <2>4, <2>5, Zenon DEF Back
<1>8. HandleStage(s, w, r, ul)
  BY <1>2, <1>5, <1>6, Zenon DEF HandleStage, IfaceStage
<1>9. Undone(s, UndoHandle(w, r, ul))
  BY <1>8, UndoHandleSame, Zenon
<1> QED
  BY <1>9, Zenon DEF w, UndoIface

\* Routes do not change the stage.
LEMMA StageRoute ==
    ASSUME NEW s, NEW r, NEW ul, NEW t, NEW w, IfaceStage(s, t, r, ul), Same(t, w),
           w.vni_ref = t.vni_ref, w.routes \subseteq t.routes \cup RoutesOf(r.port, r)
    PROVE  IfaceStage(s, w, r, ul)
BY Zenon DEF IfaceStage, Same, Grown

\* route_err and route6_err.
LEMMA UndoRouteSame ==
    ASSUME NEW s, NEW r, NEW ul, Creatable(s, r, ul), s.iface_id[r.id] = None,
           NEW t, IfaceStage(s, t, r, ul)
    PROVE  Undone(s, UndoRoute(t, r, ul)) /\ Undone(s, UndoRoute6(t, r, ul))
<1>1. ASSUME NEW x, IfaceStage(s, x, r, ul)
      PROVE  Undone(s, UndoRoute(x, r, ul))
  <2> DEFINE w == dp_del_route(x, r.port, r.vni, r.ip4)
  <2>1. IsTables(x)
    BY <1>1, Zenon DEF IfaceStage
  <2>2. Same(x, w)
    BY <2>1, RouteSame, Zenon
  <2>5. w.vni_ref = x.vni_ref /\ w.routes = x.routes \ {[vni |-> r.vni, dst |-> r.ip4, nh |-> r.port]}
    BY <2>1, RouteDeleted
  <2> HIDE DEF w
  <2>3. IfaceStage(s, w, r, ul)
    BY <1>1, <2>2, <2>5, StageRoute, Zenon
  <2>4. Undone(s, UndoIface(w, r, ul))
    BY <2>3, UndoIfaceSame, Zenon
  <2> QED
    BY <2>4, Zenon DEF w, UndoRoute
<1>2. Undone(s, UndoRoute6(t, r, ul))
  <2> DEFINE w == dp_del_route(t, r.port, r.vni, r.ip6)
  <2>1. IsTables(t)
    BY Zenon DEF IfaceStage
  <2>2. Same(t, w)
    BY <2>1, RouteSame, Zenon
  <2>5. w.vni_ref = t.vni_ref /\ w.routes = t.routes \ {[vni |-> r.vni, dst |-> r.ip6, nh |-> r.port]}
    BY <2>1, RouteDeleted
  <2> HIDE DEF w
  <2>3. IfaceStage(s, w, r, ul)
    BY <2>2, <2>5, StageRoute, Zenon
  <2>4. Undone(s, UndoRoute(w, r, ul))
    BY <1>1, <2>3, Zenon
  <2> QED
    BY <2>4, Zenon DEF w, UndoRoute6
<1> QED
  BY <1>1, <1>2, Zenon

\* Starting the port completes the interface.
LEMMA StartWhole ==
    ASSUME NEW s, NEW r, NEW ul, Creatable(s, r, ul), s.iface_id[r.id] = None,
           NEW t, IfaceStage(s, t, r, ul)
    PROVE  WholeIn(dp_start_port(t, r.port))
<1> DEFINE w == dp_start_port(t, r.port)
           i == [id |-> r.id, vni |-> r.vni, ip4 |-> r.ip4, ip6 |-> r.ip6, ul |-> ul]
<1>1. /\ IsTables(w)
      /\ w.iface = [s.iface EXCEPT ![r.port] = i]
      /\ w.iface_id = [s.iface_id EXCEPT ![r.id] = r.port]
      /\ w.allocated = [s.allocated EXCEPT ![r.port] = TRUE]
      /\ w.lb = s.lb /\ w.stuck = s.stuck
      /\ w.vnf_handle = s.vnf_handle \cup {ul} /\ w.vnf_value = s.vnf_value \cup {ul}
  <2>1. IsTables(t)
    BY Zenon DEF IfaceStage
  <2>2. /\ IsTables(w)
        /\ w.iface = t.iface /\ w.iface_id = t.iface_id /\ w.lb = t.lb
        /\ w.allocated = [t.allocated EXCEPT ![r.port] = TRUE]
        /\ w.stuck = t.stuck /\ w.vnf_handle = t.vnf_handle /\ w.vnf_value = t.vnf_value
    <3> HIDE DEF i
    <3>1. w = [t EXCEPT !.allocated = [t.allocated EXCEPT ![r.port] = TRUE]]
      BY Zenon DEF dp_start_port
    <3> HIDE DEF w
    <3> QED
      BY <2>1, <3>1, Zenon DEF IsTables
  <2> HIDE DEF w
  <2> QED
    BY <2>2, Zenon DEF IfaceStage
<1>2. i \in Interfaces /\ i.ul = ul /\ i.id = r.id
  BY Zenon DEF Creatable, InterfaceRequests, Interfaces
<1>3. i # None
  BY <1>2, ConstantsAssumption, Zenon
<1> HIDE DEF w, i
<1>4. r.port \in Ports /\ r.id \in Ids /\ s.iface[r.port] = None
  BY FreePort, Zenon
<1>5. /\ s.iface \in [Ports -> Interfaces \cup {None}]
      /\ s.iface_id \in [Ids -> Ports \cup {None}]
      /\ s.allocated \in [Ports -> BOOLEAN]
  BY Zenon DEF Creatable, WholeIn
<1>6. /\ w.iface \in [Ports -> Interfaces \cup {None}]
      /\ w.iface_id \in [Ids -> Ports \cup {None}]
      /\ w.allocated \in [Ports -> BOOLEAN]
  BY <1>1, <1>2, <1>4, <1>5
<1>7. ReadyIn(w) = ReadyIn(s) \cup {r.port} /\ r.port \notin ReadyIn(s)
  BY <1>1, <1>3, <1>4, <1>5 DEF ReadyIn
<1>8. \A p \in ReadyIn(s) : w.iface[p] = s.iface[p]
  BY <1>1, <1>5, <1>7, Zenon DEF ReadyIn
<1>9. w.iface[r.port] = i
  BY <1>1, <1>4, <1>5, Zenon
<1>10. \A id \in Ids : w.iface_id[id] # None =>
           w.iface[w.iface_id[id]] # None /\ w.iface[w.iface_id[id]].id = id
  <2> SUFFICES ASSUME NEW id \in Ids, w.iface_id[id] # None
               PROVE  w.iface[w.iface_id[id]] # None /\ w.iface[w.iface_id[id]].id = id
    BY Zenon
  <2>1. CASE id = r.id
    BY <1>1, <1>2, <1>3, <1>4, <1>5, <1>9, <2>1, Zenon
  <2>2. CASE id # r.id
    <3>1. w.iface_id[id] = s.iface_id[id] /\ s.iface_id[id] \in Ports
      BY <1>1, <1>5, <2>2
    <3>2. s.iface[s.iface_id[id]] # None /\ s.iface[s.iface_id[id]].id = id
      BY <3>1, Zenon DEF Creatable, WholeIn
    <3>3. s.iface_id[id] \in ReadyIn(s)
      BY <3>1, <3>2, Zenon DEF ReadyIn
    <3> QED
      BY <1>8, <3>1, <3>2, <3>3, Zenon
  <2> QED
    BY <2>1, <2>2, Zenon
<1>11. \A p \in ReadyIn(w) : w.iface_id[w.iface[p].id] = p /\ w.allocated[p]
  <2> SUFFICES ASSUME NEW p \in ReadyIn(w)
               PROVE  w.iface_id[w.iface[p].id] = p /\ w.allocated[p]
    BY Zenon
  <2>1. CASE p = r.port
    BY <1>1, <1>2, <1>4, <1>5, <1>9, <2>1, Zenon
  <2>2. CASE p \in ReadyIn(s)
    <3>1. s.iface_id[s.iface[p].id] = p /\ s.allocated[p]
      BY <2>2, Zenon DEF Creatable, WholeIn
    <3>2. p \in Ports /\ s.iface[p] \in Interfaces
      BY <1>5, <2>2, Zenon DEF ReadyIn
    <3>3. s.iface[p].id \in Ids
      BY <3>2, Zenon DEF Interfaces
    <3>4. p # None
      BY <3>2, ConstantsAssumption, Zenon
    <3>5. s.iface[p].id # r.id
      BY <3>1, <3>4, Zenon
    <3>6. p # r.port
      BY <1>7, <2>2, Zenon
    <3>7. w.iface[p] = s.iface[p]
      BY <1>8, <2>2, Zenon
    <3>8. w.iface_id[s.iface[p].id] = s.iface_id[s.iface[p].id]
      BY <1>1, <1>5, <3>3, <3>5, Zenon
    <3>9. w.allocated[p] = s.allocated[p]
      BY <1>1, <1>5, <3>2, <3>6, Zenon
    <3> QED
      BY <3>1, <3>7, <3>8, <3>9, Zenon
  <2> QED
    BY <1>7, <2>1, <2>2, Zenon
<1>12. \A p \in Ports : w.iface[p] = None /\ w.allocated[p] => p \in w.stuck
  <2> SUFFICES ASSUME NEW p \in Ports, w.iface[p] = None, w.allocated[p]
               PROVE  p \in w.stuck
    BY Zenon
  <2>1. p # r.port
    BY <1>3, <1>9, Zenon
  <2>2. s.iface[p] = None /\ s.allocated[p]
    BY <1>1, <1>5, <2>1
  <2> QED
    BY <1>1, <2>2, Zenon DEF Creatable, WholeIn
<1>13. \A p \in ReadyIn(w) : w.iface[p].ul.vnf.port = p
                                /\ w.iface[p].ul.vnf.type = "INTERFACE_IP"
  <2> SUFFICES ASSUME NEW p \in ReadyIn(w)
               PROVE  w.iface[p].ul.vnf.port = p /\ w.iface[p].ul.vnf.type = "INTERFACE_IP"
    BY Zenon
  <2>1. CASE p = r.port
    BY <1>2, <1>9, <2>1, Zenon DEF Creatable
  <2>2. CASE p \in ReadyIn(s)
    <3>1. s.iface[p].ul.vnf.port = p /\ s.iface[p].ul.vnf.type = "INTERFACE_IP"
      BY <2>2, Zenon DEF Creatable, WholeIn
    <3> QED
      BY <1>8, <2>2, <3>1, Zenon
  <2> QED
    BY <1>7, <2>1, <2>2, Zenon
<1>14. OwnIn(w) = OwnIn(s) \cup {ul}
  <2>1. OwnIn(w) = {w.iface[p].ul : p \in ReadyIn(s) \cup {r.port}}
    BY <1>7, Zenon DEF OwnIn
  <2>2. OwnIn(w) = {w.iface[p].ul : p \in ReadyIn(s)} \cup {i.ul}
    BY <1>9, <2>1, Zenon
  <2>3. {w.iface[p].ul : p \in ReadyIn(s)} = OwnIn(s)
    BY <1>8, Zenon DEF OwnIn
  <2> QED
    BY <1>2, <2>2, <2>3, Zenon
<1>15. OfInterfaces(w.vnf_handle) = OwnIn(w) /\ OfInterfaces(w.vnf_value) = OwnIn(w)
  <2>1. OfInterfaces(s.vnf_handle) = OwnIn(s) /\ OfInterfaces(s.vnf_value) = OwnIn(s)
    BY Zenon DEF Creatable, WholeIn
  <2>2. ul.vnf.type = "INTERFACE_IP"
    BY Zenon DEF Creatable
  <2>3. OfInterfaces(w.vnf_handle) = OfInterfaces(s.vnf_handle) \cup {ul}
    BY <1>1, <2>2, Zenon DEF OfInterfaces
  <2>4. OfInterfaces(w.vnf_value) = OfInterfaces(s.vnf_value) \cup {ul}
    BY <1>1, <2>2, Zenon DEF OfInterfaces
  <2> QED
    BY <1>14, <2>1, <2>3, <2>4, Zenon
<1>16. \A l \in w.lb : l.ul.vnf.type = "LB"
  BY <1>1, Zenon DEF Creatable, WholeIn
<1>17. WholeIn(w)
  BY <1>1, <1>6, <1>10, <1>11, <1>12, <1>13, <1>15, <1>16, Zenon DEF WholeIn
<1> QED
  BY <1>17, Zenon DEF w

\* dp_process_create_interface: whichever step fails, the request is undone or the
\* interface is set up.
LEMMA CreateOutcome ==
    ASSUME NEW s, NEW r, NEW ul, Creatable(s, r, ul), NEW f
    PROVE  \/ Undone(s, CreateInterfaceSteps(s, r, ul, f))
           \/ \E t : /\ IfaceStage(s, t, r, ul) /\ s.iface_id[r.id] = None
                     /\ CreateInterfaceSteps(s, r, ul, f) = dp_start_port(t, r.port)
<1> DEFINE withVnf   == dp_add_vnf(s, ul, f)
           withId    == dp_map_iface_id(withVnf, r.id, r.port)
           withIface == dp_setup_iface(withId, r, ul)
           with4     == AddOwnRoute(withIface, r.port, r.vni, r.ip4)
           with6     == AddOwnRoute(with4, r.port, r.vni, r.ip6)
<1>0. CreateInterfaceSteps(s, r, ul, f) =
       IF f \in VnfFaults THEN withVnf
       ELSE IF s.iface_id[r.id] # None \/ f = "id" THEN UndoVnf(withVnf, ul)
       ELSE IF VniFails(s, r.vni, f) THEN UndoHandle(withId, r, ul)
       ELSE IF OwnRouteFails(withIface, r.vni, r.ip4, f) THEN UndoIface(withIface, r, ul)
       ELSE IF OwnRouteFails(with4, r.vni, r.ip6, f) THEN UndoRoute(with4, r, ul)
       ELSE IF f \in {"meter", "start"} THEN UndoRoute6(with6, r, ul)
       ELSE dp_start_port(with6, r.port)
  BY Zenon DEF CreateInterfaceSteps
<1>2. CASE f \in VnfFaults
  <2>1. Undone(s, withVnf)
    BY <1>2, AddOwn, Zenon
  <2> QED
    BY <1>0, <1>2, <2>1, Zenon
<1>3. CASE f \notin VnfFaults
  <2>1. VnfStage(s, withVnf, ul)
    BY <1>3, AddOwn, Zenon
  <2> HIDE DEF withVnf
  <2>2. Undone(s, UndoVnf(withVnf, ul))
    BY <2>1, UndoVnfSame, Zenon
  <2>3. CASE s.iface_id[r.id] # None \/ f = "id"
    BY <1>0, <1>3, <2>2, <2>3, Zenon
  <2>4. CASE ~(s.iface_id[r.id] # None \/ f = "id")
    <3>1. s.iface_id[r.id] = None
      BY <2>4, Zenon
    <3>2. HandleStage(s, withId, r, ul)
      BY <2>1 DEF VnfStage, HandleStage, Back, IsTables, dp_map_iface_id
    <3> HIDE DEF withId
    <3>3. Undone(s, UndoHandle(withId, r, ul))
      BY <3>1, <3>2, UndoHandleSame, Zenon
    <3>4. IfaceStage(s, withIface, r, ul)
      <4> DEFINE v == dp_create_vni_route_tables(withId, r.vni)
      <4>1. IsTables(withId)
        BY <3>2, Zenon DEF HandleStage
      <4>2. Same(withId, v)
        BY <4>1, RouteSame, Zenon
      <4>5. /\ v.vni_ref = [withId.vni_ref EXCEPT ![r.vni] = @ + 1]
            /\ v.routes = withId.routes
        BY <4>1, VniTaken, Zenon
      <4>3. withIface = [v EXCEPT !.iface[r.port] = [id |-> r.id, vni |-> r.vni,
                                                     ip4 |-> r.ip4, ip6 |-> r.ip6, ul |-> ul]]
        BY Zenon DEF dp_setup_iface
      <4> HIDE DEF v, withIface
      <4>4. Grown(s, withIface, r)
        <5>1. /\ withIface.vni_ref = v.vni_ref /\ withIface.routes = v.routes
              /\ withIface.lb_id = v.lb_id
          BY <4>2, <4>3, Zenon DEF Same, IsTables
        <5> QED
          BY <3>2, <4>2, <4>5, <5>1, Zenon DEF Grown, HandleStage, Back, Same
      <4> QED
        BY <3>2, <4>2, <4>3, <4>4, Zenon DEF IfaceStage, HandleStage, Same, IsTables
    <3> HIDE DEF withIface
    <3>5. Undone(s, UndoIface(withIface, r, ul))
      BY <3>1, <3>4, UndoIfaceSame, Zenon
    <3>6. ASSUME NEW t, IfaceStage(s, t, r, ul), NEW a \in {r.ip4, r.ip6}
          PROVE  IfaceStage(s, AddOwnRoute(t, r.port, r.vni, a), r, ul)
      <4>1. IsTables(t)
        BY <3>6, Zenon DEF IfaceStage
      <4> DEFINE w == dp_add_route(t, r.port, r.vni, a)
      <4>2. Same(t, w)
        BY <4>1, RouteSame, Zenon
      <4>5. /\ w.vni_ref = t.vni_ref
            /\ w.routes = t.routes \cup {[vni |-> r.vni, dst |-> a, nh |-> r.port]}
        BY <4>1, RouteAdded
      <4> HIDE DEF w
      <4>3. w.routes \subseteq t.routes \cup RoutesOf(r.port, r)
        BY <4>5, Zenon DEF RoutesOf
      <4>4. IfaceStage(s, w, r, ul)
        BY <3>6, <4>2, <4>3, <4>5, StageRoute, Zenon
      <4> QED
        BY <3>6, <4>4, Zenon DEF AddOwnRoute, w
    <3>7. IfaceStage(s, with4, r, ul)
      BY <3>4, <3>6, Zenon
    <3> HIDE DEF with4
    <3>8. IfaceStage(s, with6, r, ul)
      BY <3>6, <3>7, Zenon
    <3> HIDE DEF with6
    <3>9. Undone(s, UndoRoute(with4, r, ul)) /\ Undone(s, UndoRoute6(with6, r, ul))
      BY <3>1, <3>7, <3>8, UndoRouteSame, Zenon
    <3> QED
      BY <1>0, <1>3, <2>4, <3>1, <3>3, <3>5, <3>8, <3>9, Zenon
  <2> QED
    BY <2>3, <2>4, Zenon
<1> QED
  BY <1>2, <1>3, Zenon

\* ... so that the interface is whole or not there.
LEMMA CreateWhole ==
    ASSUME NEW s, NEW r, NEW ul, Creatable(s, r, ul), NEW f
    PROVE  WholeIn(CreateInterfaceSteps(s, r, ul, f))
<1> DEFINE w == CreateInterfaceSteps(s, r, ul, f)
<1>1. \/ Undone(s, w)
      \/ \E t : /\ IfaceStage(s, t, r, ul) /\ s.iface_id[r.id] = None
                /\ w = dp_start_port(t, r.port)
  BY CreateOutcome, Zenon
<1> HIDE DEF w
<1>2. ASSUME Undone(s, w) PROVE WholeIn(w)
  <2>1. WholeIn(s) /\ Same(s, w)
    BY <1>2, Zenon DEF Creatable, Undone
  <2> QED
    BY <2>1, SameWhole, Zenon
<1>3. ASSUME NEW t, IfaceStage(s, t, r, ul), s.iface_id[r.id] = None,
             w = dp_start_port(t, r.port)
      PROVE  WholeIn(w)
  <2> DEFINE x == dp_start_port(t, r.port)
  <2>1. WholeIn(x)
    BY <1>3, StartWhole, Zenon
  <2> HIDE DEF x
  <2>2. w = x
    BY <1>3, Zenon DEF x
  <2> QED
    BY <2>1, <2>2, Zenon
<1>4. WholeIn(w)
  BY <1>1, <1>2, <1>3, Zenon
<1> QED
  BY <1>4, Zenon DEF w

-----------------------------------------------------------------------------
\* Deleting an interface

\* What dp_process_delete_interface leaves.
DeletedInterface(s, id, f) ==
    LET port == s.iface_id[id]
        stopped == dp_stop_port(dp_del_vnf(s, s.iface[port].ul), port, f)
    IN dp_delete_iface(dp_unmap_iface_id(stopped, id), port)

\* Its effect on each table.
InterfaceDeleted(s, id, port, ul, w) ==
    /\ port \in Ports /\ s.iface[port] # None /\ s.iface[port].id = id
    /\ IsTables(w)
    /\ w.iface = [s.iface EXCEPT ![port] = None]
    /\ w.iface_id = [s.iface_id EXCEPT ![id] = None]
    /\ w.lb = s.lb /\ w.lb_id = s.lb_id
    /\ w.vnf_handle = s.vnf_handle \ {ul}
    /\ w.vnf_value = {u \in s.vnf_value : u.vnf # ul.vnf}
    /\ \/ w.allocated = s.allocated /\ w.stuck = s.stuck \cup {port}
       \/ w.allocated = [s.allocated EXCEPT ![port] = FALSE] /\ w.stuck = s.stuck
    /\ w.routes \subseteq s.routes \ RoutesOf(port, s.iface[port])
    /\ w.vni_ref = Released(s.vni_ref, s.iface[port].vni)

\* A deletion has that outcome, also when the port does not stop.
LEMMA DeleteOutcome ==
    ASSUME NEW s, WholeIn(s), NEW id \in Ids, NEW f,
           NEW port, port = s.iface_id[id], port # None,
           NEW ul, ul = s.iface[port].ul, NEW w, w = DeletedInterface(s, id, f)
    PROVE  InterfaceDeleted(s, id, port, ul, w)
<1> DEFINE del == dp_del_vnf(s, ul)
           stopped == dp_stop_port(del, port, f)
           unmapped == dp_unmap_iface_id(stopped, id)
<1>1. w = dp_delete_iface(unmapped, port)
  BY Zenon DEF DeletedInterface
<1> HIDE DEF del, stopped, unmapped
<1>2. port \in Ports /\ s.iface[port] # None /\ s.iface[port].id = id
  BY DEF WholeIn
<1>3. IsTables(s)
  BY Zenon DEF WholeIn
<1>4. ul \in s.vnf_handle
  <2>1. ul \in OwnIn(s)
    BY <1>2, Zenon DEF OwnIn, ReadyIn
  <2> QED
    BY <2>1, Zenon DEF WholeIn, OfInterfaces
<1>5. /\ IsTables(del)
      /\ del.iface = s.iface /\ del.iface_id = s.iface_id /\ del.allocated = s.allocated
      /\ del.lb = s.lb /\ del.stuck = s.stuck
      /\ del.vnf_handle = s.vnf_handle \ {ul}
      /\ del.vnf_value = {u \in s.vnf_value : u.vnf # ul.vnf}
      /\ del.vni_ref = s.vni_ref /\ del.routes = s.routes /\ del.lb_id = s.lb_id
  BY <1>3, <1>4, DelVnf, Zenon DEF del
<1>6. /\ IsTables(stopped)
      /\ stopped.iface = del.iface /\ stopped.iface_id = del.iface_id /\ stopped.lb = del.lb
      /\ stopped.vnf_handle = del.vnf_handle /\ stopped.vnf_value = del.vnf_value
      /\ \/ stopped.allocated = del.allocated /\ stopped.stuck = del.stuck \cup {port}
         \/ /\ stopped.allocated = [del.allocated EXCEPT ![port] = FALSE]
            /\ stopped.stuck = del.stuck
      /\ stopped.vni_ref = del.vni_ref /\ stopped.routes = del.routes
      /\ stopped.lb_id = del.lb_id
  <2>0. IsTables(del)
    BY <1>5, Zenon
  <2>1. CASE f = "stop"
    BY <2>0, <2>1, Zenon DEF IsTables, dp_stop_port, stopped
  <2>2. CASE f # "stop"
    BY <2>0, <2>2, Zenon DEF IsTables, dp_stop_port, stopped
  <2> QED
    BY <2>1, <2>2, Zenon
<1>7. /\ IsTables(unmapped)
      /\ unmapped.iface = stopped.iface
      /\ unmapped.iface_id = [stopped.iface_id EXCEPT ![id] = None]
      /\ unmapped.lb = stopped.lb
      /\ unmapped.vnf_handle = stopped.vnf_handle /\ unmapped.vnf_value = stopped.vnf_value
      /\ unmapped.allocated = stopped.allocated /\ unmapped.stuck = stopped.stuck
      /\ unmapped.vni_ref = stopped.vni_ref /\ unmapped.routes = stopped.routes
      /\ unmapped.lb_id = stopped.lb_id
  <2>1. IsTables(stopped)
    BY <1>6, Zenon
  <2> QED
    BY <2>1 DEF IsTables, dp_unmap_iface_id, unmapped
<1>8. IfaceDeleted(unmapped, port, w)
  <2>1. IsTables(unmapped)
    BY <1>7, Zenon
  <2> QED
    BY <1>1, <2>1, DeleteIface, Zenon
<1>9. /\ IsTables(w)
      /\ w.iface = [unmapped.iface EXCEPT ![port] = None]
      /\ w.iface_id = unmapped.iface_id /\ w.allocated = unmapped.allocated
      /\ w.lb = unmapped.lb /\ w.lb_id = unmapped.lb_id /\ w.stuck = unmapped.stuck
      /\ w.vnf_handle = unmapped.vnf_handle /\ w.vnf_value = unmapped.vnf_value
  BY <1>8, Zenon DEF IfaceDeleted
<1>10. unmapped.iface = s.iface /\ stopped.iface_id = s.iface_id /\ del.allocated = s.allocated
       /\ unmapped.lb = s.lb /\ unmapped.lb_id = s.lb_id /\ del.stuck = s.stuck
       /\ unmapped.vnf_handle = del.vnf_handle /\ unmapped.vnf_value = del.vnf_value
       /\ unmapped.allocated = stopped.allocated /\ unmapped.stuck = stopped.stuck
  BY <1>5, <1>6, <1>7, Zenon
<1>11. /\ w.iface = [s.iface EXCEPT ![port] = None]
       /\ w.iface_id = [s.iface_id EXCEPT ![id] = None]
       /\ w.lb = s.lb /\ w.lb_id = s.lb_id
  <2>1. unmapped.iface_id = [stopped.iface_id EXCEPT ![id] = None]
    BY <1>7, Zenon
  <2>2. unmapped.iface_id = [s.iface_id EXCEPT ![id] = None]
    BY <1>10, <2>1, Zenon
  <2>3. w.iface = [s.iface EXCEPT ![port] = None]
    BY <1>9, <1>10, Zenon
  <2> QED
    BY <1>9, <1>10, <2>2, <2>3, Zenon
<1>12. /\ w.vnf_handle = s.vnf_handle \ {ul}
       /\ w.vnf_value = {u \in s.vnf_value : u.vnf # ul.vnf}
  <2>1. /\ del.vnf_handle = s.vnf_handle \ {ul}
        /\ del.vnf_value = {u \in s.vnf_value : u.vnf # ul.vnf}
    BY <1>5, Zenon
  <2> QED
    BY <1>9, <1>10, <2>1, Zenon
<1>14. \/ w.allocated = s.allocated /\ w.stuck = s.stuck \cup {port}
       \/ w.allocated = [s.allocated EXCEPT ![port] = FALSE] /\ w.stuck = s.stuck
  <2>1. \/ stopped.allocated = del.allocated /\ stopped.stuck = del.stuck \cup {port}
        \/ /\ stopped.allocated = [del.allocated EXCEPT ![port] = FALSE]
           /\ stopped.stuck = del.stuck
    BY <1>6, Zenon
  <2>2. w.allocated = stopped.allocated /\ w.stuck = stopped.stuck
    BY <1>9, <1>10, Zenon
  <2>3. del.allocated = s.allocated /\ del.stuck = s.stuck
    BY <1>10, Zenon
  <2> QED
    BY <2>1, <2>2, <2>3, Zenon
<1>13. /\ w.routes \subseteq s.routes \ RoutesOf(port, s.iface[port])
       /\ w.vni_ref = Released(s.vni_ref, s.iface[port].vni)
  <2>1. /\ w.routes \subseteq unmapped.routes \ RoutesOf(port, unmapped.iface[port])
        /\ w.vni_ref = Released(unmapped.vni_ref, unmapped.iface[port].vni)
    BY <1>8, Zenon DEF IfaceDeleted
  <2>2. unmapped.routes = s.routes /\ unmapped.iface = s.iface /\ unmapped.vni_ref = s.vni_ref
    BY <1>5, <1>6, <1>7, Zenon
  <2> QED
    BY <2>1, <2>2, Zenon
<1> QED
  BY <1>2, <1>9, <1>11, <1>12, <1>13, <1>14, Zenon DEF InterfaceDeleted

\* dp_process_delete_interface: nothing of the interface stays, but for a port
\* that cannot be stopped.
LEMMA DeleteWhole ==
    ASSUME NEW s, WholeIn(s), NEW id \in Ids, s.iface_id[id] # None, NEW f
    PROVE  WholeIn(DeletedInterface(s, id, f))
<1> DEFINE port == s.iface_id[id]
           ul == s.iface[port].ul
           w == DeletedInterface(s, id, f)
<1> HIDE DEF port, ul, w
<1>0. /\ s.iface \in [Ports -> Interfaces \cup {None}]
      /\ s.iface_id \in [Ids -> Ports \cup {None}]
      /\ s.allocated \in [Ports -> BOOLEAN]
  BY Zenon DEF WholeIn
<1>1. /\ IsTables(s)
      /\ OfInterfaces(s.vnf_handle) = OwnIn(s) /\ OfInterfaces(s.vnf_value) = OwnIn(s)
      /\ \A p \in ReadyIn(s) : s.iface_id[s.iface[p].id] = p /\ s.allocated[p]
      /\ \A p \in Ports : s.iface[p] = None /\ s.allocated[p] => p \in s.stuck
      /\ \A p \in ReadyIn(s) : s.iface[p].ul.vnf.port = p
                                  /\ s.iface[p].ul.vnf.type = "INTERFACE_IP"
      /\ \A l \in s.lb : l.ul.vnf.type = "LB"
      /\ \A d \in Ids : s.iface_id[d] # None =>
             s.iface[s.iface_id[d]] # None /\ s.iface[s.iface_id[d]].id = d
  BY Zenon DEF WholeIn
<1>8. /\ IsTables(w)
      /\ w.iface = [s.iface EXCEPT ![port] = None]
      /\ w.iface_id = [s.iface_id EXCEPT ![id] = None]
      /\ w.lb = s.lb
      /\ w.vnf_handle = s.vnf_handle \ {ul}
      /\ w.vnf_value = {u \in s.vnf_value : u.vnf # ul.vnf}
      /\ \/ w.allocated = s.allocated /\ w.stuck = s.stuck \cup {port}
         \/ w.allocated = [s.allocated EXCEPT ![port] = FALSE] /\ w.stuck = s.stuck
      /\ port \in Ports /\ s.iface[port] # None /\ s.iface[port].id = id
  <2>1. /\ port = s.iface_id[id] /\ port # None /\ ul = s.iface[port].ul
        /\ w = DeletedInterface(s, id, f)
    BY Zenon DEF port, ul, w
  <2>2. InterfaceDeleted(s, id, port, ul, w)
    BY <2>1, DeleteOutcome, Zenon
  <2> QED
    BY <2>2, Zenon DEF InterfaceDeleted
<1>2. port \in Ports /\ s.iface[port] # None /\ s.iface[port].id = id
  BY <1>8, Zenon
<1>3. port \in ReadyIn(s)
  BY <1>2, Zenon DEF ReadyIn
<1>4. ul \in OwnIn(s) /\ ul \in s.vnf_handle
  <2>1. ul \in OwnIn(s)
    BY <1>3, Zenon DEF OwnIn, ul
  <2> QED
    BY <1>1, <2>1, Zenon DEF OfInterfaces
<1>9. ReadyIn(w) = ReadyIn(s) \ {port}
  BY <1>0, <1>2, <1>8, Zenon DEF ReadyIn
<1>10. \A p \in ReadyIn(w) : w.iface[p] = s.iface[p] /\ p \in Ports
  BY <1>0, <1>8, <1>9, Zenon DEF ReadyIn
<1>11. /\ w.iface \in [Ports -> Interfaces \cup {None}]
       /\ w.iface_id \in [Ids -> Ports \cup {None}]
       /\ w.allocated \in [Ports -> BOOLEAN]
  <2>1. w.iface \in [Ports -> Interfaces \cup {None}]
    BY <1>0, <1>8, Zenon
  <2>2. w.iface_id \in [Ids -> Ports \cup {None}]
    BY <1>0, <1>8, Zenon
  <2>3. [s.allocated EXCEPT ![port] = FALSE] \in [Ports -> BOOLEAN]
    BY <1>0, Zenon
  <2>4. w.allocated \in [Ports -> BOOLEAN]
    <3>1. w.allocated = s.allocated \/ w.allocated = [s.allocated EXCEPT ![port] = FALSE]
      BY <1>8, Zenon
    <3> QED
      BY <1>0, <2>3, <3>1, Zenon
  <2> QED
    BY <2>1, <2>2, <2>4, Zenon
<1>12. \A d \in Ids : w.iface_id[d] # None =>
           w.iface[w.iface_id[d]] # None /\ w.iface[w.iface_id[d]].id = d
  <2> SUFFICES ASSUME NEW d \in Ids, w.iface_id[d] # None
               PROVE  w.iface[w.iface_id[d]] # None /\ w.iface[w.iface_id[d]].id = d
    BY Zenon
  <2>1. d # id /\ w.iface_id[d] = s.iface_id[d] /\ s.iface_id[d] \in Ports
    BY <1>0, <1>8
  <2>2. s.iface[s.iface_id[d]] # None /\ s.iface[s.iface_id[d]].id = d
    BY <1>1, <2>1, Zenon
  <2>3. s.iface_id[d] # port
    BY <1>2, <2>1, <2>2, Zenon
  <2> QED
    BY <1>0, <1>8, <2>1, <2>2, <2>3
<1>13. \A p \in ReadyIn(w) : w.iface_id[w.iface[p].id] = p /\ w.allocated[p]
  <2> SUFFICES ASSUME NEW p \in ReadyIn(w)
               PROVE  w.iface_id[w.iface[p].id] = p /\ w.allocated[p]
    BY Zenon
  <2>1. p \in ReadyIn(s) /\ p # port /\ w.iface[p] = s.iface[p] /\ p \in Ports
    BY <1>9, <1>10, Zenon
  <2>2. s.iface_id[s.iface[p].id] = p /\ s.allocated[p]
    BY <1>1, <2>1, Zenon
  <2>3. s.iface[p].id \in Ids
    <3>1. s.iface[p] \in Interfaces
      BY <1>0, <2>1, Zenon DEF ReadyIn
    <3> QED
      BY <3>1, Zenon DEF Interfaces
  <2>4. s.iface[p].id # id
    BY <2>1, <2>2, Zenon DEF port
  <2>5. w.iface_id[w.iface[p].id] = p
    <3>1. w.iface_id[s.iface[p].id] = s.iface_id[s.iface[p].id]
      BY <1>0, <1>8, <2>3, <2>4, Zenon
    <3> QED
      BY <2>1, <2>2, <3>1, Zenon
  <2>6. [s.allocated EXCEPT ![port] = FALSE][p] = s.allocated[p]
    BY <1>0, <2>1, Zenon
  <2>7. w.allocated[p] = s.allocated[p]
    BY <1>8, <2>6, Zenon
  <2> QED
    BY <2>2, <2>5, <2>7, Zenon
<1>14. \A p \in Ports : w.iface[p] = None /\ w.allocated[p] => p \in w.stuck
  <2> SUFFICES ASSUME NEW p \in Ports, w.iface[p] = None, w.allocated[p]
               PROVE  p \in w.stuck
    BY Zenon
  <2>1. CASE p = port
    <3>1. [s.allocated EXCEPT ![port] = FALSE][p] = FALSE
      BY <1>0, <2>1, Zenon
    <3> QED
      BY <1>8, <2>1, <3>1, Zenon
  <2>2. CASE p # port
    <3>1. s.iface[p] = None
      BY <1>0, <1>8, <2>2
    <3>2. [s.allocated EXCEPT ![port] = FALSE][p] = s.allocated[p]
      BY <1>0, <2>2, Zenon
    <3>3. s.allocated[p]
      BY <1>8, <3>2, Zenon
    <3>4. p \in s.stuck
      BY <1>1, <3>1, <3>3, Zenon
    <3> QED
      BY <1>8, <3>4, Zenon
  <2> QED
    BY <2>1, <2>2, Zenon
<1>15. \A p \in ReadyIn(w) : w.iface[p].ul.vnf.port = p
                                /\ w.iface[p].ul.vnf.type = "INTERFACE_IP"
  BY <1>1, <1>9, <1>10, Zenon
<1>16. \A p \in ReadyIn(w) : w.iface[p].ul.vnf # ul.vnf
  <2>1. ul.vnf.port = port
    BY <1>1, <1>3, Zenon DEF ul
  <2> QED
    BY <1>9, <1>15, <2>1, Zenon
<1>17. OwnIn(w) = OwnIn(s) \ {ul}
  <2>1. ASSUME NEW u \in OwnIn(w) PROVE u \in OwnIn(s) \ {ul}
    BY <1>9, <1>10, <1>16, Zenon DEF OwnIn
  <2>2. ASSUME NEW u \in OwnIn(s) \ {ul} PROVE u \in OwnIn(w)
    <3>1. PICK p \in ReadyIn(s) : u = s.iface[p].ul
      BY Zenon DEF OwnIn
    <3>2. p # port
      BY <3>1, Zenon DEF ul
    <3>3. p \in ReadyIn(w)
      BY <1>9, <3>2, Zenon
    <3> QED
      BY <1>10, <3>1, <3>3, Zenon DEF OwnIn
  <2> QED
    BY <2>1, <2>2, Zenon
<1>18. \A u \in OwnIn(s) : u.vnf = ul.vnf => u = ul
  <2> SUFFICES ASSUME NEW u \in OwnIn(s), u # ul PROVE u.vnf # ul.vnf
    BY Zenon
  <2>1. u \in OwnIn(w)
    BY <1>17, Zenon
  <2>2. PICK p \in ReadyIn(w) : u = w.iface[p].ul
    BY <2>1, Zenon DEF OwnIn
  <2> QED
    BY <1>16, <2>2, Zenon
<1>19. OfInterfaces(w.vnf_handle) = OwnIn(w)
  <2>1. OfInterfaces(w.vnf_handle) = OfInterfaces(s.vnf_handle) \ {ul}
    BY <1>8, Zenon DEF OfInterfaces
  <2> QED
    BY <1>1, <1>17, <2>1, Zenon
<1>20. OfInterfaces(w.vnf_value) = OwnIn(w)
  <2>1. OfInterfaces(w.vnf_value) = {u \in OfInterfaces(s.vnf_value) : u.vnf # ul.vnf}
    BY <1>8, Zenon DEF OfInterfaces
  <2>2. OfInterfaces(s.vnf_value) = OwnIn(s)
    BY <1>1, Zenon
  <2>3. ASSUME NEW u \in OwnIn(s) PROVE u.vnf # ul.vnf <=> u \in OwnIn(w)
    BY <1>17, <1>18, <2>3, Zenon
  <2> QED
    BY <1>17, <2>1, <2>2, <2>3, Zenon
<1>21. \A l \in w.lb : l.ul.vnf.type = "LB"
  BY <1>1, <1>8, Zenon
<1>22. WholeIn(w)
  BY <1>8, <1>11, <1>12, <1>13, <1>14, <1>15, <1>19, <1>20, <1>21, Zenon DEF WholeIn
<1> QED
  BY <1>22, Zenon DEF w

-----------------------------------------------------------------------------
\* Every request

\* A set of natural numbers that is not empty has a least element.
LEMMA MinInSet ==
    ASSUME NEW S \in SUBSET Nat, S # {}
    PROVE  Min(S) \in S
<1> DEFINE R == OpToRel(<, Nat)
<1>1. IsWellFoundedOn(R, Nat)
  BY NatLessThanWellFounded, Zenon
<1>2. \A x, y \in Nat : x < y => <<x, y>> \in R
  BY Zenon DEF OpToRel
<1> HIDE DEF R
<1>3. PICK x \in S : \A y \in S : ~(<<y, x>> \in R)
  BY <1>1, WFMin, Zenon
<1>4. ASSUME NEW y \in S PROVE x <= y
  <2>1. x \in Nat /\ y \in Nat
    BY Zenon
  <2>2. ~(y < x)
    BY <2>1, <1>2, <1>3, Zenon
  <2> QED
    BY <2>1, <2>2
<1> QED
  BY <1>4, Zenon DEF Min

\* A new underlay address is one of its record.
LEMMA Generated ==
    ASSUME NEW vnf \in Vnfs, FreeNumbers(vnf) # {}
    PROVE  /\ dp_generate_underlay_ipv6(vnf) \in Underlays
           /\ dp_generate_underlay_ipv6(vnf).vnf = vnf
<1>1. FreeNumbers(vnf) \in SUBSET Nat /\ FreeNumbers(vnf) \subseteq 1..MaxUnderlays
  BY ConstantsAssumption DEF FreeNumbers
<1>2. Min(FreeNumbers(vnf)) \in 1..MaxUnderlays
  BY <1>1, MinInSet, Zenon
<1> QED
  BY <1>2, Zenon DEF dp_generate_underlay_ipv6, Underlays

\* The tables become those of a request's result.
LEMMA Becomes ==
    ASSUME NEW t, IsTables(t), Become(t)
    PROVE  Tables' = t
BY Zenon DEF IsTables, Become, Tables

\* A request that leaves the tables whole keeps the invariant.
LEMMA BecomesWhole ==
    ASSUME NEW t, WholeIn(t), Become(t)
    PROVE  WholeIn(Tables')
<1>1. IsTables(t)
  BY Zenon DEF WholeIn
<1>2. Tables' = t
  BY <1>1, Becomes, Zenon
<1> QED
  BY <1>2, Zenon

\* Removing a load balancer's entry and id leaves the interfaces alone.
LEMMA LbGone ==
    ASSUME NEW s, WholeIn(s), NEW id
    PROVE  WholeIn(dp_delete_lb(s, id))
<1> DEFINE gone == dp_get_lb(s, id)
           ids == [s.lb_id EXCEPT ![id] = None]
           t == dp_delete_lb(s, id)
<1>1. IsTables(s)
  BY Zenon DEF WholeIn
<1>2. t = [s EXCEPT !.lb = s.lb \ gone, !.lb_id = ids]
  BY Zenon DEF dp_delete_lb
<1> HIDE DEF gone, ids, t
<1>3. /\ IsTables(t)
      /\ t.iface = s.iface /\ t.iface_id = s.iface_id
      /\ t.allocated = s.allocated /\ t.stuck = s.stuck
      /\ t.vnf_handle = s.vnf_handle /\ t.vnf_value = s.vnf_value
      /\ t.lb = s.lb \ gone
  BY <1>1, <1>2, Zenon DEF IsTables
<1>4. \A l \in t.lb : l.ul.vnf.type = "LB"
  BY <1>3, Zenon DEF WholeIn
<1>5. WholeIn(t)
  BY <1>3, <1>4, FrameLb, Zenon
<1> QED
  BY <1>5, Zenon DEF t

\* Creating a load balancer, whichever step fails.
LEMMA CreateLbWhole ==
    ASSUME NEW s, WholeIn(s), NEW r, NEW ul, ul.vnf.type = "LB", NEW f
    PROVE  WholeIn(CreateLbSteps(s, r, ul, f))
<1> DEFINE withVnf == dp_add_vnf(s, ul, f)
           withLb == dp_create_lb(withVnf, r, ul, f)
           noLb == dp_delete_lb(withLb, r.id)
<1>0. CreateLbSteps(s, r, ul, f) =
       IF f \in VnfFaults THEN withVnf
       ELSE IF LbEntries(s, r.key) # {} THEN dp_del_vnf(withVnf, ul)
       ELSE IF f \in {"lb", "lb id"} THEN dp_del_vnf(withLb, ul)
       ELSE IF VniFails(s, r.key[1], f) THEN dp_del_vnf(noLb, ul)
       ELSE dp_create_vni_route_tables(withLb, r.key[1])
  BY Zenon DEF CreateLbSteps
<1>1. WholeIn(withVnf)
  BY AddOther, Zenon
<1> HIDE DEF withVnf
<1>2. WholeIn(withLb)
  <2> DEFINE Entry(freed) == [key |-> r.key, ul |-> ul, freed |-> freed]
  <2>1. /\ IsTables(withLb)
        /\ withLb.iface = withVnf.iface /\ withLb.iface_id = withVnf.iface_id
        /\ withLb.allocated = withVnf.allocated /\ withLb.stuck = withVnf.stuck
        /\ withLb.vnf_handle = withVnf.vnf_handle /\ withLb.vnf_value = withVnf.vnf_value
        /\ \E freed \in BOOLEAN : withLb.lb \subseteq withVnf.lb \cup {Entry(freed)}
    <3>1. IsTables(withVnf)
      BY <1>1, Zenon DEF WholeIn
    <3>2. CASE f = "lb"
      BY <3>1, <3>2, Zenon DEF dp_create_lb
    <3>3. CASE f = "lb id"
      BY <3>1, <3>3, Zenon DEF dp_create_lb, IsTables
    <3>4. CASE f \notin {"lb", "lb id"}
      BY <3>1, <3>4, Zenon DEF dp_create_lb, dp_map_lb_handle, IsTables
    <3> QED
      BY <3>2, <3>3, <3>4, Zenon
  <2> HIDE DEF withLb
  <2>2. \A l \in withVnf.lb : l.ul.vnf.type = "LB"
    BY <1>1, Zenon DEF WholeIn
  <2>3. \A l \in withLb.lb : l.ul.vnf.type = "LB"
    BY <2>1, <2>2
  <2> QED
    BY <1>1, <2>1, <2>3, FrameLb, Zenon
<1> HIDE DEF withLb
<1>3. WholeIn(noLb)
  BY <1>2, LbGone, Zenon
<1> HIDE DEF noLb
<1>4. /\ WholeIn(dp_del_vnf(withVnf, ul)) /\ WholeIn(dp_del_vnf(withLb, ul))
      /\ WholeIn(dp_del_vnf(noLb, ul))
  BY <1>1, <1>2, <1>3, DelOther, Zenon
<1>5. WholeIn(dp_create_vni_route_tables(withLb, r.key[1]))
  <2>1. IsTables(withLb)
    BY <1>2, Zenon DEF WholeIn
  <2>2. Same(withLb, dp_create_vni_route_tables(withLb, r.key[1]))
    BY <2>1, RouteSame, Zenon
  <2> QED
    BY <1>2, <2>2, SameWhole, Zenon
<1> QED
  BY <1>0, <1>1, <1>4, <1>5, Zenon

\* Deleting a load balancer.
LEMMA DeleteLbWhole ==
    ASSUME NEW s, WholeIn(s), NEW id, NEW l \in dp_get_lb(s, id)
    PROVE  WholeIn(dp_delete_vni_route_tables(dp_delete_lb(dp_del_vnf(s, l.ul), id), l.key[1]))
<1> DEFINE t == dp_del_vnf(s, l.ul)
           w == dp_delete_lb(t, id)
           v == dp_delete_vni_route_tables(w, l.key[1])
<1>1. l.ul.vnf.type = "LB"
  BY Zenon DEF WholeIn, dp_get_lb, LbEntries
<1>2. WholeIn(t)
  BY <1>1, DelOther, Zenon
<1> HIDE DEF t
<1>3. WholeIn(w)
  BY <1>2, LbGone, Zenon
<1> HIDE DEF w
<1>4. WholeIn(v)
  <2>1. IsTables(w)
    BY <1>3, Zenon DEF WholeIn
  <2>2. Same(w, v)
    BY <2>1, RouteSame, Zenon
  <2> HIDE DEF v
  <2> QED
    BY <1>3, <2>2, SameWhole, Zenon
<1> QED
  BY <1>4, Zenon DEF t, w, v

\* Creating a prefix, whichever step fails.
LEMMA CreatePrefixWhole ==
    ASSUME NEW s, WholeIn(s), NEW port, NEW vni, NEW pfx, NEW ul,
           ul.vnf.type # "INTERFACE_IP", NEW f
    PROVE  WholeIn(CreatePrefixSteps(s, port, vni, pfx, ul, f))
<1> DEFINE routed == dp_add_route(s, port, vni, pfx)
           done == dp_add_vnf(routed, ul, f)
           undone == dp_del_route(done, port, vni, pfx)
<1>0. CreatePrefixSteps(s, port, vni, pfx, ul, f) =
        IF AddRouteFails(s, vni, pfx, f) THEN s
        ELSE IF f \in VnfFaults THEN undone
        ELSE done
  BY Zenon DEF CreatePrefixSteps
<1>1. WholeIn(routed)
  <2>1. IsTables(s)
    BY Zenon DEF WholeIn
  <2>2. Same(s, routed)
    BY <2>1, RouteSame, Zenon
  <2> HIDE DEF routed
  <2> QED
    BY <2>2, SameWhole, Zenon
<1> HIDE DEF routed
<1>2. WholeIn(done)
  BY <1>1, AddOther, Zenon
<1> HIDE DEF done
<1>3. WholeIn(undone)
  <2>1. IsTables(done)
    BY <1>2, Zenon DEF WholeIn
  <2>2. Same(done, undone)
    BY <2>1, RouteSame, Zenon
  <2> HIDE DEF undone
  <2> QED
    BY <1>2, <2>2, SameWhole, Zenon
<1> QED
  BY <1>0, <1>2, <1>3, Zenon

\* The record of a generated address is the one it was generated for.
LEMMA OfRecord ==
    ASSUME NEW type, NEW port, NEW vni, NEW pfx
    PROVE  LET vnf == dp_fill_vnf_data(type, port, vni, pfx) IN
           /\ vnf.type = type
           /\ vnf.port = port
           /\ dp_generate_underlay_ipv6(vnf).vnf = vnf
BY Zenon DEF dp_fill_vnf_data, dp_generate_underlay_ipv6

\* The underlay address generated for a record is of the record's type.
LEMMA TypeOfUnderlay ==
    ASSUME NEW type, NEW port, NEW vni, NEW pfx
    PROVE  dp_generate_underlay_ipv6(dp_fill_vnf_data(type, port, vni, pfx)).vnf.type = type
BY OfRecord

\* A created interface, whichever step of the request failed.
LEMMA CreateInterfaceStep ==
    ASSUME WholeIn(Tables), NEW r \in InterfaceRequests, NEW f,
           dp_process_create_interface(r, f)
    PROVE  WholeIn(Tables')
<1> DEFINE vnf == dp_fill_vnf_data("INTERFACE_IP", r.port, r.vni, None)
           ul == dp_generate_underlay_ipv6(vnf)
           t == CreateInterfaceSteps(Tables, r, ul, f)
<1>1. ~allocated[r.port] /\ FreeNumbers(vnf) # {} /\ Become(t)
  BY Zenon DEF dp_process_create_interface
<1>2. vnf \in Vnfs /\ vnf.type = "INTERFACE_IP" /\ vnf.port = r.port
  BY Zenon DEF dp_fill_vnf_data, Vnfs, InterfaceRequests
<1> HIDE DEF vnf
<1>3. ul \in Underlays /\ ul.vnf = vnf
  BY <1>1, <1>2, Generated, Zenon
<1> HIDE DEF ul
<1>4. ~Tables.allocated[r.port]
  BY <1>1, Zenon DEF Tables
<1>5. Creatable(Tables, r, ul)
  BY <1>2, <1>3, <1>4, Zenon DEF Creatable
<1>6. WholeIn(t)
  BY <1>5, CreateWhole, Zenon
<1> HIDE DEF t
<1> QED
  BY <1>1, <1>6, BecomesWhole, Zenon

\* A deleted interface, whether or not its port could be stopped.
LEMMA DeleteInterfaceStep ==
    ASSUME WholeIn(Tables), NEW id \in Ids, NEW f, dp_process_delete_interface(id, f)
    PROVE  WholeIn(Tables')
<1> DEFINE t == DeletedInterface(Tables, id, f)
<1>1. Tables.iface_id[id] # None /\ Become(t)
  <2>1. Tables.iface_id = iface_id /\ Tables.iface = iface
    BY Zenon DEF Tables
  <2> QED
    BY <2>1, Zenon DEF dp_process_delete_interface, dp_get_port_with_iface_id, DeletedInterface
<1>2. WholeIn(t)
  BY <1>1, DeleteWhole, Zenon
<1> HIDE DEF t
<1> QED
  BY <1>1, <1>2, BecomesWhole, Zenon

\* A created prefix, and one that is a load balancer's target.
LEMMA CreatePrefixStep ==
    ASSUME WholeIn(Tables), NEW r, NEW f,
           dp_process_create_prefix(r, f) \/ dp_process_create_lbprefix(r, f)
    PROVE  WholeIn(Tables')
<1> DEFINE port == dp_get_port_with_iface_id(r.id)
           Vnf(type) == dp_fill_vnf_data(type, port, iface[port].vni, r.pfx)
<1>1. CASE dp_process_create_prefix(r, f)
  <2> DEFINE ul == dp_generate_underlay_ipv6(Vnf("ALIAS_PFX"))
             t == CreatePrefixSteps(Tables, port, iface[port].vni, r.pfx, ul, f)
  <2>1. Become(t)
    BY <1>1, Zenon DEF dp_process_create_prefix
  <2>2. ul.vnf.type = "ALIAS_PFX"
    <3> DEFINE vni == iface[port].vni
               pfx == r.pfx
    <3> HIDE DEF port, vni, pfx
    <3>1. dp_generate_underlay_ipv6(dp_fill_vnf_data("ALIAS_PFX", port, vni, pfx)).vnf.type = "ALIAS_PFX"
      BY TypeOfUnderlay, Zenon
    <3> QED
      BY <3>1, Zenon DEF vni, pfx
  <2> HIDE DEF ul
  <2>3. WholeIn(t)
    BY <2>2, CreatePrefixWhole, Zenon
  <2> HIDE DEF t
  <2> QED
    BY <2>1, <2>3, BecomesWhole, Zenon
<1>2. CASE dp_process_create_lbprefix(r, f)
  <2> DEFINE ul == dp_generate_underlay_ipv6(Vnf("LB_ALIAS_PFX"))
             t == dp_add_vnf(Tables, ul, f)
  <2>1. Become(t)
    BY <1>2, Zenon DEF dp_process_create_lbprefix
  <2>2. ul.vnf.type = "LB_ALIAS_PFX"
    <3> DEFINE vni == iface[port].vni
               pfx == r.pfx
    <3> HIDE DEF port, vni, pfx
    <3>1. dp_generate_underlay_ipv6(dp_fill_vnf_data("LB_ALIAS_PFX", port, vni, pfx)).vnf.type = "LB_ALIAS_PFX"
      BY TypeOfUnderlay, Zenon
    <3> QED
      BY <3>1, Zenon DEF vni, pfx
  <2> HIDE DEF ul
  <2>3. WholeIn(t)
    BY <2>2, AddOther, Zenon
  <2> HIDE DEF t
  <2> QED
    BY <2>1, <2>3, BecomesWhole, Zenon
<1> QED
  BY <1>1, <1>2, Zenon

\* A deleted prefix of either kind.
LEMMA DeletePrefixStep ==
    ASSUME WholeIn(Tables), NEW r,
           dp_process_delete_prefix(r) \/ dp_process_delete_lbprefix(r)
    PROVE  WholeIn(Tables')
<1> DEFINE port == dp_get_port_with_iface_id(r.id)
           vni == iface[port].vni
<1>1. CASE dp_process_delete_prefix(r)
  <2> DEFINE vnf == dp_fill_vnf_data("ALIAS_PFX", port, vni, r.pfx)
             s == dp_del_route(Tables, port, vni, r.pfx)
             t == dp_del_vnf_by_value(s, vnf)
  <2>1. Become(t)
    BY <1>1, Zenon DEF dp_process_delete_prefix
  <2>2. vnf.type = "ALIAS_PFX"
    BY Zenon DEF dp_fill_vnf_data
  <2> HIDE DEF vnf
  <2>3. IsTables(Tables)
    BY Zenon DEF WholeIn
  <2>4. Same(Tables, s)
    BY <2>3, RouteSame, Zenon
  <2> HIDE DEF s
  <2>5. WholeIn(s)
    BY <2>4, SameWhole, Zenon
  <2>6. WholeIn(t)
    BY <2>2, <2>5, DelByValueOther, Zenon
  <2> HIDE DEF t
  <2> QED
    BY <2>1, <2>6, BecomesWhole, Zenon
<1>2. CASE dp_process_delete_lbprefix(r)
  <2> DEFINE vnf == dp_fill_vnf_data("LB_ALIAS_PFX", port, vni, r.pfx)
             t == dp_del_vnf_by_value(Tables, vnf)
  <2>1. Become(t)
    BY <1>2, Zenon DEF dp_process_delete_lbprefix
  <2>2. vnf.type = "LB_ALIAS_PFX"
    BY Zenon DEF dp_fill_vnf_data
  <2> HIDE DEF vnf
  <2>3. WholeIn(t)
    BY <2>2, DelByValueOther, Zenon
  <2> HIDE DEF t
  <2> QED
    BY <2>1, <2>3, BecomesWhole, Zenon
<1> QED
  BY <1>1, <1>2, Zenon

\* A request that only changes routes.
LEMMA RouteStep ==
    ASSUME WholeIn(Tables), NEW t, Same(Tables, t), Become(t)
    PROVE  WholeIn(Tables')
<1>1. WholeIn(t)
  BY SameWhole, Zenon
<1> QED
  BY <1>1, BecomesWhole, Zenon

\* A created or deleted load balancer.
LEMMA LbStep ==
    ASSUME WholeIn(Tables), NEW r, NEW f, NEW id,
           dp_process_create_lb(r, f) \/ dp_process_delete_lb(id)
    PROVE  WholeIn(Tables')
<1>1. CASE dp_process_create_lb(r, f)
  <2> DEFINE ul == dp_generate_underlay_ipv6(dp_fill_vnf_data("LB", Pf0, r.key[1], None))
             t == CreateLbSteps(Tables, r, ul, f)
  <2>1. Become(t)
    BY <1>1, Zenon DEF dp_process_create_lb
  <2>2. ul.vnf.type = "LB"
    BY OfRecord
  <2> HIDE DEF ul
  <2>3. WholeIn(t)
    BY <2>2, CreateLbWhole, Zenon
  <2> HIDE DEF t
  <2> QED
    BY <2>1, <2>3, BecomesWhole, Zenon
<1>2. CASE dp_process_delete_lb(id)
  <2>1. PICK l \in dp_get_lb(Tables, id) :
            Become(dp_delete_vni_route_tables(dp_delete_lb(dp_del_vnf(Tables, l.ul), id),
                                              l.key[1]))
    BY <1>2, Zenon DEF dp_process_delete_lb
  <2> DEFINE t == dp_delete_vni_route_tables(dp_delete_lb(dp_del_vnf(Tables, l.ul), id),
                                             l.key[1])
  <2>2. WholeIn(t)
    BY DeleteLbWhole, Zenon
  <2>3. Become(t)
    BY <2>1, Zenon
  <2> HIDE DEF t
  <2> QED
    BY <2>2, <2>3, BecomesWhole, Zenon
<1> QED
  BY <1>1, <1>2, Zenon

\* No request and no stuttering step breaks the invariant.
LEMMA WholeStep ==
    ASSUME WholeIn(Tables), [Next]_vars
    PROVE  WholeIn(Tables')
<1>0. IsTables(Tables)
  BY Zenon DEF WholeIn
<1>1. CASE UNCHANGED vars
  <2>1. Tables' = Tables
    BY <1>1, Zenon DEF vars, Tables
  <2> QED
    BY <2>1, Zenon
<1>2. CASE Create
  <2>1. ASSUME NEW r \in RouteRequests, NEW f, dp_process_create_route(r, f)
        PROVE  WholeIn(Tables')
    <3> DEFINE t == dp_add_route(Tables, Pf0, r.vni, r.dst)
    <3>1. Same(Tables, t) /\ Become(t)
      BY <1>0, <2>1, RouteSame, Zenon DEF dp_process_create_route
    <3> HIDE DEF t
    <3> QED
      BY <3>1, RouteStep, Zenon
  <2> QED
    BY <1>2, <2>1, CreateInterfaceStep, CreatePrefixStep, LbStep, Zenon DEF Create
<1>3. CASE Delete
  <2>1. ASSUME NEW r \in RouteRequests, dp_process_delete_route(r)
        PROVE  WholeIn(Tables')
    <3> DEFINE t == dp_del_route(Tables, Pf0, r.vni, r.dst)
    <3>1. Same(Tables, t) /\ Become(t)
      BY <1>0, <2>1, RouteSame, Zenon DEF dp_process_delete_route
    <3> HIDE DEF t
    <3> QED
      BY <3>1, RouteStep, Zenon
  <2>2. ASSUME NEW vnis, Become(dp_lpm_reset_route_tables(Tables, vnis))
        PROVE  WholeIn(Tables')
    <3> DEFINE t == dp_lpm_reset_route_tables(Tables, vnis)
    <3>1. Same(Tables, t) /\ Become(t)
      BY <1>0, <2>2, ResetSame, Zenon
    <3> HIDE DEF t
    <3> QED
      BY <3>1, RouteStep, Zenon
  <2>3. ASSUME \/ \E v \in Vnis : dp_process_reset_vni(v)
               \/ dp_process_initialize
        PROVE  WholeIn(Tables')
    BY <2>2, <2>3, Zenon DEF dp_process_reset_vni, dp_process_initialize
  <2> QED
    BY <1>3, <2>1, <2>3, DeleteInterfaceStep, DeletePrefixStep, LbStep, Zenon DEF Delete
<1> QED
  BY <1>1, <1>2, <1>3, Zenon DEF Next

\* Nothing is in the tables when the service starts.
LEMMA WholeInit ==
    ASSUME Init
    PROVE  WholeIn(Tables)
<1> DEFINE s == Tables
<1>1. /\ IsTables(s)
      /\ s.iface = [p \in Ports |-> None] /\ s.iface_id = [i \in Ids |-> None]
      /\ s.allocated = [p \in Ports |-> FALSE]
      /\ s.vnf_handle = {} /\ s.vnf_value = {} /\ s.lb = {}
  BY Zenon DEF Init, Tables, IsTables
<1> HIDE DEF s
<1>2. ReadyIn(s) = {}
  BY <1>1, Zenon DEF ReadyIn
<1>3. OwnIn(s) = {} /\ OfInterfaces(s.vnf_handle) = {} /\ OfInterfaces(s.vnf_value) = {}
  BY <1>1, <1>2, Zenon DEF OwnIn, OfInterfaces
<1>4. WholeIn(s)
  BY <1>1, <1>2, <1>3, Zenon DEF WholeIn
<1> QED
  BY <1>4, Zenon DEF s

\* The invariant is at least as strong as what is claimed of the interfaces.
LEMMA WholeImplies ==
    ASSUME WholeIn(Tables)
    PROVE  InterfaceWhole
<1>1. /\ Tables.iface = iface /\ Tables.iface_id = iface_id
      /\ Tables.allocated = allocated /\ Tables.stuck = stuck
      /\ Tables.vnf_handle = vnf_handle /\ Tables.vnf_value = vnf_value
  BY Zenon DEF Tables
<1>2. ReadyIn(Tables) = Ready
  BY <1>1, Zenon DEF ReadyIn, Ready
<1>3. ASSUME NEW id \in Ids, iface_id[id] # None
      PROVE  /\ iface_id[id] \in Ready /\ iface[iface_id[id]].id = id
             /\ dp_process_get_interface(id) \in dp_process_list_interfaces
  <2>0. Tables.iface_id \in [Ids -> Ports \cup {None}]
    BY Zenon DEF WholeIn
  <2>1. iface_id[id] \in Ports
    BY <1>1, <1>3, <2>0, Zenon
  <2>2. iface[iface_id[id]] # None /\ iface[iface_id[id]].id = id
    BY <1>1, <1>3, Zenon DEF WholeIn
  <2> QED
    BY <1>3, <2>1, <2>2, Zenon DEF Ready, dp_process_get_interface, dp_process_list_interfaces
<1>4. \A p \in Ready : iface_id[iface[p].id] = p /\ allocated[p]
  BY <1>1, <1>2, Zenon DEF WholeIn
<1>5. \A p \in Ports \ Ready : allocated[p] => p \in stuck
  BY <1>1, Zenon DEF WholeIn, Ready
<1>6. OwnIn(Tables) = {iface[p].ul : p \in Ready}
  BY <1>1, <1>2, Zenon DEF OwnIn
<1>7. /\ {u \in vnf_handle : u.vnf.type = "INTERFACE_IP"} = {iface[p].ul : p \in Ready}
      /\ {u \in vnf_value : u.vnf.type = "INTERFACE_IP"} = {iface[p].ul : p \in Ready}
  BY <1>1, <1>6, Zenon DEF WholeIn, OfInterfaces
<1> QED
  BY <1>3, <1>4, <1>5, <1>7, Zenon DEF InterfaceWhole

\* An interface is in all of its tables or in none, whatever requests were made
\* and wherever they failed (dp_process_create_interface's error labels,
\* dp_process_delete_interface).
THEOREM InterfacesWhole == Spec => []InterfaceWhole
<1>1. Init => WholeIn(Tables)
  BY WholeInit, Zenon
<1>2. WholeIn(Tables) /\ [Next]_vars => WholeIn(Tables)'
  BY WholeStep, Zenon
<1>3. WholeIn(Tables) => InterfaceWhole
  BY WholeImplies, Zenon
<1> QED
  BY <1>1, <1>2, <1>3, PTL DEF Spec

-----------------------------------------------------------------------------
\* References, load balancers and routes

VniPorts(s, v) == {p \in ReadyIn(s) : s.iface[p].vni = v}

VniLbs(s, v) == {l \in s.lb : l.key[1] = v /\ ~l.freed}

\* The references to a VNI that are to be counted.
Refs(s, v) == Cardinality(VniPorts(s, v)) + Cardinality(VniLbs(s, v))

\* VniRefExact of the tables s.
RefsIn(s) ==
    /\ s.vni_ref \in [Vnis -> Nat] /\ IsFiniteSet(s.lb)
    /\ \A v \in Vnis : s.vni_ref[v] = Refs(s, v)

\* LbIdLive of the tables s, with what makes it inductive: a key has one entry and
\* at most one id, and no two live load balancers share an underlay address.
LbsIn(s) ==
    /\ s.lb \subseteq Lbs /\ s.lb_id \in [LbIds -> LbKeys \cup {None}]
    /\ \A l, m \in s.lb : l.key = m.key => l = m
    /\ \A id \in LbIds : s.lb_id[id] # None => \E l \in s.lb : l.key = s.lb_id[id] /\ ~l.freed
    /\ \A i, j \in LbIds : s.lb_id[i] = s.lb_id[j] /\ s.lb_id[i] # None => i = j
    /\ \A l \in s.lb : ~l.freed => l.ul \in s.vnf_handle
    /\ \A l, m \in s.lb : ~l.freed /\ ~m.freed /\ l.ul = m.ul => l = m

\* r is the route to an own address of the interface at its port.
IsOwn(s, r) ==
    r.nh \in ReadyIn(s) /\ s.iface[r.nh].vni = r.vni
    /\ r.dst \in {s.iface[r.nh].ip4, s.iface[r.nh].ip6}

\* The record is in both tables, with the same address.
Known(s, vnf) == \E u \in s.vnf_value \cap s.vnf_handle : u.vnf = vnf

AliasOf(r) == dp_fill_vnf_data("ALIAS_PFX", r.nh, r.vni, r.dst)

\* LocalRouteOwned of the tables s.
RoutesIn(s) ==
    \A r \in s.routes : /\ r = [vni |-> r.vni, dst |-> r.dst, nh |-> r.nh]
                        /\ r.nh # Pf0 => IsOwn(s, r) \/ Known(s, AliasOf(r))

\* The inductive invariant.
ExactIn(s) == WholeIn(s) /\ RefsIn(s) /\ LbsIn(s) /\ RoutesIn(s)

RestIn(s) == RefsIn(s) /\ LbsIn(s) /\ RoutesIn(s)

\* t has the interfaces, load balancers, references and routes of s.
Others(s, t) ==
    /\ IsTables(t) /\ t.iface = s.iface /\ t.lb = s.lb /\ t.lb_id = s.lb_id
    /\ t.vni_ref = s.vni_ref /\ t.routes = s.routes

\* The references depend on interfaces and load balancers only.
LEMMA RefsFrame ==
    ASSUME NEW s, NEW t, RefsIn(s), t.iface = s.iface, t.lb = s.lb, t.vni_ref = s.vni_ref
    PROVE  RefsIn(t)
<1>1. \A v : VniPorts(t, v) = VniPorts(s, v) /\ VniLbs(t, v) = VniLbs(s, v)
  BY Zenon DEF VniPorts, VniLbs, ReadyIn
<1> QED
  BY <1>1, Zenon DEF RefsIn, Refs

\* Load balancers stay live as long as their underlay addresses are known.
LEMMA LbsFrame ==
    ASSUME NEW s, NEW t, LbsIn(s), t.lb = s.lb, t.lb_id = s.lb_id,
           \A l \in s.lb : ~l.freed /\ l.ul \in s.vnf_handle => l.ul \in t.vnf_handle
    PROVE  LbsIn(t)
BY DEF LbsIn

\* Routes stay owned as long as the records of the prefixes are known.
LEMMA RoutesFrame ==
    ASSUME NEW s, NEW t, RoutesIn(s), t.iface = s.iface, t.routes \subseteq s.routes,
           \A r \in t.routes : Known(s, AliasOf(r)) => Known(t, AliasOf(r))
    PROVE  RoutesIn(t)
BY Zenon DEF RoutesIn, IsOwn, ReadyIn

\* What dp_add_vnf does to the underlay addresses of other records, ...
VnfAdded(s, t, ul, f) ==
    /\ Others(s, t)
    /\ s.vnf_handle \subseteq t.vnf_handle
    /\ \A u \in s.vnf_value : u.vnf # ul.vnf => u \in t.vnf_value
    /\ f \notin VnfFaults => ul \in t.vnf_handle /\ ul \in t.vnf_value

\* dp_add_vnf, whichever of its tables is full.
LEMMA AddVnf ==
    ASSUME NEW s, IsTables(s), NEW ul, ul \notin s.vnf_handle, NEW f
    PROVE  VnfAdded(s, dp_add_vnf(s, ul, f), ul, f)
<1> DEFINE added == [s EXCEPT !.vnf_handle = @ \cup {ul}]
<1>1. Others(s, added) /\ added.vnf_handle = s.vnf_handle \cup {ul}
      /\ added.vnf_value = s.vnf_value
  BY DEF IsTables, Others
<1>2. dp_add_vnf(s, ul, f) = IF f = "vnf handle" THEN s
                             ELSE IF f = "vnf value" THEN dp_del_vnf(added, ul)
                             ELSE dp_add_vnf_value(added, ul)
  BY Zenon DEF dp_add_vnf
<1> HIDE DEF added
<1>3. CASE f = "vnf handle"
  BY <1>2, <1>3, Zenon DEF VnfAdded, Others, VnfFaults
<1>4. CASE f = "vnf value"
  <2> DEFINE t == dp_del_vnf(added, ul)
  <2>1. IsTables(added) /\ ul \in added.vnf_handle
    BY <1>1, Zenon DEF Others
  <2>2. /\ IsTables(t) /\ t.iface = added.iface /\ t.lb = added.lb
        /\ t.vnf_handle = added.vnf_handle \ {ul}
        /\ t.vnf_value = {u \in added.vnf_value : u.vnf # ul.vnf}
        /\ t.vni_ref = added.vni_ref /\ t.routes = added.routes /\ t.lb_id = added.lb_id
    BY <2>1, DelVnf, Zenon
  <2> HIDE DEF t
  <2>3. VnfAdded(s, t, ul, f)
    BY <1>1, <1>4, <2>2, Zenon DEF VnfAdded, Others, VnfFaults
  <2> QED
    BY <1>2, <1>4, <2>3, Zenon DEF t
<1>5. CASE f \notin VnfFaults
  <2> DEFINE t == dp_add_vnf_value(added, ul)
  <2>1. IsTables(added)
    BY <1>1, Zenon DEF Others
  <2>2. Others(added, t) /\ t.vnf_handle = added.vnf_handle
        /\ t.vnf_value = {u \in added.vnf_value : u.vnf # ul.vnf} \cup {ul}
    BY <2>1 DEF IsTables, Others, dp_add_vnf_value
  <2> HIDE DEF t
  <2>3. VnfAdded(s, t, ul, f)
    BY <1>1, <2>2, Zenon DEF VnfAdded, Others
  <2> QED
    BY <1>2, <1>5, <2>3, Zenon DEF t, VnfFaults
<1> QED
  BY <1>3, <1>4, <1>5, Zenon DEF VnfFaults

\* ... and dp_del_vnf ...
VnfDeleted(s, t, vnf) ==
    /\ Others(s, t)
    /\ \A u \in s.vnf_handle : u.vnf # vnf => u \in t.vnf_handle
    /\ \A u \in s.vnf_value : u.vnf # vnf => u \in t.vnf_value

\* dp_del_vnf of a record's address ...
LEMMA DelVnfOther ==
    ASSUME NEW s, IsTables(s), NEW ul
    PROVE  VnfDeleted(s, dp_del_vnf(s, ul), ul.vnf)
<1>1. CASE ul \notin s.vnf_handle
  BY <1>1, Zenon DEF VnfDeleted, Others, dp_del_vnf
<1>2. CASE ul \in s.vnf_handle
  <2> DEFINE t == dp_del_vnf(s, ul)
  <2>1. /\ IsTables(t) /\ t.iface = s.iface /\ t.lb = s.lb
        /\ t.vnf_handle = s.vnf_handle \ {ul}
        /\ t.vnf_value = {u \in s.vnf_value : u.vnf # ul.vnf}
        /\ t.vni_ref = s.vni_ref /\ t.routes = s.routes /\ t.lb_id = s.lb_id
    BY <1>2, DelVnf, Zenon
  <2> HIDE DEF t
  <2>2. Others(s, t)
    BY <2>1, Zenon DEF Others
  <2>3. \A u \in s.vnf_handle : u.vnf # ul.vnf => u \in t.vnf_handle
    BY <2>1, Zenon
  <2>4. \A u \in s.vnf_value : u.vnf # ul.vnf => u \in t.vnf_value
    BY <2>1, Zenon
  <2>5. VnfDeleted(s, t, ul.vnf)
    BY <2>2, <2>3, <2>4, Zenon DEF VnfDeleted
  <2> QED
    BY <2>5, Zenon DEF t
<1> QED
  BY <1>1, <1>2, Zenon

\* ... and dp_del_vnf_by_value.
LEMMA DelByValue ==
    ASSUME NEW s, IsTables(s), NEW vnf
    PROVE  VnfDeleted(s, dp_del_vnf_by_value(s, vnf), vnf)
<1>1. CASE dp_vnf_value_exists(s, vnf)
  <2> DEFINE ul == CHOOSE u \in s.vnf_value : u.vnf = vnf
  <2>1. ul.vnf = vnf
    BY <1>1, Zenon DEF dp_vnf_value_exists
  <2>2. dp_del_vnf_by_value(s, vnf) = dp_del_vnf(s, ul)
    BY <1>1, Zenon DEF dp_del_vnf_by_value
  <2> HIDE DEF ul
  <2> QED
    BY <2>1, <2>2, DelVnfOther, Zenon
<1>2. CASE ~dp_vnf_value_exists(s, vnf)
  BY <1>2, Zenon DEF dp_del_vnf_by_value, VnfDeleted, Others
<1> QED
  BY <1>1, <1>2, Zenon

\* A record is still known when another one was added or deleted.
LEMMA KnownStill ==
    ASSUME NEW s, NEW t, NEW vnf, NEW other, other # vnf, Known(s, other),
           VnfDeleted(s, t, vnf) \/ \E ul, f : VnfAdded(s, t, ul, f) /\ ul.vnf = vnf
    PROVE  Known(t, other)
BY Zenon DEF Known, VnfDeleted, VnfAdded

\* A new underlay address is in neither table.
LEMMA GeneratedNew ==
    ASSUME NEW vnf \in Vnfs, FreeNumbers(vnf) # {}
    PROVE  /\ dp_generate_underlay_ipv6(vnf) \notin Tables.vnf_handle
           /\ dp_generate_underlay_ipv6(vnf) \notin Tables.vnf_value
<1>1. FreeNumbers(vnf) \in SUBSET Nat
  BY ConstantsAssumption DEF FreeNumbers
<1>2. Min(FreeNumbers(vnf)) \in FreeNumbers(vnf)
  BY <1>1, MinInSet, Zenon
<1>3. Tables.vnf_handle = vnf_handle /\ Tables.vnf_value = vnf_value
  BY Zenon DEF Tables
<1> QED
  BY <1>2, <1>3, Zenon DEF dp_generate_underlay_ipv6, FreeNumbers

\* The request's result are the tables.
LEMMA BecomesRest ==
    ASSUME NEW t, IsTables(t), RestIn(t), Become(t)
    PROVE  RestIn(Tables')
<1>1. Tables' = t
  BY Becomes, Zenon
<1> QED
  BY <1>1, Zenon

\* New routes to the physical port or to own addresses of interfaces do no harm.
LEMMA RoutesOnly ==
    ASSUME NEW s, NEW t, RestIn(s), Same(s, t), t.vni_ref = s.vni_ref,
           \A r \in t.routes : \/ r \in s.routes
                               \/ /\ r = [vni |-> r.vni, dst |-> r.dst, nh |-> r.nh]
                                  /\ r.nh = Pf0 \/ IsOwn(s, r)
    PROVE  RestIn(t)
<1>1. RefsIn(t)
  BY RefsFrame, Zenon DEF RestIn, Same
<1>2. LbsIn(t)
  <2>1. \A l \in s.lb : ~l.freed /\ l.ul \in s.vnf_handle => l.ul \in t.vnf_handle
    BY Zenon DEF Same
  <2> QED
    BY <2>1, LbsFrame, Zenon DEF RestIn, Same
<1>3. RoutesIn(t)
  <2> SUFFICES ASSUME NEW r \in t.routes
               PROVE  /\ r = [vni |-> r.vni, dst |-> r.dst, nh |-> r.nh]
                      /\ r.nh # Pf0 => IsOwn(t, r) \/ Known(t, AliasOf(r))
    BY Zenon DEF RoutesIn
  <2>1. IsOwn(t, r) <=> IsOwn(s, r)
    BY Zenon DEF IsOwn, ReadyIn, Same
  <2>2. Known(t, AliasOf(r)) <=> Known(s, AliasOf(r))
    BY Zenon DEF Known, Same
  <2>3. CASE r \in s.routes
    <3>1. /\ r = [vni |-> r.vni, dst |-> r.dst, nh |-> r.nh]
          /\ r.nh # Pf0 => IsOwn(s, r) \/ Known(s, AliasOf(r))
      BY <2>3, Zenon DEF RestIn, RoutesIn
    <3> QED
      BY <2>1, <2>2, <3>1, Zenon
  <2>4. CASE r \notin s.routes
    BY <2>1, <2>4, Zenon
  <2> QED
    BY <2>3, <2>4, Zenon
<1> QED
  BY <1>1, <1>2, <1>3, Zenon DEF RestIn

\* An underlay address of a record that is no prefix with a route is added ...
LEMMA VnfAddedRest ==
    ASSUME NEW s, NEW t, NEW ul, NEW f, RestIn(s), VnfAdded(s, t, ul, f),
           \A r \in s.routes : AliasOf(r) # ul.vnf
    PROVE  RestIn(t)
<1>1. RefsIn(t)
  BY RefsFrame, Zenon DEF RestIn, VnfAdded, Others
<1>2. LbsIn(t)
  <2>1. \A l \in s.lb : ~l.freed /\ l.ul \in s.vnf_handle => l.ul \in t.vnf_handle
    BY Zenon DEF VnfAdded
  <2> QED
    BY <2>1, LbsFrame, Zenon DEF RestIn, VnfAdded, Others
<1>3. RoutesIn(t)
  <2>1. \A r \in t.routes : Known(s, AliasOf(r)) => Known(t, AliasOf(r))
    <3> SUFFICES ASSUME NEW r \in t.routes, Known(s, AliasOf(r))
                 PROVE  Known(t, AliasOf(r))
      BY Zenon
    <3>1. AliasOf(r) # ul.vnf
      BY Zenon DEF VnfAdded, Others
    <3>2. \E u, g : VnfAdded(s, t, u, g) /\ u.vnf = ul.vnf
      BY Zenon
    <3> QED
      BY <3>1, <3>2, KnownStill, Zenon
  <2> QED
    BY <2>1, RoutesFrame, Zenon DEF RestIn, VnfAdded, Others
<1> QED
  BY <1>1, <1>2, <1>3, Zenon DEF RestIn

\* ... or deleted, when no live load balancer has it.
LEMMA VnfDeletedRest ==
    ASSUME NEW s, NEW t, NEW vnf, RestIn(s), VnfDeleted(s, t, vnf),
           \A r \in s.routes : AliasOf(r) # vnf, \A l \in s.lb : l.ul.vnf # vnf
    PROVE  RestIn(t)
<1>1. RefsIn(t)
  BY RefsFrame, Zenon DEF RestIn, VnfDeleted, Others
<1>2. LbsIn(t)
  <2>1. \A l \in s.lb : ~l.freed /\ l.ul \in s.vnf_handle => l.ul \in t.vnf_handle
    BY Zenon DEF VnfDeleted
  <2> QED
    BY <2>1, LbsFrame, Zenon DEF RestIn, VnfDeleted, Others
<1>3. RoutesIn(t)
  <2>1. \A r \in t.routes : Known(s, AliasOf(r)) => Known(t, AliasOf(r))
    <3> SUFFICES ASSUME NEW r \in t.routes, Known(s, AliasOf(r))
                 PROVE  Known(t, AliasOf(r))
      BY Zenon
    <3>1. AliasOf(r) # vnf
      BY Zenon DEF VnfDeleted, Others
    <3> QED
      BY <3>1, KnownStill, Zenon
  <2> QED
    BY <2>1, RoutesFrame, Zenon DEF RestIn, VnfDeleted, Others
<1> QED
  BY <1>1, <1>2, <1>3, Zenon DEF RestIn

\* The record of a prefix tells its route.
LEMMA AliasTells ==
    ASSUME NEW r, r = [vni |-> r.vni, dst |-> r.dst, nh |-> r.nh], NEW port, NEW vni, NEW pfx,
           AliasOf(r) = dp_fill_vnf_data("ALIAS_PFX", port, vni, pfx)
    PROVE  r = [vni |-> vni, dst |-> pfx, nh |-> port]
<1>1. r.nh = port /\ r.vni = vni /\ r.dst = pfx
  BY Zenon DEF AliasOf, dp_fill_vnf_data
<1> QED
  BY <1>1, Zenon

\* Creating a prefix, whichever step fails.
LEMMA CreatePrefixRest ==
    ASSUME NEW s, IsTables(s), RestIn(s), NEW port, NEW vni, NEW pfx, NEW ul, NEW f,
           ul.vnf = dp_fill_vnf_data("ALIAS_PFX", port, vni, pfx), ul \notin s.vnf_handle
    PROVE  RestIn(CreatePrefixSteps(s, port, vni, pfx, ul, f))
<1> DEFINE routed == dp_add_route(s, port, vni, pfx)
           done == dp_add_vnf(routed, ul, f)
           undone == dp_del_route(done, port, vni, pfx)
           new == [vni |-> vni, dst |-> pfx, nh |-> port]
<1>0. CreatePrefixSteps(s, port, vni, pfx, ul, f) =
        IF AddRouteFails(s, vni, pfx, f) THEN s
        ELSE IF f \in VnfFaults THEN undone
        ELSE done
  BY Zenon DEF CreatePrefixSteps
<1>1. Same(s, routed) /\ routed.vni_ref = s.vni_ref /\ routed.routes = s.routes \cup {new}
  <2>1. Same(s, routed)
    BY RouteSame, Zenon
  <2>2. routed.vni_ref = s.vni_ref /\ routed.routes = s.routes \cup {new}
    BY Zenon DEF IsTables, dp_add_route
  <2> QED
    BY <2>1, <2>2, Zenon
<1> HIDE DEF routed
<1>2. VnfAdded(routed, done, ul, f)
  <2>1. IsTables(routed) /\ ul \notin routed.vnf_handle
    BY <1>1, Zenon DEF Same
  <2> QED
    BY <2>1, AddVnf, Zenon
<1> HIDE DEF done
<1>3. Same(done, undone) /\ undone.vni_ref = done.vni_ref /\ undone.routes = done.routes \ {new}
  <2>1. IsTables(done)
    BY <1>2, Zenon DEF VnfAdded, Others
  <2>2. Same(done, undone)
    BY <2>1, RouteSame, Zenon
  <2>3. undone.vni_ref = done.vni_ref /\ undone.routes = done.routes \ {new}
    BY <2>1, Zenon DEF IsTables, dp_del_route
  <2> QED
    BY <2>2, <2>3, Zenon
<1> HIDE DEF undone
<1>5. /\ done.iface = s.iface /\ done.lb = s.lb /\ done.lb_id = s.lb_id
      /\ done.vni_ref = s.vni_ref /\ done.routes = s.routes \cup {new}
      /\ s.vnf_handle \subseteq done.vnf_handle
  BY <1>1, <1>2, Zenon DEF VnfAdded, Others, Same
<1>6. /\ undone.iface = s.iface /\ undone.lb = s.lb /\ undone.lb_id = s.lb_id
      /\ undone.vni_ref = s.vni_ref /\ undone.routes \subseteq s.routes \ {new}
      /\ undone.vnf_handle = done.vnf_handle /\ undone.vnf_value = done.vnf_value
  BY <1>3, <1>5, Zenon DEF Same
<1>7. /\ RefsIn(done) /\ RefsIn(undone) /\ LbsIn(done) /\ LbsIn(undone)
  <2>1. RefsIn(done) /\ RefsIn(undone)
    BY <1>5, <1>6, RefsFrame, Zenon DEF RestIn
  <2>2. \A l \in s.lb : ~l.freed /\ l.ul \in s.vnf_handle => l.ul \in done.vnf_handle
    BY <1>5, Zenon
  <2>3. LbsIn(done)
    BY <1>5, <2>2, LbsFrame, Zenon DEF RestIn
  <2>4. LbsIn(undone)
    BY <1>6, <2>2, LbsFrame, Zenon DEF RestIn
  <2> QED
    BY <2>1, <2>3, <2>4, Zenon
<1>8. ASSUME NEW r \in s.routes, r # new
      PROVE  /\ r = [vni |-> r.vni, dst |-> r.dst, nh |-> r.nh]
             /\ r.nh # Pf0 => \/ IsOwn(done, r) /\ IsOwn(undone, r)
                              \/ Known(done, AliasOf(r)) /\ Known(undone, AliasOf(r))
  <2>1. /\ r = [vni |-> r.vni, dst |-> r.dst, nh |-> r.nh]
        /\ r.nh # Pf0 => IsOwn(s, r) \/ Known(s, AliasOf(r))
    BY Zenon DEF RestIn, RoutesIn
  <2>2. IsOwn(s, r) => IsOwn(done, r) /\ IsOwn(undone, r)
    BY <1>5, <1>6, Zenon DEF IsOwn, ReadyIn
  <2>3. AliasOf(r) # ul.vnf
    BY <1>8, <2>1, AliasTells
  <2>4. Known(s, AliasOf(r)) => Known(routed, AliasOf(r))
    BY <1>1, Zenon DEF Known, Same
  <2>5. Known(routed, AliasOf(r)) => Known(done, AliasOf(r))
    BY <1>2, <2>3, KnownStill, Zenon
  <2>6. Known(done, AliasOf(r)) => Known(undone, AliasOf(r))
    BY <1>6, Zenon DEF Known
  <2> QED
    BY <2>1, <2>2, <2>4, <2>5, <2>6, Zenon
<1>9. RestIn(undone)
  <2>1. RoutesIn(undone)
    BY <1>6, <1>8, Zenon DEF RoutesIn
  <2> QED
    BY <1>7, <2>1, Zenon DEF RestIn
<1>10. ASSUME f \notin VnfFaults PROVE RestIn(done)
  <2>1. Known(done, AliasOf(new))
    <3>1. ul \in done.vnf_handle /\ ul \in done.vnf_value
      BY <1>2, <1>10, Zenon DEF VnfAdded
    <3>2. AliasOf(new) = ul.vnf
      BY Zenon DEF AliasOf
    <3> QED
      BY <3>1, <3>2, Zenon DEF Known
  <2>2. new = [vni |-> new.vni, dst |-> new.dst, nh |-> new.nh]
    BY Zenon
  <2> HIDE DEF new
  <2>3. RoutesIn(done)
    BY <1>5, <1>8, <2>1, <2>2, Zenon DEF RoutesIn
  <2> QED
    BY <1>7, <2>3, Zenon DEF RestIn
<1> QED
  BY <1>0, <1>9, <1>10, Zenon

\* dp_lpm_reset_route_tables leaves routes it found and own ones.
LEMMA ResetRest ==
    ASSUME NEW s, IsTables(s), RestIn(s), NEW vnis
    PROVE  RestIn(dp_lpm_reset_route_tables(s, vnis))
<1> DEFINE ready == {n \in DOMAIN PortSeq : /\ s.iface[PortSeq[n]] # None
                                            /\ s.iface[PortSeq[n]].vni \in vnis}
           kept == {r \in s.routes : r.vni \notin vnis}
           own == dp_lpm_fill_route_tables(s, ready \X {4, 6})
           t == dp_lpm_reset_route_tables(s, vnis)
<1>1. t = [s EXCEPT !.routes = kept \cup own]
  BY Zenon DEF dp_lpm_reset_route_tables
<1>2. ASSUME NEW r \in own
      PROVE  r = [vni |-> r.vni, dst |-> r.dst, nh |-> r.nh] /\ IsOwn(s, r)
  <2>1. PICK n \in ready, k \in {4, 6} : r = OwnRoute(s, <<n, k>>)
    BY DEF dp_lpm_fill_route_tables
  <2> DEFINE port == PortSeq[n]
             i == s.iface[port]
  <2>2. r = [vni |-> i.vni, nh |-> port, dst |-> IF k = 4 THEN i.ip4 ELSE i.ip6]
    BY <2>1, Zenon DEF OwnRoute
  <2>3. port \in Ports /\ i # None
    BY Zenon DEF Ports, Range
  <2> HIDE DEF port
  <2> QED
    BY <2>2, <2>3, Zenon DEF IsOwn, ReadyIn
<1> HIDE DEF own, t
<1>3. Same(s, t) /\ t.vni_ref = s.vni_ref /\ t.routes = kept \cup own
  <2> HIDE DEF kept
  <2> QED
    BY <1>1, Zenon DEF Same, IsTables
<1>4. RestIn(t)
  BY <1>2, <1>3, RoutesOnly, Zenon
<1> QED
  BY <1>4, Zenon DEF t

-----------------------------------------------------------------------------
\* Counting references

\* One element more, ...
LEMMA CountUp ==
    ASSUME NEW S, IsFiniteSet(S), NEW x, x \notin S
    PROVE  /\ Cardinality(S) \in Nat
           /\ Cardinality(S \cup {x}) = Cardinality(S) + 1
BY FS_AddElement, FS_CardinalityType, Zenon

\* ... and one less.
LEMMA CountDown ==
    ASSUME NEW S, IsFiniteSet(S), NEW x \in S
    PROVE  /\ Cardinality(S \ {x}) \in Nat
           /\ Cardinality(S) = Cardinality(S \ {x}) + 1
<1>1. IsFiniteSet(S \ {x}) /\ x \notin S \ {x} /\ (S \ {x}) \cup {x} = S
  BY FS_RemoveElement, Zenon
<1> QED
  BY <1>1, CountUp, Zenon

\* What is counted can be counted.
LEMMA Countable ==
    ASSUME NEW s, IsFiniteSet(s.lb), NEW v
    PROVE  /\ IsFiniteSet(VniPorts(s, v)) /\ IsFiniteSet(VniLbs(s, v))
           /\ Cardinality(VniPorts(s, v)) \in Nat /\ Cardinality(VniLbs(s, v)) \in Nat
           /\ Refs(s, v) \in Nat
<1>1. IsFiniteSet(VniPorts(s, v))
  <2>1. VniPorts(s, v) \in SUBSET Ports /\ IsFiniteSet(Ports)
    BY ConstantsAssumption, Zenon DEF VniPorts, ReadyIn
  <2> QED
    BY <2>1, FS_Subset, Zenon
<1>2. IsFiniteSet(VniLbs(s, v))
  <2>1. VniLbs(s, v) \in SUBSET s.lb
    BY Zenon DEF VniLbs
  <2> QED
    BY <2>1, FS_Subset, Zenon
<1>3. Cardinality(VniPorts(s, v)) \in Nat /\ Cardinality(VniLbs(s, v)) \in Nat
  BY <1>1, <1>2, FS_CardinalityType, Zenon
<1>4. Refs(s, v) \in Nat
  <2> DEFINE m == Cardinality(VniPorts(s, v))
             n == Cardinality(VniLbs(s, v))
  <2>1. Refs(s, v) = m + n
    BY Zenon DEF Refs
  <2>2. m \in Nat /\ n \in Nat
    BY <1>3, Zenon
  <2> HIDE DEF m, n
  <2> QED
    BY <2>1, <2>2
<1> QED
  BY <1>1, <1>2, <1>3, <1>4, Zenon

\* The counts after one more reference to v.
Taken(refs, v) == [refs EXCEPT ![v] = @ + 1]

\* One more interface or load balancer, and one more reference ...
LEMMA RefsTaken ==
    ASSUME NEW s, NEW t, RefsIn(s), IsFiniteSet(t.lb), NEW v \in Vnis,
           t.vni_ref = Taken(s.vni_ref, v),
           Refs(t, v) = Refs(s, v) + 1, \A x \in Vnis \ {v} : Refs(t, x) = Refs(s, x)
    PROVE  RefsIn(t)
<1>1. s.vni_ref \in [Vnis -> Nat]
  BY Zenon DEF RefsIn
<1>2. t.vni_ref \in [Vnis -> Nat]
  BY <1>1 DEF Taken
<1>3. t.vni_ref[v] = Refs(t, v)
  BY <1>1, Zenon DEF RefsIn, Taken
<1>4. \A x \in Vnis \ {v} : t.vni_ref[x] = Refs(t, x)
  BY <1>1, Zenon DEF RefsIn, Taken
<1> QED
  BY <1>2, <1>3, <1>4, Zenon DEF RefsIn

\* ... or one less of both.
LEMMA RefsReleased ==
    ASSUME NEW s, NEW t, RefsIn(s), IsFiniteSet(t.lb), NEW v \in Vnis,
           t.vni_ref = Released(s.vni_ref, v),
           Refs(s, v) = Refs(t, v) + 1, \A x \in Vnis \ {v} : Refs(t, x) = Refs(s, x)
    PROVE  RefsIn(t)
<1> DEFINE n == Refs(t, v)
           k == s.vni_ref[v]
<1>1. s.vni_ref \in [Vnis -> Nat]
  BY Zenon DEF RefsIn
<1>2. n \in Nat
  BY Countable, Zenon
<1>3. k = n + 1
  BY Zenon DEF RefsIn
<1>4. (IF k > 1 THEN k - 1 ELSE 0) = n
  <2> HIDE DEF n, k
  <2> QED
    BY <1>2, <1>3
<1>5. t.vni_ref = [s.vni_ref EXCEPT ![v] = n]
  BY <1>4, Zenon DEF Released
<1> HIDE DEF n, k
<1>6. t.vni_ref \in [Vnis -> Nat] /\ t.vni_ref[v] = n
  BY <1>1, <1>2, <1>5, Zenon
<1>7. \A x \in Vnis \ {v} : t.vni_ref[x] = Refs(t, x)
  BY <1>1, <1>5, Zenon DEF RefsIn
<1> QED
  BY <1>6, <1>7, Zenon DEF RefsIn, n

-----------------------------------------------------------------------------
\* Interfaces

\* A created interface: one more reference to its VNI, and its own routes.
LEMMA CreateRest ==
    ASSUME NEW s, NEW r, NEW ul, Creatable(s, r, ul), NEW f, RestIn(s)
    PROVE  RestIn(CreateInterfaceSteps(s, r, ul, f))
<1> DEFINE w == CreateInterfaceSteps(s, r, ul, f)
<1>0. s.vni_ref \in [Vnis -> Nat] /\ IsFiniteSet(s.lb)
  BY Zenon DEF RestIn, RefsIn
<1>1. \/ Undone(s, w)
      \/ \E t : /\ IfaceStage(s, t, r, ul) /\ s.iface_id[r.id] = None
                /\ w = dp_start_port(t, r.port)
  BY CreateOutcome, Zenon
<1> HIDE DEF w
<1>2. ASSUME Undone(s, w) PROVE RestIn(w)
  <2>1. Same(s, w) /\ w.vni_ref = s.vni_ref /\ w.routes \subseteq s.routes
    BY <1>0, <1>2, Zenon DEF Undone, Back
  <2> QED
    BY <2>1, RoutesOnly, Zenon
<1>3. ASSUME NEW t, IfaceStage(s, t, r, ul), w = dp_start_port(t, r.port) PROVE RestIn(w)
  <2> DEFINE i == [id |-> r.id, vni |-> r.vni, ip4 |-> r.ip4, ip6 |-> r.ip6, ul |-> ul]
  <2>1. i \in Interfaces /\ i.vni = r.vni /\ i.ip4 = r.ip4 /\ i.ip6 = r.ip6
    BY Zenon DEF Creatable, InterfaceRequests, Interfaces
  <2>2. i # None
    BY <2>1, ConstantsAssumption, Zenon
  <2>3. t.iface = [s.iface EXCEPT ![r.port] = i]
    BY <1>3, Zenon DEF IfaceStage
  <2> HIDE DEF i
  <2>4. /\ w.iface = t.iface /\ w.lb = t.lb /\ w.lb_id = t.lb_id /\ w.vni_ref = t.vni_ref
        /\ w.routes = t.routes /\ w.vnf_handle = t.vnf_handle /\ w.vnf_value = t.vnf_value
    <3>1. IsTables(t)
      BY <1>3, Zenon DEF IfaceStage
    <3>2. w = [t EXCEPT !.allocated = [t.allocated EXCEPT ![r.port] = TRUE]]
      BY <1>3, Zenon DEF dp_start_port
    <3> QED
      BY <3>1, <3>2, Zenon DEF IsTables
  <2>5. /\ w.lb = s.lb /\ w.lb_id = s.lb_id /\ w.vni_ref = [s.vni_ref EXCEPT ![r.vni] = @ + 1]
        /\ w.routes \subseteq s.routes \cup RoutesOf(r.port, r)
        /\ s.vnf_handle \subseteq w.vnf_handle /\ s.vnf_value \subseteq w.vnf_value
    BY <1>0, <1>3, <2>4, Zenon DEF IfaceStage, Grown
  <2>6. r.port \in Ports /\ s.iface[r.port] = None
    BY FreePort, Zenon
  <2>7. s.iface \in [Ports -> Interfaces \cup {None}] /\ r.vni \in Vnis
    BY Zenon DEF Creatable, WholeIn, InterfaceRequests
  <2>8. w.iface = [s.iface EXCEPT ![r.port] = i]
    BY <2>3, <2>4, Zenon
  <2>9. /\ ReadyIn(w) = ReadyIn(s) \cup {r.port} /\ w.iface[r.port] = i
        /\ \A p \in ReadyIn(s) : w.iface[p] = s.iface[p] /\ p # r.port
    BY <2>2, <2>6, <2>7, <2>8 DEF ReadyIn
  <2>10. RefsIn(w)
    <3>1. VniPorts(w, r.vni) = VniPorts(s, r.vni) \cup {r.port} /\ r.port \notin VniPorts(s, r.vni)
      BY <2>1, <2>9, Zenon DEF VniPorts
    <3>2. \A x \in Vnis \ {r.vni} : VniPorts(w, x) = VniPorts(s, x)
      BY <2>1, <2>9, Zenon DEF VniPorts
    <3>3. \A x : VniLbs(w, x) = VniLbs(s, x)
      BY <2>5, Zenon DEF VniLbs
    <3>4. /\ Cardinality(VniPorts(s, r.vni)) \in Nat /\ Cardinality(VniLbs(s, r.vni)) \in Nat
          /\ IsFiniteSet(VniPorts(s, r.vni))
      BY <1>0, Countable, Zenon
    <3>5. Cardinality(VniPorts(w, r.vni)) = Cardinality(VniPorts(s, r.vni)) + 1
      BY <3>1, <3>4, CountUp, Zenon
    <3>6. Refs(w, r.vni) = Refs(s, r.vni) + 1
      <4> DEFINE m == Cardinality(VniPorts(s, r.vni))
                 n == Cardinality(VniLbs(s, r.vni))
      <4>1. Refs(w, r.vni) = (m + 1) + n /\ Refs(s, r.vni) = m + n
        BY <3>3, <3>5, Zenon DEF Refs
      <4>2. m \in Nat /\ n \in Nat
        BY <3>4, Zenon
      <4> HIDE DEF m, n
      <4> QED
        BY <4>1, <4>2
    <3>7. \A x \in Vnis \ {r.vni} : Refs(w, x) = Refs(s, x)
      BY <3>2, <3>3, Zenon DEF Refs
    <3>8. IsFiniteSet(w.lb) /\ RefsIn(s)
      BY <1>0, <2>5, Zenon DEF RestIn
    <3>9. w.vni_ref = Taken(s.vni_ref, r.vni)
      BY <2>5, <2>7, Zenon DEF Taken
    <3> QED
      BY <2>5, <2>7, <3>6, <3>7, <3>8, <3>9, RefsTaken, Zenon
  <2>11. LbsIn(w)
    <3>1. \A l \in s.lb : ~l.freed /\ l.ul \in s.vnf_handle => l.ul \in w.vnf_handle
      BY <2>5, Zenon
    <3> QED
      BY <2>5, <3>1, LbsFrame, Zenon DEF RestIn
  <2>12. RoutesIn(w)
    <3>1. ASSUME NEW q \in s.routes
          PROVE  /\ q = [vni |-> q.vni, dst |-> q.dst, nh |-> q.nh]
                 /\ q.nh # Pf0 => IsOwn(w, q) \/ Known(w, AliasOf(q))
      <4>1. /\ q = [vni |-> q.vni, dst |-> q.dst, nh |-> q.nh]
            /\ q.nh # Pf0 => IsOwn(s, q) \/ Known(s, AliasOf(q))
        BY Zenon DEF RestIn, RoutesIn
      <4>2. IsOwn(s, q) => IsOwn(w, q)
        BY <2>9, Zenon DEF IsOwn
      <4>3. Known(s, AliasOf(q)) => Known(w, AliasOf(q))
        BY <2>5, Zenon DEF Known
      <4> QED
        BY <4>1, <4>2, <4>3, Zenon
    <3>2. ASSUME NEW q \in RoutesOf(r.port, r)
          PROVE  q = [vni |-> q.vni, dst |-> q.dst, nh |-> q.nh] /\ IsOwn(w, q)
      BY <2>1, <2>9 DEF RoutesOf, IsOwn
    <3> QED
      BY <2>5, <3>1, <3>2, Zenon DEF RoutesIn
  <2> QED
    BY <2>10, <2>11, <2>12, Zenon DEF RestIn
<1>4. RestIn(w)
  BY <1>1, <1>2, <1>3, Zenon
<1> QED
  BY <1>4, Zenon DEF w

\* A deleted interface: one reference less, and none of its own routes.
LEMMA DeleteRest ==
    ASSUME NEW s, WholeIn(s), RestIn(s), NEW id \in Ids, s.iface_id[id] # None, NEW f
    PROVE  RestIn(DeletedInterface(s, id, f)) /\ IsTables(DeletedInterface(s, id, f))
<1> DEFINE port == s.iface_id[id]
           ul == s.iface[port].ul
           i == s.iface[port]
           w == DeletedInterface(s, id, f)
<1> HIDE DEF port, ul, i, w
<1>0. s.vni_ref \in [Vnis -> Nat] /\ IsFiniteSet(s.lb)
  BY Zenon DEF RestIn, RefsIn
<1>1. InterfaceDeleted(s, id, port, ul, w)
  <2>1. /\ port = s.iface_id[id] /\ port # None /\ ul = s.iface[port].ul
        /\ w = DeletedInterface(s, id, f)
    BY Zenon DEF port, ul, w
  <2> QED
    BY <2>1, DeleteOutcome, Zenon
<1>2. /\ port \in Ports /\ i # None /\ IsTables(w)
      /\ w.iface = [s.iface EXCEPT ![port] = None]
      /\ w.lb = s.lb /\ w.lb_id = s.lb_id
      /\ w.vnf_handle = s.vnf_handle \ {ul}
      /\ w.vnf_value = {u \in s.vnf_value : u.vnf # ul.vnf}
  BY <1>1, Zenon DEF InterfaceDeleted, i
<1>3. w.routes \subseteq s.routes \ RoutesOf(port, i) /\ w.vni_ref = Released(s.vni_ref, i.vni)
  BY <1>1, Zenon DEF InterfaceDeleted, i
<1>4. s.iface \in [Ports -> Interfaces \cup {None}]
  BY Zenon DEF WholeIn
<1>5. i \in Interfaces /\ i.vni \in Vnis
  BY <1>2, <1>4, Zenon DEF i, Interfaces
<1>6. port \in ReadyIn(s) /\ ul.vnf.type = "INTERFACE_IP"
  <2>1. port \in ReadyIn(s)
    BY <1>2, Zenon DEF ReadyIn, i
  <2> QED
    BY <2>1, Zenon DEF WholeIn, ul
<1>7. /\ ReadyIn(w) = ReadyIn(s) \ {port}
      /\ \A p \in ReadyIn(w) : w.iface[p] = s.iface[p]
  BY <1>2, <1>4, Zenon DEF ReadyIn
<1>8. RefsIn(w)
  <2>1. VniPorts(w, i.vni) = VniPorts(s, i.vni) \ {port} /\ port \in VniPorts(s, i.vni)
    BY <1>6, <1>7, Zenon DEF VniPorts, i
  <2>2. \A x \in Vnis \ {i.vni} : VniPorts(w, x) = VniPorts(s, x)
    BY <1>6, <1>7, Zenon DEF VniPorts, i
  <2>3. \A x : VniLbs(w, x) = VniLbs(s, x)
    BY <1>2, Zenon DEF VniLbs
  <2>4. /\ Cardinality(VniLbs(s, i.vni)) \in Nat /\ IsFiniteSet(VniPorts(s, i.vni))
    BY <1>0, Countable, Zenon
  <2>5. /\ Cardinality(VniPorts(s, i.vni)) = Cardinality(VniPorts(w, i.vni)) + 1
        /\ Cardinality(VniPorts(w, i.vni)) \in Nat
    BY <2>1, <2>4, CountDown, Zenon
  <2>6. Refs(s, i.vni) = Refs(w, i.vni) + 1
    <3> DEFINE m == Cardinality(VniPorts(w, i.vni))
               n == Cardinality(VniLbs(s, i.vni))
    <3>1. Refs(s, i.vni) = (m + 1) + n /\ Refs(w, i.vni) = m + n
      BY <2>3, <2>5, Zenon DEF Refs
    <3>2. m \in Nat /\ n \in Nat
      BY <2>4, <2>5, Zenon
    <3> HIDE DEF m, n
    <3> QED
      BY <3>1, <3>2
  <2>7. \A x \in Vnis \ {i.vni} : Refs(w, x) = Refs(s, x)
    BY <2>2, <2>3, Zenon DEF Refs
  <2>8. IsFiniteSet(w.lb) /\ RefsIn(s)
    BY <1>0, <1>2, Zenon DEF RestIn
  <2> QED
    BY <1>3, <1>5, <2>6, <2>7, <2>8, RefsReleased, Zenon
<1>9. LbsIn(w)
  <2>1. \A l \in s.lb : l.ul.vnf.type = "LB"
    BY Zenon DEF WholeIn
  <2>2. \A l \in s.lb : ~l.freed /\ l.ul \in s.vnf_handle => l.ul \in w.vnf_handle
    BY <1>2, <1>6, <2>1, Zenon
  <2> QED
    BY <1>2, <2>2, LbsFrame, Zenon DEF RestIn
<1>10. RoutesIn(w)
  <2> SUFFICES ASSUME NEW q \in w.routes
               PROVE  /\ q = [vni |-> q.vni, dst |-> q.dst, nh |-> q.nh]
                      /\ q.nh # Pf0 => IsOwn(w, q) \/ Known(w, AliasOf(q))
    BY Zenon DEF RoutesIn
  <2>1. /\ q = [vni |-> q.vni, dst |-> q.dst, nh |-> q.nh]
        /\ q.nh # Pf0 => IsOwn(s, q) \/ Known(s, AliasOf(q))
    BY <1>3, Zenon DEF RestIn, RoutesIn
  <2>2. IsOwn(s, q) => IsOwn(w, q)
    <3>1. ASSUME IsOwn(s, q) PROVE q.nh # port
      <4>1. ASSUME q.nh = port PROVE FALSE
        <5>1. q.vni = i.vni /\ q.dst \in {i.ip4, i.ip6}
          BY <3>1, <4>1, Zenon DEF IsOwn, i
        <5>2. q \in RoutesOf(port, i)
          BY <2>1, <4>1, <5>1, Zenon DEF RoutesOf
        <5> QED
          BY <1>3, <5>2, Zenon
      <4> QED
        BY <4>1, Zenon
    <3> QED
      BY <1>7, <3>1, Zenon DEF IsOwn
  <2>3. Known(s, AliasOf(q)) => Known(w, AliasOf(q))
    <3>1. AliasOf(q).type = "ALIAS_PFX"
      BY Zenon DEF AliasOf, dp_fill_vnf_data
    <3>2. AliasOf(q) # ul.vnf
      BY <1>6, <3>1, Zenon
    <3> QED
      BY <1>2, <3>2, Zenon DEF Known
  <2> QED
    BY <2>1, <2>2, <2>3, Zenon
<1>11. RestIn(w)
  BY <1>8, <1>9, <1>10, Zenon DEF RestIn
<1> QED
  BY <1>2, <1>11, Zenon DEF w

-----------------------------------------------------------------------------
\* Load balancers

\* dp_del_vnf removes one underlay address only, of the several that the load
\* balancers of a VNI have for the same record.
LEMMA DelVnfOne ==
    ASSUME NEW s, IsTables(s), NEW ul
    PROVE  LET t == dp_del_vnf(s, ul) IN
           /\ VnfDeleted(s, t, ul.vnf)
           /\ t.vnf_handle = s.vnf_handle \ {ul}
<1>1. VnfDeleted(s, dp_del_vnf(s, ul), ul.vnf)
  BY DelVnfOther, Zenon
<1>2. dp_del_vnf(s, ul).vnf_handle = s.vnf_handle \ {ul}
  <2>1. CASE ul \in s.vnf_handle
    BY <2>1, Zenon DEF IsTables, dp_del_vnf, dp_delete_vnf_value
  <2>2. CASE ul \notin s.vnf_handle
    BY <2>2, Zenon DEF dp_del_vnf
  <2> QED
    BY <2>1, <2>2, Zenon
<1> QED
  BY <1>1, <1>2, Zenon

\* The record of a load balancer is not that of a prefix.
LEMMA RoutesUnderLb ==
    ASSUME NEW s, NEW t, RoutesIn(s), t.iface = s.iface, t.routes \subseteq s.routes,
           NEW vnf, vnf.type = "LB",
           \A u \in s.vnf_handle : u.vnf # vnf => u \in t.vnf_handle,
           \A u \in s.vnf_value : u.vnf # vnf => u \in t.vnf_value
    PROVE  RoutesIn(t)
<1>1. ASSUME NEW r \in t.routes, Known(s, AliasOf(r))
      PROVE  Known(t, AliasOf(r))
  <2>1. AliasOf(r).type = "ALIAS_PFX"
    BY Zenon DEF AliasOf, dp_fill_vnf_data
  <2>2. AliasOf(r) # vnf
    BY <2>1, Zenon
  <2> QED
    BY <1>1, <2>2, Zenon DEF Known
<1> QED
  BY <1>1, RoutesFrame, Zenon

\* A load balancer without an id is one whose record was freed: its entry is not
\* counted, and no id leads to it.
LEMMA LbFreed ==
    ASSUME NEW s, NEW t, RefsIn(s), LbsIn(s), NEW e \in Lbs, e.freed,
           LbEntries(s, e.key) = {}, t.lb = s.lb \cup {e}, t.lb_id = s.lb_id,
           t.iface = s.iface, t.vni_ref = s.vni_ref, s.vnf_handle \subseteq t.vnf_handle
    PROVE  RefsIn(t) /\ LbsIn(t)
<1>1. \A l \in s.lb : l.key # e.key
  BY Zenon DEF LbEntries
<1>2. RefsIn(t)
  <2>1. \A v : VniPorts(t, v) = VniPorts(s, v) /\ VniLbs(t, v) = VniLbs(s, v)
    BY Zenon DEF VniPorts, VniLbs, ReadyIn
  <2>2. IsFiniteSet(t.lb)
    BY FS_AddElement DEF RefsIn
  <2> QED
    BY <2>1, <2>2, Zenon DEF RefsIn, Refs
<1>3. LbsIn(t)
  <2>1. t.lb \subseteq Lbs /\ \A l, m \in t.lb : l.key = m.key => l = m
    BY <1>1, Zenon DEF LbsIn
  <2>2. \A id \in LbIds : t.lb_id[id] # None => \E l \in t.lb : l.key = t.lb_id[id] /\ ~l.freed
    BY Zenon DEF LbsIn
  <2>3. \A l \in t.lb : ~l.freed => l \in s.lb
    BY Zenon
  <2>4. /\ \A l \in t.lb : ~l.freed => l.ul \in t.vnf_handle
        /\ \A l, m \in t.lb : ~l.freed /\ ~m.freed /\ l.ul = m.ul => l = m
    BY <2>3, Zenon DEF LbsIn
  <2> QED
    BY <2>1, <2>2, <2>4 DEF LbsIn
<1> QED
  BY <1>2, <1>3, Zenon

\* A created load balancer is one more reference to its VNI.
LEMMA LbAdded ==
    ASSUME NEW s, NEW t, RefsIn(s), LbsIn(s), NEW e \in Lbs, ~e.freed, NEW id \in LbIds,
           LbEntries(s, e.key) = {}, e.ul \notin s.vnf_handle, e.ul \in t.vnf_handle,
           t.lb = s.lb \cup {e}, t.lb_id = [s.lb_id EXCEPT ![id] = e.key],
           t.iface = s.iface, t.vni_ref = [s.vni_ref EXCEPT ![e.key[1]] = @ + 1],
           s.vnf_handle \subseteq t.vnf_handle
    PROVE  RefsIn(t) /\ LbsIn(t)
<1>1. \A l \in s.lb : l.key # e.key
  BY Zenon DEF LbEntries
<1>2. e.key \in LbKeys /\ e.key[1] \in Vnis
  BY Zenon DEF Lbs, LbKeys
<1>3. RefsIn(t)
  <2> DEFINE v == e.key[1]
  <2>1. \A x : VniPorts(t, x) = VniPorts(s, x)
    BY Zenon DEF VniPorts, ReadyIn
  <2>2. VniLbs(t, v) = VniLbs(s, v) \cup {e} /\ e \notin VniLbs(s, v)
    BY <1>1, Zenon DEF VniLbs
  <2>3. \A x \in Vnis \ {v} : VniLbs(t, x) = VniLbs(s, x)
    BY Zenon DEF VniLbs
  <2> HIDE DEF v
  <2>4. IsFiniteSet(s.lb) /\ IsFiniteSet(t.lb)
    BY FS_AddElement DEF RefsIn
  <2>5. Cardinality(VniPorts(s, v)) \in Nat /\ IsFiniteSet(VniLbs(s, v))
    BY <2>4, Countable, Zenon
  <2>6. Cardinality(VniLbs(s, v)) \in Nat /\ Cardinality(VniLbs(t, v)) = Cardinality(VniLbs(s, v)) + 1
    BY <2>2, <2>5, CountUp, Zenon
  <2>7. Refs(t, v) = Refs(s, v) + 1
    <3> DEFINE m == Cardinality(VniPorts(s, v))
               n == Cardinality(VniLbs(s, v))
    <3>1. Refs(t, v) = m + (n + 1) /\ Refs(s, v) = m + n
      BY <2>1, <2>6, Zenon DEF Refs
    <3>2. m \in Nat /\ n \in Nat
      BY <2>5, <2>6, Zenon
    <3> HIDE DEF m, n
    <3> QED
      BY <3>1, <3>2
  <2>8. \A x \in Vnis \ {v} : Refs(t, x) = Refs(s, x)
    BY <2>1, <2>3, Zenon DEF Refs
  <2>9. v \in Vnis /\ t.vni_ref = Taken(s.vni_ref, v)
    BY <1>2, Zenon DEF v, Taken
  <2> QED
    BY <2>4, <2>7, <2>8, <2>9, RefsTaken, Zenon
<1>4. LbsIn(t)
  <2>1. s.lb_id \in [LbIds -> LbKeys \cup {None}] /\ t.lb_id \in [LbIds -> LbKeys \cup {None}]
    BY <1>2 DEF LbsIn
  <2>2. /\ t.lb_id[id] = e.key /\ \A j \in LbIds \ {id} : t.lb_id[j] = s.lb_id[j]
    BY <2>1, Zenon
  <2>3. \A j \in LbIds : s.lb_id[j] # None =>
            s.lb_id[j] # e.key /\ \E l \in s.lb : l.key = s.lb_id[j] /\ ~l.freed
    BY <1>1 DEF LbsIn
  <2>4. t.lb \subseteq Lbs /\ \A l, m \in t.lb : l.key = m.key => l = m
    BY <1>1, Zenon DEF LbsIn
  <2>5. \A j \in LbIds : t.lb_id[j] # None => \E l \in t.lb : l.key = t.lb_id[j] /\ ~l.freed
    BY <2>2, <2>3, Zenon
  <2>6. \A i, j \in LbIds : t.lb_id[i] = t.lb_id[j] /\ t.lb_id[i] # None => i = j
    BY <2>2, <2>3 DEF LbsIn
  <2>7. \A l \in t.lb : ~l.freed => l.ul \in t.vnf_handle
    BY Zenon DEF LbsIn
  <2>8. \A l, m \in t.lb : ~l.freed /\ ~m.freed /\ l.ul = m.ul => l = m
    BY Zenon DEF LbsIn
  <2> QED
    BY <2>1, <2>4, <2>5, <2>6, <2>7, <2>8, Zenon DEF LbsIn
<1> QED
  BY <1>3, <1>4, Zenon

\* A load balancer's id is forgotten.
LEMMA LbForgotten ==
    ASSUME NEW s, NEW t, LbsIn(s), NEW id \in LbIds, t.lb = s.lb,
           t.lb_id = [s.lb_id EXCEPT ![id] = None], s.vnf_handle \subseteq t.vnf_handle
    PROVE  LbsIn(t)
<1>1. s.lb_id \in [LbIds -> LbKeys \cup {None}] /\ t.lb_id \in [LbIds -> LbKeys \cup {None}]
  BY DEF LbsIn
<1>2. t.lb_id[id] = None /\ \A j \in LbIds \ {id} : t.lb_id[j] = s.lb_id[j]
  BY <1>1, Zenon
<1>3. \A j \in LbIds : t.lb_id[j] # None => j # id /\ t.lb_id[j] = s.lb_id[j]
  BY <1>2, Zenon
<1> QED
  BY <1>1, <1>3 DEF LbsIn

\* A deleted load balancer is one reference less, and its id leads nowhere.
LEMMA LbRemoved ==
    ASSUME NEW s, NEW t, RefsIn(s), LbsIn(s), NEW id \in LbIds, s.lb_id[id] # None,
           NEW l \in s.lb, l.key = s.lb_id[id],
           t.lb = s.lb \ {l}, t.lb_id = [s.lb_id EXCEPT ![id] = None],
           t.iface = s.iface, t.vni_ref = Released(s.vni_ref, l.key[1]),
           t.vnf_handle = s.vnf_handle \ {l.ul}
    PROVE  RefsIn(t) /\ LbsIn(t)
<1>1. ~l.freed
  BY DEF LbsIn
<1>2. l.key \in LbKeys /\ l.key[1] \in Vnis
  BY Zenon DEF Lbs, LbKeys, LbsIn
<1>3. RefsIn(t)
  <2> DEFINE v == l.key[1]
  <2>1. \A x : VniPorts(t, x) = VniPorts(s, x)
    BY Zenon DEF VniPorts, ReadyIn
  <2>2. VniLbs(t, v) = VniLbs(s, v) \ {l} /\ l \in VniLbs(s, v)
    BY <1>1, Zenon DEF VniLbs
  <2>3. \A x \in Vnis \ {v} : VniLbs(t, x) = VniLbs(s, x)
    BY Zenon DEF VniLbs
  <2> HIDE DEF v
  <2>4. IsFiniteSet(s.lb) /\ IsFiniteSet(t.lb)
    BY FS_RemoveElement, Zenon DEF RefsIn
  <2>5. Cardinality(VniPorts(s, v)) \in Nat /\ IsFiniteSet(VniLbs(s, v))
    BY <2>4, Countable, Zenon
  <2>6. Cardinality(VniLbs(t, v)) \in Nat /\ Cardinality(VniLbs(s, v)) = Cardinality(VniLbs(t, v)) + 1
    BY <2>2, <2>5, CountDown
  <2>7. Refs(s, v) = Refs(t, v) + 1
    <3> DEFINE m == Cardinality(VniPorts(s, v))
               n == Cardinality(VniLbs(t, v))
    <3>1. Refs(s, v) = m + (n + 1) /\ Refs(t, v) = m + n
      BY <2>1, <2>6, Zenon DEF Refs
    <3>2. m \in Nat /\ n \in Nat
      BY <2>5, <2>6, Zenon
    <3> HIDE DEF m, n
    <3> QED
      BY <3>1, <3>2
  <2>8. \A x \in Vnis \ {v} : Refs(t, x) = Refs(s, x)
    BY <2>1, <2>3, Zenon DEF Refs
  <2>9. v \in Vnis /\ t.vni_ref = Released(s.vni_ref, v)
    BY <1>2, Zenon DEF v
  <2> QED
    BY <2>4, <2>7, <2>8, <2>9, RefsReleased, Zenon
<1>4. LbsIn(t)
  <2>1. s.lb_id \in [LbIds -> LbKeys \cup {None}] /\ t.lb_id \in [LbIds -> LbKeys \cup {None}]
    BY DEF LbsIn
  <2>2. t.lb_id[id] = None /\ \A j \in LbIds \ {id} : t.lb_id[j] = s.lb_id[j]
    BY <2>1, Zenon
  <2>3. \A j \in LbIds : t.lb_id[j] # None =>
            j # id /\ t.lb_id[j] = s.lb_id[j] /\ s.lb_id[j] # l.key
    BY <2>2 DEF LbsIn
  <2>4. \A j \in LbIds : t.lb_id[j] # None => \E m \in t.lb : m.key = t.lb_id[j] /\ ~m.freed
    BY <2>3 DEF LbsIn
  <2>5. \A i, j \in LbIds : t.lb_id[i] = t.lb_id[j] /\ t.lb_id[i] # None => i = j
    BY <2>3 DEF LbsIn
  <2>6. \A m \in t.lb : ~m.freed => m.ul \in t.vnf_handle
    BY <1>1, Zenon DEF LbsIn
  <2> QED
    BY <2>1, <2>4, <2>5, <2>6, Zenon DEF LbsIn
<1> QED
  BY <1>3, <1>4, Zenon

\* Creating a load balancer, whichever step fails.
LEMMA CreateLbRest ==
    ASSUME NEW s, IsTables(s), RestIn(s), NEW r \in LbRequests, NEW ul \in Underlays,
           ul.vnf.type = "LB", ul \notin s.vnf_handle, NEW f
    PROVE  /\ IsTables(CreateLbSteps(s, r, ul, f))
           /\ RestIn(CreateLbSteps(s, r, ul, f))
<1> DEFINE withVnf == dp_add_vnf(s, ul, f)
           withLb == dp_create_lb(withVnf, r, ul, f)
           noLb == dp_delete_lb(withLb, r.id)
           done == dp_create_vni_route_tables(withLb, r.key[1])
           E(freed) == [key |-> r.key, ul |-> ul, freed |-> freed]
<1>0. CreateLbSteps(s, r, ul, f) =
       IF f \in VnfFaults THEN withVnf
       ELSE IF LbEntries(s, r.key) # {} THEN dp_del_vnf(withVnf, ul)
       ELSE IF f \in {"lb", "lb id"} THEN dp_del_vnf(withLb, ul)
       ELSE IF VniFails(s, r.key[1], f) THEN dp_del_vnf(noLb, ul)
       ELSE done
  BY Zenon DEF CreateLbSteps
<1>1. VnfAdded(s, withVnf, ul, f)
  BY AddVnf, Zenon
<1> HIDE DEF withVnf
<1>2. /\ IsTables(withVnf) /\ withVnf.iface = s.iface /\ withVnf.lb = s.lb
      /\ withVnf.lb_id = s.lb_id /\ withVnf.vni_ref = s.vni_ref /\ withVnf.routes = s.routes
      /\ s.vnf_handle \subseteq withVnf.vnf_handle
      /\ \A u \in s.vnf_value : u.vnf # ul.vnf => u \in withVnf.vnf_value
      /\ f \notin VnfFaults => ul \in withVnf.vnf_handle
  BY <1>1, Zenon DEF VnfAdded, Others
<1>3. r.id \in LbIds /\ r.key \in LbKeys /\ \A freed \in BOOLEAN : E(freed) \in Lbs
  BY Zenon DEF LbRequests, Lbs
<1>4. ASSUME NEW x, IsTables(x), x.iface = s.iface, x.routes = s.routes,
             s.vnf_handle \subseteq x.vnf_handle,
             \A u \in s.vnf_value : u.vnf # ul.vnf => u \in x.vnf_value,
             NEW t, t = dp_del_vnf(x, ul)
      PROVE  /\ IsTables(t) /\ RoutesIn(t) /\ t.iface = s.iface /\ s.vnf_handle \subseteq t.vnf_handle
             /\ t.lb = x.lb /\ t.lb_id = x.lb_id /\ t.vni_ref = x.vni_ref
  <2>1. VnfDeleted(x, t, ul.vnf) /\ t.vnf_handle = x.vnf_handle \ {ul}
    BY <1>4, DelVnfOne, Zenon
  <2>2. /\ IsTables(t) /\ t.iface = s.iface /\ t.routes = s.routes
        /\ t.lb = x.lb /\ t.lb_id = x.lb_id /\ t.vni_ref = x.vni_ref
    BY <1>4, <2>1, Zenon DEF VnfDeleted, Others
  <2>3. s.vnf_handle \subseteq t.vnf_handle
    BY <1>4, <2>1, Zenon
  <2>4. \A u \in s.vnf_value : u.vnf # ul.vnf => u \in t.vnf_value
    BY <1>4, <2>1, Zenon DEF VnfDeleted
  <2>5. RoutesIn(t)
    BY <2>2, <2>3, <2>4, RoutesUnderLb, Zenon DEF RestIn
  <2> QED
    BY <2>2, <2>3, <2>5, Zenon
<1>5. ASSUME NEW t, IsTables(t), RoutesIn(t), t.iface = s.iface, t.lb = s.lb,
             t.lb_id = s.lb_id, t.vni_ref = s.vni_ref, s.vnf_handle \subseteq t.vnf_handle
      PROVE  RestIn(t)
  <2>1. RefsIn(t)
    BY <1>5, RefsFrame, Zenon DEF RestIn
  <2>2. LbsIn(t)
    BY <1>5, LbsFrame, Zenon DEF RestIn
  <2> QED
    BY <1>5, <2>1, <2>2, Zenon DEF RestIn
<1>6. CASE f \in VnfFaults
  <2>1. RoutesIn(withVnf)
    BY <1>2, RoutesUnderLb, Zenon DEF RestIn
  <2>2. RestIn(withVnf)
    BY <1>2, <1>5, <2>1, Zenon
  <2> QED
    BY <1>0, <1>2, <1>6, <2>2, Zenon
<1>7. CASE f \notin VnfFaults /\ LbEntries(s, r.key) # {}
  <2> DEFINE t == dp_del_vnf(withVnf, ul)
  <2>1. /\ IsTables(t) /\ RoutesIn(t) /\ t.iface = s.iface /\ s.vnf_handle \subseteq t.vnf_handle
        /\ t.lb = withVnf.lb /\ t.lb_id = withVnf.lb_id /\ t.vni_ref = withVnf.vni_ref
    BY <1>2, <1>4, Zenon
  <2> HIDE DEF t
  <2>2. RestIn(t)
    BY <1>2, <1>5, <2>1, Zenon
  <2> QED
    BY <1>0, <1>7, <2>1, <2>2, Zenon DEF t
<1>8. CASE f = "lb" /\ LbEntries(s, r.key) = {}
  <2>1. withLb = withVnf
    BY <1>8, Zenon DEF dp_create_lb
  <2> DEFINE t == dp_del_vnf(withVnf, ul)
  <2>2. /\ IsTables(t) /\ RoutesIn(t) /\ t.iface = s.iface /\ s.vnf_handle \subseteq t.vnf_handle
        /\ t.lb = withVnf.lb /\ t.lb_id = withVnf.lb_id /\ t.vni_ref = withVnf.vni_ref
    BY <1>2, <1>4, Zenon
  <2> HIDE DEF t, withLb
  <2>3. RestIn(t)
    BY <1>2, <1>5, <2>2, Zenon
  <2> QED
    BY <1>0, <1>8, <2>1, <2>2, <2>3, Zenon DEF t, VnfFaults
<1>9. CASE f = "lb id" /\ LbEntries(s, r.key) = {}
  <2> DEFINE e == E(TRUE)
             t == dp_del_vnf(withLb, ul)
  <2>1. withLb = [withVnf EXCEPT !.lb = withVnf.lb \cup {e}]
    BY <1>9, Zenon DEF dp_create_lb
  <2>2. e \in Lbs /\ e.freed /\ e.key = r.key
    BY <1>3, Zenon
  <2> HIDE DEF e, withLb, t
  <2>3. /\ IsTables(withLb) /\ withLb.iface = withVnf.iface /\ withLb.lb = withVnf.lb \cup {e}
        /\ withLb.lb_id = withVnf.lb_id /\ withLb.vni_ref = withVnf.vni_ref
        /\ withLb.routes = withVnf.routes /\ withLb.vnf_handle = withVnf.vnf_handle
        /\ withLb.vnf_value = withVnf.vnf_value
    BY <1>2, <2>1, Zenon DEF IsTables
  <2>4. t = dp_del_vnf(withLb, ul)
    BY Zenon DEF t
  <2>5. /\ IsTables(t) /\ RoutesIn(t) /\ t.iface = s.iface /\ s.vnf_handle \subseteq t.vnf_handle
        /\ t.lb = withLb.lb /\ t.lb_id = withLb.lb_id /\ t.vni_ref = withLb.vni_ref
    BY <1>2, <1>4, <2>3, <2>4
  <2>6. RefsIn(s) /\ LbsIn(s)
    BY Zenon DEF RestIn
  <2>7. RefsIn(t) /\ LbsIn(t)
    <3>1. t.lb = s.lb \cup {e} /\ t.lb_id = s.lb_id /\ t.vni_ref = s.vni_ref
      BY <1>2, <2>3, <2>5, Zenon
    <3>2. LbEntries(s, e.key) = {} /\ t.iface = s.iface /\ s.vnf_handle \subseteq t.vnf_handle
      BY <1>9, <2>2, <2>5, Zenon
    <3> QED
      BY <2>2, <2>6, <3>1, <3>2, LbFreed, Zenon
  <2>8. RestIn(t)
    BY <2>5, <2>7, Zenon DEF RestIn
  <2> QED
    BY <1>0, <1>9, <2>4, <2>5, <2>8, Zenon DEF VnfFaults
<1>10. CASE f \notin VnfFaults /\ f \notin {"lb", "lb id"} /\ LbEntries(s, r.key) = {}
  <2> DEFINE e == E(FALSE)
             ids == [withVnf.lb_id EXCEPT ![r.id] = r.key]
  <2>1. withLb = [withVnf EXCEPT !.lb = withVnf.lb \cup {e}, !.lb_id = ids]
    <3> DEFINE x == [withVnf EXCEPT !.lb = withVnf.lb \cup {e}]
    <3>1. withLb = dp_map_lb_handle(x, r)
      BY <1>10, Zenon DEF dp_create_lb
    <3>2. dp_map_lb_handle(x, r) = [x EXCEPT !.lb_id = [x.lb_id EXCEPT ![r.id] = r.key]]
      BY Zenon DEF dp_map_lb_handle
    <3>3. x.lb_id = withVnf.lb_id
      BY <1>2, Zenon DEF IsTables
    <3> HIDE DEF e, withLb
    <3>4. [x EXCEPT !.lb_id = ids] = [withVnf EXCEPT !.lb = withVnf.lb \cup {e}, !.lb_id = ids]
      <4> HIDE DEF ids
      <4> QED
        BY <1>2, Zenon DEF IsTables
    <3> HIDE DEF x
    <3> QED
      BY <3>1, <3>2, <3>3, <3>4, Zenon
  <2>2. e \in Lbs /\ ~e.freed /\ e.key = r.key /\ e.ul = ul /\ e.key[1] = r.key[1]
    BY <1>3, Zenon
  <2> HIDE DEF e, withLb
  <2>3. /\ IsTables(withLb) /\ withLb.iface = withVnf.iface /\ withLb.lb = withVnf.lb \cup {e}
        /\ withLb.lb_id = ids /\ withLb.vni_ref = withVnf.vni_ref
        /\ withLb.routes = withVnf.routes /\ withLb.vnf_handle = withVnf.vnf_handle
        /\ withLb.vnf_value = withVnf.vnf_value
    <3> HIDE DEF ids
    <3> QED
      BY <1>2, <2>1, Zenon DEF IsTables
  <2>4. ids = [s.lb_id EXCEPT ![r.id] = r.key]
    BY <1>2, Zenon
  <2>5. RefsIn(s) /\ LbsIn(s)
    BY Zenon DEF RestIn
  <2> HIDE DEF ids
  <2>6. CASE VniFails(s, r.key[1], f)
    <3> DEFINE t == dp_del_vnf(noLb, ul)
               forgotten == [withLb.lb_id EXCEPT ![r.id] = None]
    <3>1. dp_get_lb(withLb, r.id) = {e}
      <4>1. withLb.lb_id[r.id] = r.key
        BY <1>3, <2>3, <2>4, <2>5 DEF LbsIn
      <4>2. \A l \in s.lb : l.key # r.key
        BY <1>10, Zenon DEF LbEntries
      <4> QED
        BY <1>2, <2>2, <2>3, <4>1, <4>2, Zenon DEF dp_get_lb, LbEntries
    <3>2. noLb = [withLb EXCEPT !.lb = withLb.lb \ {e}, !.lb_id = forgotten]
      BY <3>1, Zenon DEF dp_delete_lb
    <3> HIDE DEF t, noLb, forgotten
    <3>3. /\ IsTables(noLb) /\ noLb.iface = withLb.iface /\ noLb.lb = withLb.lb \ {e}
          /\ noLb.lb_id = forgotten /\ noLb.vni_ref = withLb.vni_ref
          /\ noLb.routes = withLb.routes /\ noLb.vnf_handle = withLb.vnf_handle
          /\ noLb.vnf_value = withLb.vnf_value
      BY <2>3, <3>2, Zenon DEF IsTables
    <3>4. e \notin s.lb
      BY <1>10, <2>2, Zenon DEF LbEntries
    <3>5. noLb.lb = s.lb
      BY <1>2, <2>3, <3>3, <3>4, Zenon
    <3>6. noLb.lb_id = [s.lb_id EXCEPT ![r.id] = None]
      <4>1. s.lb_id \in [LbIds -> LbKeys \cup {None}]
        BY <2>5, Zenon DEF LbsIn
      <4>2. forgotten = [[s.lb_id EXCEPT ![r.id] = r.key] EXCEPT ![r.id] = None]
        BY <2>3, <2>4, Zenon DEF forgotten
      <4> QED
        BY <1>3, <3>3, <4>1, <4>2, Zenon
    <3>7. t = dp_del_vnf(noLb, ul)
      BY Zenon DEF t
    <3>8. /\ IsTables(t) /\ RoutesIn(t) /\ t.iface = s.iface /\ s.vnf_handle \subseteq t.vnf_handle
          /\ t.lb = noLb.lb /\ t.lb_id = noLb.lb_id /\ t.vni_ref = noLb.vni_ref
      BY <1>2, <1>4, <2>3, <3>3, <3>7
    <3>9. LbsIn(t)
      BY <1>3, <2>5, <3>5, <3>6, <3>8, LbForgotten, Zenon
    <3>10. RefsIn(t)
      <4>1. t.iface = s.iface /\ t.lb = s.lb /\ t.vni_ref = s.vni_ref
        BY <1>2, <2>3, <3>3, <3>5, <3>8, Zenon
      <4> QED
        BY <2>5, <4>1, RefsFrame, Zenon
    <3>11. RestIn(t)
      BY <3>8, <3>9, <3>10, Zenon DEF RestIn
    <3> QED
      BY <1>0, <1>10, <2>6, <3>7, <3>8, <3>11, Zenon
  <2>7. CASE ~VniFails(s, r.key[1], f)
    <3>1. Same(withLb, done)
      BY <2>3, RouteSame, Zenon
    <3>2. done.vni_ref = [withLb.vni_ref EXCEPT ![r.key[1]] = @ + 1] /\ done.routes = withLb.routes
      BY <2>3, VniTaken, Zenon
    <3> HIDE DEF done
    <3>3. /\ IsTables(done) /\ done.iface = s.iface /\ done.lb = s.lb \cup {e}
          /\ done.lb_id = [s.lb_id EXCEPT ![r.id] = e.key] /\ done.routes = s.routes
          /\ done.vnf_handle = withVnf.vnf_handle /\ done.vnf_value = withVnf.vnf_value
      <4>1. /\ IsTables(done) /\ done.iface = withLb.iface /\ done.lb = withLb.lb
            /\ done.lb_id = withLb.lb_id /\ done.vnf_handle = withLb.vnf_handle
            /\ done.vnf_value = withLb.vnf_value
        BY <3>1, Zenon DEF Same
      <4>2. /\ withLb.iface = s.iface /\ withLb.lb = s.lb \cup {e} /\ withLb.routes = s.routes
            /\ withLb.lb_id = [s.lb_id EXCEPT ![r.id] = e.key]
        BY <1>2, <2>2, <2>3, <2>4, Zenon
      <4> QED
        BY <2>3, <3>2, <4>1, <4>2, Zenon
    <3>4. done.vni_ref = [s.vni_ref EXCEPT ![e.key[1]] = @ + 1]
      BY <1>2, <2>2, <2>3, <3>2, Zenon
    <3>5. e.ul \notin s.vnf_handle /\ e.ul \in done.vnf_handle /\ LbEntries(s, e.key) = {}
      BY <1>2, <1>10, <2>2, <3>3, Zenon
    <3>6. s.vnf_handle \subseteq done.vnf_handle
      BY <1>2, <3>3, Zenon
    <3>7. RefsIn(done) /\ LbsIn(done)
      <4>1. /\ done.iface = s.iface /\ done.lb = s.lb \cup {e} /\ r.id \in LbIds
            /\ done.lb_id = [s.lb_id EXCEPT ![r.id] = e.key] /\ e \in Lbs /\ ~e.freed
        BY <1>3, <2>2, <3>3, Zenon
      <4> QED
        BY <2>5, <3>4, <3>5, <3>6, <4>1, LbAdded, Zenon
    <3>8. RoutesIn(done)
      BY <1>2, <3>3, RoutesUnderLb, Zenon DEF RestIn
    <3> QED
      BY <1>0, <1>10, <2>7, <3>3, <3>7, <3>8, Zenon DEF RestIn
  <2> QED
    BY <2>6, <2>7, Zenon
<1> QED
  BY <1>6, <1>7, <1>8, <1>9, <1>10, Zenon

\* Deleting a load balancer.
LEMMA DeleteLbRest ==
    ASSUME NEW s, WholeIn(s), RestIn(s), NEW id \in LbIds, NEW l \in dp_get_lb(s, id)
    PROVE  LET t == dp_delete_vni_route_tables(dp_delete_lb(dp_del_vnf(s, l.ul), id), l.key[1])
           IN IsTables(t) /\ RestIn(t)
<1> DEFINE a == dp_del_vnf(s, l.ul)
           b == dp_delete_lb(a, id)
           t == dp_delete_vni_route_tables(b, l.key[1])
           ids == [a.lb_id EXCEPT ![id] = None]
<1>0. IsTables(s) /\ RefsIn(s) /\ LbsIn(s)
  BY Zenon DEF WholeIn, RestIn
<1>1. l \in s.lb /\ l.key = s.lb_id[id] /\ l.ul.vnf.type = "LB"
  BY Zenon DEF dp_get_lb, LbEntries, WholeIn
<1>2. s.lb_id[id] # None
  <2>1. l.key \in LbKeys
    BY <1>0, <1>1, Zenon DEF LbsIn, Lbs
  <2> QED
    BY <1>1, <2>1, ConstantsAssumption, Zenon DEF LbKeys
<1>3. dp_get_lb(s, id) = {l}
  BY <1>0, <1>1, Zenon DEF dp_get_lb, LbEntries, LbsIn
<1>4. VnfDeleted(s, a, l.ul.vnf) /\ a.vnf_handle = s.vnf_handle \ {l.ul}
  BY <1>0, DelVnfOne, Zenon
<1> HIDE DEF a
<1>5. /\ IsTables(a) /\ a.iface = s.iface /\ a.lb = s.lb /\ a.lb_id = s.lb_id
      /\ a.vni_ref = s.vni_ref /\ a.routes = s.routes
      /\ \A u \in s.vnf_handle : u.vnf # l.ul.vnf => u \in a.vnf_handle
      /\ \A u \in s.vnf_value : u.vnf # l.ul.vnf => u \in a.vnf_value
  BY <1>4, Zenon DEF VnfDeleted, Others
<1>6. dp_get_lb(a, id) = {l}
  BY <1>3, <1>5, Zenon DEF dp_get_lb, LbEntries
<1>7. b = [a EXCEPT !.lb = a.lb \ {l}, !.lb_id = ids]
  BY <1>6, Zenon DEF dp_delete_lb
<1> HIDE DEF b, ids
<1>8. /\ IsTables(b) /\ b.iface = a.iface /\ b.lb = a.lb \ {l} /\ b.lb_id = ids
      /\ b.vni_ref = a.vni_ref /\ b.routes = a.routes
      /\ b.vnf_handle = a.vnf_handle /\ b.vnf_value = a.vnf_value
  BY <1>5, <1>7, Zenon DEF IsTables
<1>9. Same(b, t)
  BY <1>8, RouteSame, Zenon
<1>10. t.vni_ref = Released(b.vni_ref, l.key[1]) /\ t.routes \subseteq b.routes
  BY <1>8, VniReleased, Zenon
<1> HIDE DEF t
<1>11. /\ IsTables(t) /\ t.iface = s.iface /\ t.lb = s.lb \ {l}
       /\ t.vni_ref = Released(s.vni_ref, l.key[1]) /\ t.routes \subseteq s.routes
       /\ t.vnf_handle = s.vnf_handle \ {l.ul} /\ t.vnf_value = a.vnf_value
       /\ t.vnf_handle = a.vnf_handle
  BY <1>4, <1>5, <1>8, <1>9, <1>10, Zenon DEF Same
<1>12. t.lb_id = [s.lb_id EXCEPT ![id] = None]
  BY <1>5, <1>8, <1>9, Zenon DEF Same, ids
<1>13. RefsIn(t) /\ LbsIn(t)
  BY <1>0, <1>1, <1>2, <1>11, <1>12, LbRemoved, Zenon
<1>14. RoutesIn(t)
  <2> DEFINE vnf == l.ul.vnf
  <2>1. /\ vnf.type = "LB"
        /\ \A u \in s.vnf_handle : u.vnf # vnf => u \in t.vnf_handle
        /\ \A u \in s.vnf_value : u.vnf # vnf => u \in t.vnf_value
    BY <1>1, <1>5, <1>11, Zenon
  <2> HIDE DEF vnf
  <2> QED
    BY <1>11, <2>1, RoutesUnderLb, Zenon DEF RestIn
<1>15. RestIn(t)
  BY <1>13, <1>14, Zenon DEF RestIn
<1> QED
  BY <1>11, <1>15, Zenon DEF t, b, a

-----------------------------------------------------------------------------
\* Every request

\* An interface is created or deleted, wherever the request fails.
LEMMA InterfaceRest ==
    ASSUME WholeIn(Tables), RestIn(Tables), NEW f,
           \/ \E r \in InterfaceRequests : dp_process_create_interface(r, f)
           \/ \E id \in Ids : dp_process_delete_interface(id, f)
    PROVE  RestIn(Tables')
<1>1. ASSUME NEW r \in InterfaceRequests, dp_process_create_interface(r, f)
      PROVE  RestIn(Tables')
  <2> DEFINE vnf == dp_fill_vnf_data("INTERFACE_IP", r.port, r.vni, None)
             ul == dp_generate_underlay_ipv6(vnf)
             t == CreateInterfaceSteps(Tables, r, ul, f)
  <2>1. ~allocated[r.port] /\ FreeNumbers(vnf) # {} /\ Become(t)
    BY <1>1, Zenon DEF dp_process_create_interface
  <2>2. vnf \in Vnfs /\ vnf.type = "INTERFACE_IP" /\ vnf.port = r.port
    BY Zenon DEF dp_fill_vnf_data, Vnfs, InterfaceRequests
  <2> HIDE DEF vnf
  <2>3. ul \in Underlays /\ ul.vnf = vnf
    BY <2>1, <2>2, Generated, Zenon
  <2> HIDE DEF ul
  <2>4. ~Tables.allocated[r.port]
    BY <2>1, Zenon DEF Tables
  <2>5. Creatable(Tables, r, ul)
    BY <2>2, <2>3, <2>4, Zenon DEF Creatable
  <2>6. RestIn(t)
    BY <2>5, CreateRest, Zenon
  <2>7. IsTables(t)
    <3>1. WholeIn(t)
      BY <2>5, CreateWhole, Zenon
    <3> HIDE DEF t
    <3> QED
      BY <3>1, Zenon DEF WholeIn
  <2> HIDE DEF t
  <2> QED
    BY <2>1, <2>6, <2>7, BecomesRest, Zenon
<1>2. ASSUME NEW id \in Ids, dp_process_delete_interface(id, f)
      PROVE  RestIn(Tables')
  <2> DEFINE t == DeletedInterface(Tables, id, f)
  <2>1. Tables.iface_id[id] # None /\ Become(t)
    <3>1. Tables.iface_id = iface_id /\ Tables.iface = iface
      BY Zenon DEF Tables
    <3> QED
      BY <1>2, <3>1, Zenon DEF dp_process_delete_interface, dp_get_port_with_iface_id, DeletedInterface
  <2>2. RestIn(t) /\ IsTables(t)
    BY <2>1, DeleteRest, Zenon
  <2> HIDE DEF t
  <2> QED
    BY <2>1, <2>2, BecomesRest, Zenon
<1> QED
  BY <1>1, <1>2, Zenon

\* The port of an interface's id and its VNI.
LEMMA PortOfId ==
    ASSUME WholeIn(Tables), NEW id \in Ids, dp_get_port_with_iface_id(id) # None
    PROVE  LET port == dp_get_port_with_iface_id(id) IN port \in Ports /\ iface[port].vni \in Vnis
<1> DEFINE port == dp_get_port_with_iface_id(id)
<1>1. Tables.iface = iface /\ Tables.iface_id = iface_id
  BY Zenon DEF Tables
<1>2. iface \in [Ports -> Interfaces \cup {None}] /\ iface_id \in [Ids -> Ports \cup {None}]
  BY <1>1, Zenon DEF WholeIn
<1>3. port \in Ports /\ iface[port] # None
  BY <1>1, <1>2 DEF WholeIn, dp_get_port_with_iface_id
<1>4. iface[port] \in Interfaces
  BY <1>2, <1>3, Zenon
<1> QED
  BY <1>3, <1>4, Zenon DEF Interfaces

\* The record of a prefix request.
LEMMA PrefixRecord ==
    ASSUME NEW port \in Ports, NEW vni \in Vnis, NEW pfx \in Pfxs,
           NEW type \in {"ALIAS_PFX", "LB_ALIAS_PFX"}
    PROVE  LET vnf == dp_fill_vnf_data(type, port, vni, pfx) IN vnf \in Vnfs /\ vnf.type = type
BY Zenon DEF dp_fill_vnf_data, Vnfs

\* An alias prefix or a load-balanced prefix is created ...
LEMMA CreatePrefixesRest ==
    ASSUME WholeIn(Tables), RestIn(Tables), NEW r \in PrefixRequests, NEW f,
           dp_process_create_prefix(r, f) \/ dp_process_create_lbprefix(r, f)
    PROVE  RestIn(Tables')
<1> DEFINE port == dp_get_port_with_iface_id(r.id)
           vni == iface[port].vni
           pfx == r.pfx
<1>0. IsTables(Tables) /\ r.id \in Ids /\ pfx \in Pfxs
  BY Zenon DEF WholeIn, PrefixRequests
<1>1. port # None
  BY Zenon DEF dp_process_create_prefix, dp_process_create_lbprefix
<1>2. port \in Ports /\ vni \in Vnis
  BY <1>0, <1>1, PortOfId, Zenon
<1>3. CASE dp_process_create_prefix(r, f)
  <2> DEFINE vnf == dp_fill_vnf_data("ALIAS_PFX", port, vni, pfx)
             ul == dp_generate_underlay_ipv6(vnf)
             t == CreatePrefixSteps(Tables, port, vni, pfx, ul, f)
  <2>1. FreeNumbers(vnf) # {} /\ Become(t)
    BY <1>3, Zenon DEF dp_process_create_prefix
  <2> HIDE DEF port, vni, pfx
  <2>2. vnf \in Vnfs /\ vnf.type = "ALIAS_PFX"
    BY <1>0, <1>2, PrefixRecord, Zenon
  <2>3. vnf = dp_fill_vnf_data("ALIAS_PFX", port, vni, pfx)
    BY Zenon
  <2> HIDE DEF vnf
  <2>4. ul.vnf = vnf /\ ul \notin Tables.vnf_handle
    BY <2>1, <2>2, Generated, GeneratedNew, Zenon
  <2> HIDE DEF ul
  <2>5. RestIn(t)
    BY <1>0, <2>3, <2>4, CreatePrefixRest, Zenon
  <2>6. IsTables(t)
    <3>1. ul.vnf.type # "INTERFACE_IP"
      BY <2>2, <2>4, Zenon
    <3>2. WholeIn(t)
      BY <3>1, CreatePrefixWhole, Zenon
    <3> HIDE DEF t
    <3> QED
      BY <3>2, Zenon DEF WholeIn
  <2> HIDE DEF t
  <2> QED
    BY <2>1, <2>5, <2>6, BecomesRest, Zenon
<1>4. CASE dp_process_create_lbprefix(r, f)
  <2> DEFINE vnf == dp_fill_vnf_data("LB_ALIAS_PFX", port, vni, pfx)
             ul == dp_generate_underlay_ipv6(vnf)
             t == dp_add_vnf(Tables, ul, f)
  <2>1. FreeNumbers(vnf) # {} /\ Become(t)
    BY <1>4, Zenon DEF dp_process_create_lbprefix
  <2> HIDE DEF port, vni, pfx
  <2>2. vnf \in Vnfs /\ vnf.type = "LB_ALIAS_PFX"
    BY <1>0, <1>2, PrefixRecord, Zenon
  <2> HIDE DEF vnf
  <2>3. ul.vnf = vnf /\ ul \notin Tables.vnf_handle
    BY <2>1, <2>2, Generated, GeneratedNew, Zenon
  <2> HIDE DEF ul
  <2>4. VnfAdded(Tables, t, ul, f)
    BY <1>0, <2>3, AddVnf, Zenon
  <2> HIDE DEF t
  <2>5. \A q : AliasOf(q) # ul.vnf
    <3>1. \A q : AliasOf(q).type = "ALIAS_PFX"
      BY Zenon DEF AliasOf, dp_fill_vnf_data
    <3> QED
      BY <2>2, <2>3, <3>1, Zenon
  <2>6. RestIn(t)
    BY <2>4, <2>5, VnfAddedRest, Zenon
  <2>7. IsTables(t)
    BY <2>4, Zenon DEF VnfAdded, Others
  <2> QED
    BY <2>1, <2>6, <2>7, BecomesRest, Zenon
<1> QED
  BY <1>3, <1>4, Zenon

\* ... or deleted.
LEMMA DeletePrefixesRest ==
    ASSUME WholeIn(Tables), RestIn(Tables), NEW r,
           dp_process_delete_prefix(r) \/ dp_process_delete_lbprefix(r)
    PROVE  RestIn(Tables')
<1> DEFINE port == dp_get_port_with_iface_id(r.id)
           vni == iface[port].vni
           pfx == r.pfx
<1>0. IsTables(Tables) /\ \A l \in Tables.lb : l.ul.vnf.type = "LB"
  BY Zenon DEF WholeIn
<1>1. CASE dp_process_delete_prefix(r)
  <2> DEFINE vnf == dp_fill_vnf_data("ALIAS_PFX", port, vni, pfx)
             s == dp_del_route(Tables, port, vni, pfx)
             t == dp_del_vnf_by_value(s, vnf)
             old == [vni |-> vni, dst |-> pfx, nh |-> port]
  <2>1. Become(t)
    BY <1>1, Zenon DEF dp_process_delete_prefix
  <2> HIDE DEF port, vni, pfx
  <2>2. vnf.type = "ALIAS_PFX"
    BY Zenon DEF dp_fill_vnf_data
  <2>3. Same(Tables, s)
    BY <1>0, RouteSame, Zenon
  <2>4. s.vni_ref = Tables.vni_ref /\ s.routes = Tables.routes \ {old}
    BY <1>0, RouteDeleted
  <2> HIDE DEF s, old
  <2>5. RestIn(s)
    BY <2>3, <2>4, RoutesOnly, Zenon
  <2>6. ASSUME NEW q \in s.routes PROVE AliasOf(q) # vnf
    <3>1. q = [vni |-> q.vni, dst |-> q.dst, nh |-> q.nh] /\ q # old
      BY <2>4, <2>5, <2>6, Zenon DEF RestIn, RoutesIn
    <3> QED
      BY <3>1, AliasTells, Zenon DEF old
  <2> HIDE DEF vnf
  <2>7. IsTables(s) /\ \A l \in s.lb : l.ul.vnf # vnf
    BY <1>0, <2>2, <2>3, Zenon DEF Same
  <2>8. VnfDeleted(s, t, vnf)
    BY <2>7, DelByValue, Zenon
  <2> HIDE DEF t
  <2>9. RestIn(t)
    BY <2>5, <2>6, <2>7, <2>8, VnfDeletedRest, Zenon
  <2>10. IsTables(t)
    BY <2>8, Zenon DEF VnfDeleted, Others
  <2> QED
    BY <2>1, <2>9, <2>10, BecomesRest, Zenon
<1>2. CASE dp_process_delete_lbprefix(r)
  <2> DEFINE vnf == dp_fill_vnf_data("LB_ALIAS_PFX", port, vni, pfx)
             t == dp_del_vnf_by_value(Tables, vnf)
  <2>1. Become(t)
    BY <1>2, Zenon DEF dp_process_delete_lbprefix
  <2> HIDE DEF port, vni, pfx
  <2>2. vnf.type = "LB_ALIAS_PFX"
    BY Zenon DEF dp_fill_vnf_data
  <2> HIDE DEF vnf
  <2>3. \A q : AliasOf(q) # vnf
    <3>1. \A q : AliasOf(q).type = "ALIAS_PFX"
      BY Zenon DEF AliasOf, dp_fill_vnf_data
    <3> QED
      BY <2>2, <3>1, Zenon
  <2>4. \A l \in Tables.lb : l.ul.vnf # vnf
    BY <1>0, <2>2, Zenon
  <2>5. VnfDeleted(Tables, t, vnf)
    BY <1>0, DelByValue, Zenon
  <2> HIDE DEF t
  <2>6. RestIn(t)
    BY <2>3, <2>4, <2>5, VnfDeletedRest, Zenon
  <2>7. IsTables(t)
    BY <2>5, Zenon DEF VnfDeleted, Others
  <2> QED
    BY <2>1, <2>6, <2>7, BecomesRest, Zenon
<1> QED
  BY <1>1, <1>2, Zenon

\* A load balancer is created or deleted.
LEMMA LoadBalancersRest ==
    ASSUME WholeIn(Tables), RestIn(Tables), NEW f,
           \/ \E r \in LbRequests : dp_process_create_lb(r, f)
           \/ \E id \in LbIds : dp_process_delete_lb(id)
    PROVE  RestIn(Tables')
<1>0. IsTables(Tables)
  BY Zenon DEF WholeIn
<1>1. ASSUME NEW r \in LbRequests, dp_process_create_lb(r, f)
      PROVE  RestIn(Tables')
  <2> DEFINE vnf == dp_fill_vnf_data("LB", Pf0, r.key[1], None)
             ul == dp_generate_underlay_ipv6(vnf)
             t == CreateLbSteps(Tables, r, ul, f)
  <2>1. FreeNumbers(vnf) # {} /\ Become(t)
    BY <1>1, Zenon DEF dp_process_create_lb
  <2>2. vnf \in Vnfs /\ vnf.type = "LB"
    BY Zenon DEF dp_fill_vnf_data, Vnfs, LbRequests, LbKeys
  <2> HIDE DEF vnf
  <2>3. ul \in Underlays /\ ul.vnf = vnf /\ ul \notin Tables.vnf_handle
    BY <2>1, <2>2, Generated, GeneratedNew, Zenon
  <2> HIDE DEF ul
  <2>4. IsTables(t) /\ RestIn(t)
    BY <1>0, <2>2, <2>3, CreateLbRest, Zenon
  <2> HIDE DEF t
  <2> QED
    BY <2>1, <2>4, BecomesRest, Zenon
<1>2. ASSUME NEW id \in LbIds, dp_process_delete_lb(id)
      PROVE  RestIn(Tables')
  <2>1. PICK l \in dp_get_lb(Tables, id) :
            Become(dp_delete_vni_route_tables(dp_delete_lb(dp_del_vnf(Tables, l.ul), id),
                                              l.key[1]))
    BY <1>2, Zenon DEF dp_process_delete_lb
  <2> DEFINE t == dp_delete_vni_route_tables(dp_delete_lb(dp_del_vnf(Tables, l.ul), id),
                                             l.key[1])
  <2>2. IsTables(t) /\ RestIn(t)
    BY DeleteLbRest, Zenon
  <2>3. Become(t)
    BY <2>1, Zenon
  <2> HIDE DEF t
  <2> QED
    BY <2>2, <2>3, BecomesRest, Zenon
<1> QED
  BY <1>1, <1>2, Zenon

\* A route is created or deleted, or the routing tables are reset.
LEMMA RouteRequestsRest ==
    ASSUME WholeIn(Tables), RestIn(Tables), NEW f,
           \/ \E r \in RouteRequests : dp_process_create_route(r, f)
           \/ \E r \in RouteRequests : dp_process_delete_route(r)
           \/ \E v \in Vnis : dp_process_reset_vni(v)
           \/ dp_process_initialize
    PROVE  RestIn(Tables')
<1>0. IsTables(Tables)
  BY Zenon DEF WholeIn
<1>1. ASSUME NEW r \in RouteRequests, dp_process_create_route(r, f)
      PROVE  RestIn(Tables')
  <2> DEFINE t == dp_add_route(Tables, Pf0, r.vni, r.dst)
             new == [vni |-> r.vni, dst |-> r.dst, nh |-> Pf0]
  <2>1. Become(t)
    BY <1>1, Zenon DEF dp_process_create_route
  <2>2. Same(Tables, t)
    BY <1>0, RouteSame, Zenon
  <2>3. t.vni_ref = Tables.vni_ref /\ t.routes = Tables.routes \cup {new}
    BY <1>0, RouteAdded
  <2>4. new = [vni |-> new.vni, dst |-> new.dst, nh |-> new.nh] /\ new.nh = Pf0
    BY Zenon
  <2> HIDE DEF t, new
  <2>5. RestIn(t)
    BY <2>2, <2>3, <2>4, RoutesOnly, Zenon
  <2>6. IsTables(t)
    BY <2>2, Zenon DEF Same
  <2> QED
    BY <2>1, <2>5, <2>6, BecomesRest, Zenon
<1>2. ASSUME NEW r \in RouteRequests, dp_process_delete_route(r)
      PROVE  RestIn(Tables')
  <2> DEFINE t == dp_del_route(Tables, Pf0, r.vni, r.dst)
             old == [vni |-> r.vni, dst |-> r.dst, nh |-> Pf0]
  <2>1. Become(t)
    BY <1>2, Zenon DEF dp_process_delete_route
  <2>2. Same(Tables, t)
    BY <1>0, RouteSame, Zenon
  <2>3. t.vni_ref = Tables.vni_ref /\ t.routes = Tables.routes \ {old}
    BY <1>0, RouteDeleted
  <2> HIDE DEF t, old
  <2>4. RestIn(t)
    BY <2>2, <2>3, RoutesOnly, Zenon
  <2>5. IsTables(t)
    BY <2>2, Zenon DEF Same
  <2> QED
    BY <2>1, <2>4, <2>5, BecomesRest, Zenon
<1>3. ASSUME NEW vnis, Become(dp_lpm_reset_route_tables(Tables, vnis))
      PROVE  RestIn(Tables')
  <2> DEFINE t == dp_lpm_reset_route_tables(Tables, vnis)
  <2>1. Same(Tables, t) /\ Become(t)
    BY <1>0, <1>3, ResetSame, Zenon
  <2>2. RestIn(t)
    BY <1>0, ResetRest, Zenon
  <2> HIDE DEF t
  <2>3. IsTables(t)
    BY <2>1, Zenon DEF Same
  <2> QED
    BY <2>1, <2>2, <2>3, BecomesRest, Zenon
<1>4. ASSUME (\E v \in Vnis : dp_process_reset_vni(v)) \/ dp_process_initialize
      PROVE  RestIn(Tables')
  BY <1>3, <1>4, Zenon DEF dp_process_reset_vni, dp_process_initialize
<1> QED
  BY <1>1, <1>2, <1>4, Zenon

\* No request and no stuttering step breaks the invariant.
LEMMA ExactStep ==
    ASSUME ExactIn(Tables), [Next]_vars
    PROVE  ExactIn(Tables')
<1>0. WholeIn(Tables) /\ RestIn(Tables)
  BY Zenon DEF ExactIn, RestIn
<1>1. WholeIn(Tables')
  BY <1>0, WholeStep, Zenon
<1>2. RestIn(Tables')
  <2>1. CASE UNCHANGED vars
    <3>1. Tables' = Tables
      BY <2>1, Zenon DEF vars, Tables
    <3> QED
      BY <1>0, <3>1, Zenon
  <2>2. CASE Create
    BY <1>0, <2>2, InterfaceRest, CreatePrefixesRest, LoadBalancersRest, RouteRequestsRest, Zenon DEF Create
  <2>3. CASE Delete
    BY <1>0, <2>3, InterfaceRest, DeletePrefixesRest, LoadBalancersRest, RouteRequestsRest, Zenon DEF Delete
  <2> QED
    BY <2>1, <2>2, <2>3, Zenon DEF Next
<1> QED
  BY <1>1, <1>2, Zenon DEF ExactIn, RestIn

\* No reference, load balancer or route when the service starts.
LEMMA ExactInit ==
    ASSUME Init
    PROVE  ExactIn(Tables)
<1> DEFINE s == Tables
<1>1. /\ s.iface = [p \in Ports |-> None] /\ s.vni_ref = [v \in Vnis |-> 0]
      /\ s.lb = {} /\ s.lb_id = [i \in LbIds |-> None] /\ s.routes = {}
  BY Zenon DEF Init, Tables
<1>2. WholeIn(s)
  BY WholeInit, Zenon
<1> HIDE DEF s
<1>3. \A v : VniPorts(s, v) = {} /\ VniLbs(s, v) = {}
  BY <1>1, Zenon DEF VniPorts, VniLbs, ReadyIn
<1>4. RefsIn(s)
  <2>1. IsFiniteSet({}) /\ Cardinality({}) = 0
    BY FS_EmptySet, Zenon
  <2>2. \A v : Refs(s, v) = 0
    BY <1>3, <2>1 DEF Refs
  <2> QED
    BY <1>1, <2>1, <2>2 DEF RefsIn
<1>5. LbsIn(s)
  BY <1>1, Zenon DEF LbsIn
<1>6. RoutesIn(s)
  BY <1>1, Zenon DEF RoutesIn
<1>7. ExactIn(s)
  BY <1>2, <1>4, <1>5, <1>6, Zenon DEF ExactIn
<1> QED
  BY <1>7, Zenon DEF s

\* The invariant is at least as strong as what is claimed.
LEMMA ExactImplies ==
    ASSUME ExactIn(Tables)
    PROVE  VniRefExact /\ LbIdLive /\ LocalRouteOwned
<1>0. /\ Tables.iface = iface /\ Tables.vni_ref = vni_ref /\ Tables.routes = routes
      /\ Tables.lb = lb /\ Tables.lb_id = lb_id
      /\ Tables.vnf_handle = vnf_handle /\ Tables.vnf_value = vnf_value
  BY Zenon DEF Tables
<1>1. RefsIn(Tables) /\ LbsIn(Tables) /\ RoutesIn(Tables)
  BY Zenon DEF ExactIn
<1>2. ReadyIn(Tables) = Ready
  BY <1>0, Zenon DEF ReadyIn, Ready
<1>3. VniRefExact
  BY <1>0, <1>1, <1>2, Zenon DEF VniRefExact, RefsIn, Refs, VniPorts, VniLbs
<1>4. LbIdLive
  <2> SUFFICES ASSUME NEW id \in LbIds, lb_id[id] # None
               PROVE  \E l \in dp_get_lb(Tables, id) :
                          ~l.freed /\ l.ul \in vnf_handle /\ vni_ref[l.key[1]] > 0
    BY Zenon DEF LbIdLive
  <2>1. PICK l \in lb : l.key = lb_id[id] /\ ~l.freed
    BY <1>0, <1>1, Zenon DEF LbsIn
  <2>2. l \in dp_get_lb(Tables, id) /\ l.ul \in vnf_handle
    BY <1>0, <1>1, <2>1, Zenon DEF dp_get_lb, LbEntries, LbsIn
  <2> DEFINE v == l.key[1]
  <2>3. v \in Vnis
    BY <1>0, <1>1, Zenon DEF LbsIn, Lbs, LbKeys
  <2>4. l \in VniLbs(Tables, v) /\ IsFiniteSet(Tables.lb)
    BY <1>0, <1>1, <2>1, Zenon DEF VniLbs, RefsIn
  <2>5. vni_ref[v] = Refs(Tables, v)
    BY <1>0, <1>1, <2>3, Zenon DEF RefsIn
  <2> HIDE DEF v
  <2>6. /\ IsFiniteSet(VniLbs(Tables, v)) /\ Cardinality(VniPorts(Tables, v)) \in Nat
        /\ Cardinality(VniLbs(Tables, v)) \in Nat
    BY <2>4, Countable, Zenon
  <2>7. Cardinality(VniLbs(Tables, v)) # 0
    BY <2>4, <2>6, FS_EmptySet, Zenon
  <2>8. vni_ref[v] > 0
    <3> DEFINE m == Cardinality(VniPorts(Tables, v))
               n == Cardinality(VniLbs(Tables, v))
    <3>1. m \in Nat /\ n \in Nat /\ n # 0 /\ vni_ref[v] = m + n
      BY <2>5, <2>6, <2>7, Zenon DEF Refs
    <3> HIDE DEF m, n
    <3> QED
      BY <3>1
  <2> QED
    BY <2>1, <2>2, <2>8, Zenon DEF v
<1>5. LocalRouteOwned
  <2> SUFFICES ASSUME NEW r \in routes, r.nh # Pf0
               PROVE  \/ /\ r.nh \in Ready /\ iface[r.nh].vni = r.vni
                         /\ r.dst \in {iface[r.nh].ip4, iface[r.nh].ip6}
                      \/ \E u \in vnf_value \cap dp_list_vnf_alias_prefixes(r.nh, "ALIAS_PFX") :
                             u.vnf.vni = r.vni /\ u.vnf.pfx = r.dst
    BY Zenon DEF LocalRouteOwned
  <2>1. IsOwn(Tables, r) \/ Known(Tables, AliasOf(r))
    BY <1>0, <1>1, Zenon DEF RoutesIn
  <2>2. CASE IsOwn(Tables, r)
    BY <1>0, <1>2, <2>2, Zenon DEF IsOwn
  <2>3. CASE Known(Tables, AliasOf(r))
    <3>1. PICK u \in vnf_value \cap vnf_handle : u.vnf = AliasOf(r)
      BY <1>0, <2>3, Zenon DEF Known
    <3>2. /\ u.vnf.type = "ALIAS_PFX" /\ u.vnf.port = r.nh
          /\ u.vnf.vni = r.vni /\ u.vnf.pfx = r.dst
      BY <3>1 DEF AliasOf, dp_fill_vnf_data
    <3> QED
      BY <3>2, Zenon DEF dp_list_vnf_alias_prefixes
  <2> QED
    BY <2>1, <2>2, <2>3, Zenon
<1> QED
  BY <1>3, <1>4, <1>5, Zenon

\* The invariant holds in every state.
LEMMA ExactAlways == Spec => []ExactIn(Tables)
<1>1. Init => ExactIn(Tables)
  BY ExactInit, Zenon
<1>2. ExactIn(Tables) /\ [Next]_vars => ExactIn(Tables)'
  BY ExactStep, Zenon
<1> QED
  BY <1>1, <1>2, PTL DEF Spec

\* The reference count of a VNI is the number of its interfaces and load
\* balancers, whatever requests were made and wherever they failed, so that its
\* routing tables go with the last of them (dp_vni.c, dp_process_create_*).
THEOREM VniReferencesExact == Spec => []VniRefExact
<1>1. ExactIn(Tables) => VniRefExact
  BY ExactImplies, Zenon
<1> QED
  BY <1>1, ExactAlways, PTL

\* An id of a load balancer leads to a live entry, with a known underlay address
\* and in a VNI that has routing tables, although all load balancers of a VNI have
\* the same record in vnf_value_tbl (dp_lb.c, dp_process_create_lb).
THEOREM LbIdsLive == Spec => []LbIdLive
<1>1. ExactIn(Tables) => LbIdLive
  BY ExactImplies, Zenon
<1> QED
  BY <1>1, ExactAlways, PTL

\* Every route to a port is that of an own address or of a prefix that can still
\* be deleted with its route (dp_process_create_prefix, dp_lpm.c).
THEOREM LocalRoutesOwned == Spec => []LocalRouteOwned
<1>1. ExactIn(Tables) => LocalRouteOwned
  BY ExactImplies, Zenon
<1> QED
  BY <1>1, ExactAlways, PTL
=============================================================================
