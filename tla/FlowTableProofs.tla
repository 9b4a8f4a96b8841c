--------------------------- MODULE FlowTableProofs ---------------------------
(***************************************************************************)
(* Proofs about FlowTable, for any number of endpoints, flows, packets and *)
(* hardware rules.                                                         *)
(***************************************************************************)
EXTENDS FlowTable, FiniteSetTheorems, TLAPS

\* What conntrack leaves alone in a flow it finds.
SameCore(x, y) ==
    /\ x.key = y.key /\ x.ref = y.ref /\ x.aged = y.aged
    /\ x.flags = y.flags /\ x.nat = y.nat

-----------------------------------------------------------------------------
\* Operators on keys and flow values.

\* Inverting a key gives a key.
LEMMA InvertType == ASSUME NEW k \in Keys PROVE dp_invert_flow_key(k) \in Keys
  BY Zenon DEF dp_invert_flow_key, Keys

\* So does giving it another source.
LEMMA SourceType ==
    ASSUME NEW k \in Keys, NEW v \in Endpoints PROVE [k EXCEPT !.src = v] \in Keys
  BY Zenon DEF Keys

\* Packets arrive with well-formed keys on known ports.
LEMMA ArrivalType ==
    ASSUME NEW a \in dp_build_flow_key
    PROVE  a.key \in Keys /\ a.port \in Ports
  BY DEF dp_build_flow_key, VfArrivals, PfArrivals, Keys, Ports, Endpoints

\* Deleting keys from a well-formed table leaves one, without those keys.
LEMMA WithoutType ==
    ASSUME NEW t \in [Keys -> Flows \cup {None}], NEW K
    PROVE  /\ Without(t, K) \in [Keys -> Flows \cup {None}]
           /\ \A k \in Keys : Without(t, K)[k] = IF k \in K THEN None ELSE t[k]
  BY Zenon DEF Without

\* The offload bookkeeping touches nothing but the offload state.
LEMMA ChangeFlags ==
    ASSUME NEW fl \in FlowValues, NEW dir \in Dirs, NEW port \in Ports
    PROVE  LET x == dp_cntrack_change_flow_offload_flags(fl, dir, port)
           IN  x \in FlowValues /\ SameCore(x, fl)
  BY Zenon DEF dp_cntrack_change_flow_offload_flags, FlowValues, SameCore, OffloadStates

\* Neither does choosing whether the flow is to be offloaded,
LEMMA OffloadFlag ==
    ASSUME NEW fl \in FlowValues, NEW dir \in Dirs, NEW port \in Ports
    PROVE  LET x == dp_set_flow_offload_flag(fl, dir, port)
           IN  x \in FlowValues /\ SameCore(x, fl)
  BY ChangeFlags, Zenon DEF dp_set_flow_offload_flag, SameCore

\* and the TCP automaton stays in its states.
LEMMA TcpState ==
    ASSUME NEW s \in TcpStates, NEW flag
    PROVE  dp_cntrack_tcp_state(s, flag) \in TcpStates
  BY Zenon DEF dp_cntrack_tcp_state, TcpStates

\* A packet changes no key, count, mark or NAT type of the flow it belongs to.
LEMMA TouchedCore ==
    ASSUME NEW fl \in FlowValues, NEW dir \in Dirs, NEW flag, NEW a \in dp_build_flow_key
    PROVE  Touched(fl, a, dir, flag) \in FlowValues /\ SameCore(Touched(fl, a, dir, flag), fl)
<1> DEFINE fresh == [fl EXCEPT !.idle = FALSE]
           tcp == [fresh EXCEPT !.tcp = dp_cntrack_tcp_state(fl.tcp, flag)]
<1>1. a.port \in Ports
  BY ArrivalType, Zenon
<1>2. fresh \in FlowValues /\ SameCore(fresh, fl)
  BY Zenon DEF FlowValues, SameCore
<1>3. dp_cntrack_tcp_state(fl.tcp, flag) \in TcpStates
  BY TcpState, Zenon DEF FlowValues
<1>4. tcp \in FlowValues /\ SameCore(tcp, fl)
  BY <1>3, Zenon DEF FlowValues, SameCore
<1>5. LET x == dp_cntrack_set_timeout_tcp_flow(tcp, dir, a.port)
      IN  x \in FlowValues /\ SameCore(x, fl)
  <2> HIDE DEF tcp
  <2>1. LET x == dp_cntrack_change_flow_offload_flags(tcp, dir, a.port)
        IN  x \in FlowValues /\ SameCore(x, tcp)
    BY <1>1, <1>4, ChangeFlags, Zenon
  <2> QED
    BY <2>1, <1>4, Zenon DEF dp_cntrack_set_timeout_tcp_flow, SameCore
<1> QED
  BY <1>2, <1>5, Zenon DEF Touched

\* A new flow is well-formed.
LEMMA NewFlowType ==
    ASSUME NEW a \in dp_build_flow_key PROVE NewFlow(a) \in FlowValues
<1>1. a.key \in Keys /\ a.port \in Ports /\ dp_invert_flow_key(a.key) \in Keys
  BY ArrivalType, InvertType, Zenon
<1> QED
  BY <1>1 DEF NewFlow, FlowValues, Dirs, OffloadStates, NatTypes, TcpStates

-----------------------------------------------------------------------------
\* Type correctness.

\* Freeing a flow leaves well-typed memory, table and cache.
LEMMA FreeType ==
    ASSUME TypeOK, NEW f \in Flows, dp_free_flow(f)
    PROVE  /\ heap' \in [Flows -> FlowValues \cup {None}]
           /\ table' \in [Keys -> Flows \cup {None}]
           /\ cache' \in [key : Keys \cup {None}, flow : Flows \cup {None}]
           /\ ports' \subseteq PortKeys
  BY WithoutType DEF TypeOK, dp_free_flow, NoCache

\* So does dropping references, whether or not they were the last ones.
LEMMA RefDecType ==
    ASSUME TypeOK, NEW f \in Flows, NEW fl \in FlowValues, NEW n \in Int, dp_ref_dec(f, fl, n)
    PROVE  /\ heap' \in [Flows -> FlowValues \cup {None}]
           /\ table' \in [Keys -> Flows \cup {None}]
           /\ cache' \in [key : Keys \cup {None}, flow : Flows \cup {None}]
           /\ ports' \subseteq PortKeys
<1>1. CASE fl.ref = n
  BY <1>1, FreeType, Zenon DEF dp_ref_dec
<1>2. CASE fl.ref # n
  <2>1. [fl EXCEPT !.ref = @ - n] \in FlowValues
    BY DEF FlowValues
  <2> QED
    BY <1>2, <2>1, Zenon DEF dp_ref_dec, TypeOK
<1> QED
  BY <1>1, <1>2, Zenon

\* Giving a flow another reply key, too.
LEMMA ReplaceType ==
    ASSUME TypeOK, NEW p \in Pkts, pkts[p] \in Packets, NEW f \in Flows, NEW fl \in FlowValues,
           NEW node \in {"dnat", "snat", "tx"}, ReplaceReplyKey(p, f, fl, node)
    PROVE  /\ heap' \in [Flows -> FlowValues \cup {None}]
           /\ table' \in [Keys -> Flows \cup {None}]
           /\ cache' \in [key : Keys \cup {None}, flow : Flows \cup {None}]
           /\ pkts' \in [Pkts -> Packets \cup {None}]
<1>1. Without(table, {heap[f].key["REPLY"]}) \in [Keys -> Flows \cup {None}]
  BY WithoutType DEF TypeOK
<1>2. [pkts[p] EXCEPT !.at = node] \in Packets
  BY Zenon DEF Packets
<1>3. pkts' \in [Pkts -> Packets \cup {None}]
  BY <1>2, Zenon DEF ReplaceReplyKey, TypeOK
<1>4. fl.key["REPLY"] \in Keys
  BY Zenon DEF FlowValues, Dirs
<1>5. table' \in [Keys -> Flows \cup {None}]
  <2> DEFINE t == Without(table, {heap[f].key["REPLY"]})
  <2>1. [t EXCEPT ![fl.key["REPLY"]] = f] \in [Keys -> Flows \cup {None}]
    BY <1>1, <1>4, Zenon
  <2> QED
    BY <1>1, <2>1, Zenon DEF ReplaceReplyKey
<1> QED
  BY <1>3, <1>5, Zenon DEF ReplaceReplyKey, TypeOK, NoCache

\* The set of rules of a flow, of free rules, and every part of them are finite.
LEMMA RulesFinite ==
    /\ \A C \in SUBSET Ctxs : IsFiniteSet(C) /\ Cardinality(C) \in Nat
    /\ \A f : CtxsOf(f) \in SUBSET Ctxs /\ Stored(f) \in SUBSET Ctxs
<1>1. ASSUME NEW C \in SUBSET Ctxs PROVE IsFiniteSet(C) /\ Cardinality(C) \in Nat
  BY FiniteMemory, FS_Subset, FS_CardinalityType, Zenon
<1> QED
  BY <1>1, Zenon DEF CtxsOf, Stored

\* What the tx node leaves in a flow is well-formed.
LEMMA SentType ==
    ASSUME TypeOK, NEW pk \in Packets, heap[pk.flow] \in FlowValues
    PROVE  /\ Sent(pk) \in FlowValues
           /\ Sent(pk).key = heap[pk.flow].key /\ Sent(pk).ref = heap[pk.flow].ref
           /\ Sent(pk).aged = heap[pk.flow].aged /\ Sent(pk).nat = heap[pk.flow].nat
           /\ heap[pk.flow].flags \subseteq Sent(pk).flags /\ Sent(pk).flags # {}
  BY Zenon DEF Sent, FlowValues, Packets, NfFlags

\* What the invariants say of the flow a packet, an entry or a lookup leads to.
LEMMA Reached ==
    ASSUME TypeOK, MemorySafe
    PROVE  /\ \A p \in Pkts : pkts[p] # None =>
                pkts[p] \in Packets /\ pkts[p].flow \in Flows /\ heap[pkts[p].flow] \in FlowValues
           /\ \A k \in Keys : table[k] # None =>
                /\ table[k] \in Flows /\ heap[table[k]] \in FlowValues
                /\ k \in KeysOf(heap[table[k]])
           /\ \A k \in Keys : LookedUp(k) = table[k]
<1>1. \A p \in Pkts : pkts[p] # None => pkts[p] \in Packets /\ pkts[p].flow \in Flows
  BY Zenon DEF TypeOK, Packets
<1>2. \A f \in Flows : Live(f) => heap[f] \in FlowValues
  BY Zenon DEF TypeOK, Live
<1>3. \A k \in Keys : table[k] # None => table[k] \in Flows
  BY Zenon DEF TypeOK
<1>4. \A k \in Keys : LookedUp(k) = table[k]
  BY ConstantsAssumption, Zenon DEF LookedUp, MemorySafe, CacheCoherent
<1> QED
  BY <1>1, <1>2, <1>3, <1>4, Zenon DEF MemorySafe, TableEntriesLive, PacketFlowLive

\* Writing one flow leaves the others as they are.
LEMMA FlowSet ==
    ASSUME TypeOK, NEW f \in Flows, NEW fl \in FlowValues, heap' = [heap EXCEPT ![f] = fl]
    PROVE  /\ heap' \in [Flows -> FlowValues \cup {None}]
           /\ heap'[f] = fl /\ fl # None
           /\ \A g \in Flows \ {f} : heap'[g] = heap[g]
  BY ConstantsAssumption, Zenon DEF TypeOK

\* Entries that stay lead to live flows as long as no key changes.
LEMMA EntriesKept ==
    ASSUME TypeOK, MemorySafe, NEW f \in Flows, NEW fl \in FlowValues, fl.key = heap[f].key,
           heap' = [heap EXCEPT ![f] = fl],
           \A k \in Keys : table'[k] # None => table'[k] = table[k]
    PROVE  TableEntriesLive'
<1>1. /\ heap'[f] = fl /\ fl # None
      /\ \A g \in Flows \ {f} : heap'[g] = heap[g]
  BY FlowSet, Zenon
<1> SUFFICES ASSUME NEW k \in Keys, table'[k] # None
             PROVE  heap'[table'[k]] # None /\ k \in KeysOf(heap'[table'[k]])
  BY Zenon DEF TableEntriesLive, Live
<1> DEFINE g == table[k]
<1>2. table'[k] = g /\ g \in Flows /\ heap[g] \in FlowValues /\ k \in KeysOf(heap[g])
  BY Reached, Zenon
<1> HIDE DEF g
<1>3. CASE g = f
  BY <1>1, <1>2, <1>3 DEF KeysOf
<1>4. CASE g # f
  BY <1>1, <1>2, <1>4, ConstantsAssumption, Zenon
<1> QED
  BY <1>3, <1>4, Zenon

\* So do packets that keep their flow.
LEMMA PacketsKept ==
    ASSUME TypeOK, MemorySafe, NEW f \in Flows, NEW fl \in FlowValues,
           heap' = [heap EXCEPT ![f] = fl],
           \A q \in Pkts : pkts'[q] # None => pkts[q] # None /\ pkts'[q].flow = pkts[q].flow
    PROVE  PacketFlowLive'
<1>1. /\ heap'[f] = fl /\ fl # None
      /\ \A g \in Flows \ {f} : heap'[g] = heap[g]
  BY FlowSet, Zenon
<1>2. ASSUME NEW q \in Pkts, pkts'[q] # None PROVE heap'[pkts'[q].flow] # None
  <2>1. pkts[q].flow \in Flows /\ heap[pkts[q].flow] \in FlowValues /\ pkts'[q].flow = pkts[q].flow
    BY <1>2, Reached, Zenon
  <2> QED
    BY <1>1, <2>1, ConstantsAssumption, Zenon
<1> QED
  BY <1>2, Zenon DEF PacketFlowLive, Live

-----------------------------------------------------------------------------
\* No dangling flow: TypeOK and MemorySafe are preserved together.

\* by a packet of a flow that conntrack knows,
LEMMA KnownFlowSafe ==
    ASSUME TypeOK, MemorySafe, NEW p \in Pkts, Running,
           NEW a \in dp_build_flow_key, NEW flag, burst' = burst \ {p}, KnownFlow(p, a, flag)
    PROVE  TypeOK' /\ MemorySafe'
<1> DEFINE f == LookedUp(a.key)
           dir == dp_set_pkt_flow_direction(a.key, heap[f])
           found == dp_set_flow_offload_flag(heap[f], dir, a.port)
           fl == Touched(found, a, dir, flag)
<1>1. a.key \in Keys /\ a.port \in Ports
  BY ArrivalType, Zenon
<1>2. f = table[a.key] /\ f \in Flows /\ heap[f] \in FlowValues
  BY <1>1, Reached, Zenon DEF KnownFlow
<1>3. dir \in Dirs
  BY Zenon DEF dp_set_pkt_flow_direction, Dirs
<1>4. found \in FlowValues /\ SameCore(found, heap[f])
  BY <1>1, <1>2, <1>3, OffloadFlag, Zenon
<1>5. fl \in FlowValues /\ SameCore(fl, heap[f])
  <2> HIDE DEF found, dir, f
  <2>1. fl \in FlowValues /\ SameCore(fl, found)
    BY <1>3, <1>4, TouchedCore, Zenon
  <2> HIDE DEF fl
  <2> QED
    BY <1>4, <2>1, Zenon DEF SameCore
<1>6. /\ heap' = [heap EXCEPT ![f] = fl]
      /\ pkts' = [pkts EXCEPT ![p] = [at |-> "dnat", key |-> a.key, port |-> a.port,
                                      flow |-> f, dir |-> dir, off |-> fl.off[dir]]]
      /\ cache' = [key |-> a.key, flow |-> f]
      /\ UNCHANGED <<table, ctx, ports, scan, misuse>>
  BY Zenon DEF KnownFlow, Forward
<1> HIDE DEF f, dir, found, fl
<1>7. fl.off[dir] \in OffloadStates
  BY <1>3, <1>5, Zenon DEF FlowValues
<1>8. TypeOK'
  BY <1>1, <1>2, <1>3, <1>5, <1>6, <1>7, Zenon DEF TypeOK, Packets
<1>9. TableEntriesLive'
  BY <1>2, <1>5, <1>6, ConstantsAssumption
  DEF MemorySafe, TableEntriesLive, Live, SameCore, KeysOf, TypeOK
<1>10. CacheCoherent'
  BY <1>1, <1>2, <1>6, ConstantsAssumption, Zenon DEF CacheCoherent
<1>11. PacketFlowLive'
  BY <1>2, <1>5, <1>6, ConstantsAssumption, Reached, Zenon
  DEF MemorySafe, PacketFlowLive, Live, TypeOK
<1>12. ScanOK'
  BY <1>6, Zenon DEF MemorySafe, ScanOK, Running, NoScan
<1> QED
  BY <1>8, <1>9, <1>10, <1>11, <1>12, Zenon DEF MemorySafe

\* by a packet that starts a flow,
LEMMA InsertSafe ==
    ASSUME TypeOK, MemorySafe, NEW p \in Pkts, Running,
           NEW a \in dp_build_flow_key, NEW flag, burst' = burst \ {p},
           flow_table_insert_entry(p, a, flag)
    PROVE  TypeOK' /\ MemorySafe'
<1> DEFINE fl == Touched(NewFlow(a), a, "ORG", flag)
           inv == dp_invert_flow_key(a.key)
<1>1. a.key \in Keys /\ a.port \in Ports /\ inv \in Keys
  BY ArrivalType, InvertType, Zenon
<1>2. PICK f \in Flows :
        /\ ~Live(f)
        /\ table' = [table EXCEPT ![a.key] = f, ![inv] = f]
        /\ Forward(p, a, f, fl, "ORG")
  BY Zenon DEF flow_table_insert_entry
<1>3. fl \in FlowValues /\ SameCore(fl, NewFlow(a))
  BY NewFlowType, TouchedCore, Zenon DEF Dirs
<1>4. fl.key["ORG"] = a.key /\ fl.key["REPLY"] = inv
  BY <1>3, Zenon DEF SameCore, NewFlow, Dirs
<1> HIDE DEF fl, inv
<1>5. /\ heap' = [heap EXCEPT ![f] = fl]
      /\ pkts' = [pkts EXCEPT ![p] = [at |-> "dnat", key |-> a.key, port |-> a.port,
                                      flow |-> f, dir |-> "ORG", off |-> fl.off["ORG"]]]
      /\ cache' = [key |-> a.key, flow |-> f]
      /\ UNCHANGED <<ctx, ports, scan, misuse>>
  BY <1>2, Zenon DEF Forward
<1>6. fl.off["ORG"] \in OffloadStates
  BY <1>3, Zenon DEF FlowValues, Dirs
<1>7. TypeOK'
  <2>1. heap' \in [Flows -> FlowValues \cup {None}]
    BY <1>2, <1>3, <1>5, FlowSet, Zenon
  <2>2. table' \in [Keys -> Flows \cup {None}]
    BY <1>1, <1>2, Zenon DEF TypeOK
  <2>3. pkts'[p] \in Packets /\ pkts' \in [Pkts -> Packets \cup {None}]
    BY <1>1, <1>2, <1>5, <1>6, Zenon DEF TypeOK, Packets, Dirs
  <2>4. cache' \in [key : Keys \cup {None}, flow : Flows \cup {None}]
    BY <1>1, <1>2, <1>5, Zenon
  <2> QED
    BY <1>5, <2>1, <2>2, <2>3, <2>4, Zenon DEF TypeOK
<1>8. TableEntriesLive'
  <2>1. /\ heap'[f] = fl /\ fl # None
        /\ \A g \in Flows \ {f} : heap'[g] = heap[g]
    BY <1>2, <1>3, <1>5, FlowSet, Zenon
  <2>2. \A k \in Keys : table'[k] = IF k \in {a.key, inv} THEN f ELSE table[k]
    BY <1>1, <1>2, Zenon DEF TypeOK
  <2>3. ASSUME NEW k \in Keys, table'[k] # None
        PROVE  heap'[table'[k]] # None /\ k \in KeysOf(heap'[table'[k]])
    <3>1. CASE k \in {a.key, inv}
      BY <1>4, <2>1, <2>2, <3>1, Zenon DEF KeysOf
    <3>2. CASE k \notin {a.key, inv}
      <4>1. table'[k] = table[k] /\ table[k] \in Flows /\ Live(table[k])
            /\ k \in KeysOf(heap[table[k]])
        BY <2>2, <2>3, <3>2, Zenon DEF MemorySafe, TableEntriesLive, TypeOK
      <4>2. table[k] # f
        BY <1>2, <4>1, Zenon
      <4> QED
        BY <2>1, <4>1, <4>2, Zenon DEF Live
    <3> QED
      BY <3>1, <3>2, Zenon
  <2> QED
    BY <2>3, Zenon DEF TableEntriesLive, Live
<1>9. CacheCoherent'
  BY <1>1, <1>2, <1>5, ConstantsAssumption, Zenon DEF CacheCoherent, TypeOK
<1>10. PacketFlowLive'
  BY <1>2, <1>3, <1>5, ConstantsAssumption, Reached, Zenon DEF MemorySafe, PacketFlowLive, Live, TypeOK
<1>11. ScanOK'
  BY <1>5, Zenon DEF ScanOK, Running, NoScan
<1> QED
  BY <1>7, <1>8, <1>9, <1>10, <1>11, Zenon DEF MemorySafe

\* by the delete and add of a rewritten reply key,
LEMMA ReplaceSafe ==
    ASSUME TypeOK, MemorySafe, Running, NEW p \in Pkts, pkts[p] # None,
           NEW fl \in FlowValues, fl.key["ORG"] = heap[pkts[p].flow].key["ORG"],
           NEW node \in {"dnat", "snat", "tx"}, ReplaceReplyKey(p, pkts[p].flow, fl, node),
           scan' = scan
    PROVE  MemorySafe'
<1> DEFINE f == pkts[p].flow
           old == heap[f].key["REPLY"]
           new == fl.key["REPLY"]
           deleted == Without(table, {old})
<1>1. pkts[p] \in Packets /\ f \in Flows /\ heap[f] \in FlowValues
  BY Reached, Zenon
<1>2. new \in Keys
  BY Zenon DEF FlowValues, Dirs
<1>3. /\ deleted \in [Keys -> Flows \cup {None}]
      /\ \A k \in Keys : deleted[k] = IF k = old THEN None ELSE table[k]
  BY WithoutType DEF TypeOK
<1>4. /\ heap' = [heap EXCEPT ![f] = fl]
      /\ cache' = NoCache
      /\ \/ /\ table' = [deleted EXCEPT ![new] = f]
            /\ pkts' = [pkts EXCEPT ![p].at = node]
         \/ /\ table' = deleted
            /\ pkts' = [pkts EXCEPT ![p] = None]
  BY Zenon DEF ReplaceReplyKey
<1>5. \A q \in Pkts : pkts'[q] # None => pkts[q] # None /\ pkts'[q].flow = pkts[q].flow
  BY <1>1, <1>4 DEF TypeOK, Packets
<1>6. \A g \in Flows : Live(g) => Live(g)'
  BY <1>1, <1>4, ConstantsAssumption, Zenon DEF Live, TypeOK
<1>7. PacketFlowLive'
  BY <1>5, <1>6, Reached, Zenon DEF MemorySafe, PacketFlowLive
<1>8. TableEntriesLive'
  <2> SUFFICES ASSUME NEW k \in Keys, table'[k] # None
               PROVE  heap'[table'[k]] # None /\ k \in KeysOf(heap'[table'[k]])
    BY Zenon DEF TableEntriesLive, Live
  <2> HIDE DEF f, old, new, deleted
  <2>1. (k = new /\ table'[k] = f) \/ (k # old /\ table'[k] = table[k])
    BY <1>2, <1>3, <1>4, Zenon
  <2>2. CASE k = new /\ table'[k] = f
    BY <1>1, <1>4, <2>2, ConstantsAssumption, Zenon DEF Live, KeysOf, TypeOK, new
  <2>3. CASE k # old /\ table'[k] = table[k]
    <3>1. table[k] \in Flows /\ Live(table[k]) /\ k \in KeysOf(heap[table[k]])
      BY <2>3, Reached, Zenon DEF MemorySafe, TableEntriesLive
    <3>2. CASE table[k] = f
      BY <1>1, <1>4, <2>3, <3>1, <3>2, ConstantsAssumption, Zenon DEF Live, KeysOf, TypeOK, old, f
    <3>3. CASE table[k] # f
      BY <1>1, <1>4, <2>3, <3>1, <3>3, Zenon DEF Live, KeysOf, TypeOK
    <3> QED
      BY <3>2, <3>3, Zenon
  <2> QED
    BY <2>1, <2>2, <2>3, Zenon
<1>9. CacheCoherent'
  BY <1>4, Zenon DEF CacheCoherent, NoCache
<1>10. ScanOK'
  BY Zenon DEF ScanOK, Running, NoScan
<1> QED
  BY <1>7, <1>8, <1>9, <1>10, Zenon DEF MemorySafe

\* by freeing a flow while no packet is under way,
LEMMA FreeSafe ==
    ASSUME TypeOK, MemorySafe, NEW f \in Flows, dp_free_flow(f)
    PROVE  /\ TableEntriesLive' /\ CacheCoherent'
           /\ (\A p \in Pkts : pkts[p] = None) /\ pkts' = pkts => PacketFlowLive'
<1> DEFINE K == {heap[f].key["ORG"], heap[f].key["REPLY"]}
<1>1. /\ heap' = [heap EXCEPT ![f] = None]
      /\ table' = Without(table, K)
      /\ cache' = NoCache
  BY Zenon DEF dp_free_flow
<1>2. \A k \in Keys : table'[k] = IF k \in K THEN None ELSE table[k]
  BY <1>1, WithoutType DEF TypeOK
<1>3. TableEntriesLive'
  <2> SUFFICES ASSUME NEW k \in Keys, table'[k] # None
               PROVE  Live(table[k])' /\ k \in KeysOf(heap[table[k]])'
    BY Zenon DEF TableEntriesLive
  <2>1. k \notin K /\ table'[k] = table[k]
    BY <1>2, Zenon
  <2>2. table[k] \in Flows /\ Live(table[k]) /\ k \in KeysOf(heap[table[k]])
    BY <2>1, Reached, Zenon DEF MemorySafe, TableEntriesLive
  <2>3. table[k] # f
    BY <2>1, <2>2, Zenon DEF KeysOf
  <2>4. heap'[table[k]] = heap[table[k]]
    BY <1>1, <2>2, <2>3, Zenon DEF TypeOK
  <2> QED
    BY <2>1, <2>2, <2>4, Zenon DEF Live, KeysOf
<1> QED
  BY <1>1, <1>3, Zenon DEF CacheCoherent, NoCache, PacketFlowLive

\* and by dropping references to it.
LEMMA RefDecSafe ==
    ASSUME TypeOK, MemorySafe, NEW f \in Flows, NEW fl \in FlowValues, NEW n \in Int,
           heap[f] \in FlowValues, fl.key = heap[f].key, dp_ref_dec(f, fl, n)
    PROVE  /\ TableEntriesLive' /\ CacheCoherent'
           /\ (\A p \in Pkts : pkts[p] = None) /\ pkts' = pkts => PacketFlowLive'
<1>1. CASE fl.ref = n
  BY <1>1, FreeSafe, Zenon DEF dp_ref_dec
<1>2. CASE fl.ref # n
  <2> DEFINE less == [fl EXCEPT !.ref = @ - n]
  <2>1. less \in FlowValues /\ less.key = heap[f].key
    BY DEF FlowValues
  <2> HIDE DEF less
  <2>2. heap' = [heap EXCEPT ![f] = less] /\ table' = table /\ cache' = cache
    BY <1>2, Zenon DEF dp_ref_dec, less
  <2>3. TableEntriesLive'
    BY <2>1, <2>2, Reached, ConstantsAssumption, Zenon DEF TableEntriesLive, MemorySafe, Live, KeysOf, TypeOK
  <2> QED
    BY <2>2, <2>3, Zenon DEF MemorySafe, CacheCoherent, PacketFlowLive
<1> QED
  BY <1>1, <1>2, Zenon

\* A step that leaves the flows, the table and the scan alone, and in which a
\* packet moves to another node or leaves, preserves both.
LEMMA MoveSafe ==
    ASSUME TypeOK, MemorySafe, Running, NEW p \in Pkts, pkts[p] # None,
           NEW node \in {"dnat", "snat", "tx"}, MoveTo(p, node) \/ Drop(p),
           UNCHANGED <<ctx, burst, scan, misuse>>
    PROVE  TypeOK' /\ MemorySafe'
<1>1. pkts[p] \in Packets /\ [pkts[p] EXCEPT !.at = node] \in Packets
  BY Reached, Zenon DEF Packets
<1>2. UNCHANGED <<heap, table, cache, ports>>
  BY Zenon DEF MoveTo, Drop
<1>3. /\ pkts' \in [Pkts -> Packets \cup {None}]
      /\ \A q \in Pkts : pkts'[q] # None => pkts[q] # None /\ pkts'[q].flow = pkts[q].flow
  BY <1>1 DEF MoveTo, Drop, TypeOK, Packets
<1>4. TypeOK'
  BY <1>2, <1>3, Zenon DEF TypeOK
<1>5. PacketFlowLive'
  BY <1>2, <1>3, Zenon DEF MemorySafe, PacketFlowLive, Live
<1> QED
  BY <1>2, <1>4, <1>5, Zenon
  DEF MemorySafe, TableEntriesLive, CacheCoherent, ScanOK, Running, NoScan, Live

\* Conntrack preserves both: it finds a flow, starts one, or gives up.
LEMMA CntrackSafe ==
    ASSUME TypeOK, MemorySafe, NEW p \in Pkts, dp_cntrack_handle(p)
    PROVE  TypeOK' /\ MemorySafe'
<1>1. PICK a \in dp_build_flow_key, flag \in TcpFlags \cup {None} :
        \/ KnownFlow(p, a, flag)
        \/ flow_table_insert_entry(p, a, flag)
        \/ InsertFails(a)
  BY Zenon DEF dp_cntrack_handle
<1>2. Running /\ burst' = burst \ {p}
  BY Zenon DEF dp_cntrack_handle
<1>3. CASE KnownFlow(p, a, flag)
  BY <1>2, <1>3, KnownFlowSafe, Zenon
<1>4. CASE flow_table_insert_entry(p, a, flag)
  BY <1>2, <1>4, InsertSafe, Zenon
<1>5. CASE InsertFails(a)
  <2>1. cache' \in {cache, NoCache} /\ UNCHANGED <<heap, table, ctx, pkts, ports, scan, misuse>>
    BY <1>5, Zenon DEF InsertFails
  <2> QED
    BY <1>2, <2>1 DEF TypeOK, MemorySafe, TableEntriesLive, CacheCoherent, PacketFlowLive, ScanOK,
                      NoCache, Live
<1> QED
  BY <1>1, <1>3, <1>4, <1>5, Zenon

\* The dnat node rewrites one reply key, or deletes it.
LEMMA DnatSafe ==
    ASSUME TypeOK, MemorySafe, NEW p \in Pkts, dnat_node(p)
    PROVE  TypeOK' /\ MemorySafe'
<1> DEFINE f == pkts[p].flow
<1>1. /\ Running /\ pkts[p] # None /\ UNCHANGED <<ctx, burst, scan, misuse>>
      /\ pkts[p] \in Packets /\ f \in Flows /\ heap[f] \in FlowValues
  BY Reached, Zenon DEF dnat_node
<1>2. CASE /\ heap' = [heap EXCEPT ![f].nat = "NETWORK_NEIGH"]
           /\ table' = Without(table, {heap[f].key["REPLY"]})
           /\ cache' = NoCache
           /\ pkts' = [pkts EXCEPT ![p].at = "tx"]
           /\ UNCHANGED ports
  <2> DEFINE fl == [heap[f] EXCEPT !.nat = "NETWORK_NEIGH"]
  <2>1. fl \in FlowValues /\ fl.key = heap[f].key
    BY <1>1, Zenon DEF FlowValues, NatTypes
  <2>2. heap' = [heap EXCEPT ![f] = fl] /\ cache' = NoCache /\ ports' = ports
    BY <1>1, <1>2, Zenon DEF TypeOK
  <2> HIDE DEF fl
  <2>3. /\ table' \in [Keys -> Flows \cup {None}]
        /\ \A k \in Keys : table'[k] # None => table'[k] = table[k]
    BY <1>2, WithoutType DEF TypeOK
  <2>4. /\ pkts' \in [Pkts -> Packets \cup {None}]
        /\ \A q \in Pkts : pkts'[q] # None => pkts[q] # None /\ pkts'[q].flow = pkts[q].flow
    BY <1>1, <1>2, Zenon DEF TypeOK, Packets
  <2>5. TypeOK'
    <3>1. heap' \in [Flows -> FlowValues \cup {None}]
      BY <1>1, <2>1, <2>2, FlowSet, Zenon
    <3>2. cache' \in [key : Keys \cup {None}, flow : Flows \cup {None}]
      BY <2>2, Zenon DEF NoCache
    <3> QED
      BY <1>1, <2>2, <2>3, <2>4, <3>1, <3>2, Zenon DEF TypeOK
  <2>6. TableEntriesLive'
    BY <1>1, <2>1, <2>2, <2>3, EntriesKept, Zenon
  <2>7. PacketFlowLive'
    BY <1>1, <2>1, <2>2, <2>4, PacketsKept, Zenon
  <2> QED
    BY <1>1, <1>2, <2>5, <2>6, <2>7, Zenon DEF MemorySafe, CacheCoherent, NoCache, ScanOK, Running, NoScan
<1>3. CASE Drop(p)
  BY <1>1, <1>3, MoveSafe, Zenon
<1>4. CASE \E v \in VMs :
             /\ ReplaceReplyKey(p, f, [heap[f] EXCEPT !.flags = @ \cup {"DST_NAT"},
                                                      !.key["REPLY"].src = v], "snat")
             /\ UNCHANGED ports
  <2>1. PICK v \in VMs :
             /\ ReplaceReplyKey(p, f, [heap[f] EXCEPT !.flags = @ \cup {"DST_NAT"},
                                                      !.key["REPLY"].src = v], "snat")
             /\ UNCHANGED ports
    BY <1>4, Zenon
  <2> DEFINE fl == [heap[f] EXCEPT !.flags = @ \cup {"DST_NAT"}, !.key["REPLY"].src = v]
  <2>2. [heap[f].key["REPLY"] EXCEPT !.src = v] \in Keys
    <3>1. heap[f].key["REPLY"] \in Keys
      BY <1>1, Zenon DEF FlowValues, Dirs
    <3>2. v \in Endpoints
      BY Zenon DEF Endpoints
    <3> QED
      BY <3>1, <3>2, SourceType, Zenon
  <2>3. [heap[f].key EXCEPT !["REPLY"] = [heap[f].key["REPLY"] EXCEPT !.src = v]] \in [Dirs -> Keys]
    BY <1>1, <2>2, Zenon DEF FlowValues, Dirs
  <2>4. fl \in FlowValues /\ fl.key["ORG"] = heap[f].key["ORG"]
    BY <1>1, <2>3, Zenon DEF FlowValues, Dirs, NfFlags
  <2> HIDE DEF fl
  <2>5. ReplaceReplyKey(p, f, fl, "snat") /\ ports' = ports
    BY <2>1, Zenon DEF fl
  <2>6. MemorySafe'
    BY <1>1, <2>4, <2>5, ReplaceSafe, Zenon
  <2>7. TypeOK'
    BY <1>1, <2>4, <2>5, ReplaceType, Zenon DEF TypeOK
  <2> QED
    BY <2>6, <2>7, Zenon
<1>5. CASE MoveTo(p, IF heap[f].nat = "NETWORK_NEIGH" THEN "tx" ELSE "snat")
  BY <1>1, <1>5, MoveSafe, Zenon
<1> QED
  BY <1>2, <1>3, <1>4, <1>5, Zenon DEF dnat_node

\* The route lookup drops a packet or leaves everything as it is.
LEMMA LookupSafe ==
    ASSUME TypeOK, MemorySafe, NEW p \in Pkts, ipv4_lookup_node(p)
    PROVE  TypeOK' /\ MemorySafe'
  BY MoveSafe, Zenon DEF ipv4_lookup_node

\* The snat node rewrites one reply key and takes at most one port.
LEMMA SnatSafe ==
    ASSUME TypeOK, MemorySafe, NEW p \in Pkts, snat_node(p)
    PROVE  TypeOK' /\ MemorySafe'
<1> DEFINE f == pkts[p].flow
           pk == pkts[p]
           marked(n, t) == [heap[f] EXCEPT !.flags = @ \cup {"SRC_NAT"}, !.nat = t,
                                           !.key["REPLY"].dst = n]
           port(n) == [nat |-> n, dst |-> pk.key.dst, proto |-> pk.key.proto]
<1>1. /\ Running /\ pkts[p] # None /\ UNCHANGED <<ctx, burst, scan, misuse>>
      /\ pkts[p] \in Packets /\ f \in Flows /\ heap[f] \in FlowValues
  BY Reached, Zenon DEF snat_node
<1>2. ASSUME NEW n \in Endpoints, NEW t \in NatTypes
      PROVE  marked(n, t) \in FlowValues /\ marked(n, t).key["ORG"] = heap[f].key["ORG"]
  <2>1. [heap[f].key["REPLY"] EXCEPT !.dst = n] \in Keys
    BY <1>1 DEF FlowValues, Keys, Dirs
  <2>2. [heap[f].key EXCEPT !["REPLY"] = [heap[f].key["REPLY"] EXCEPT !.dst = n]] \in [Dirs -> Keys]
    BY <1>1, <2>1, Zenon DEF FlowValues, Dirs
  <2> QED
    BY <1>1, <2>2, Zenon DEF FlowValues, Dirs, NfFlags
<1>3. ASSUME NEW n \in Endpoints, NEW t \in NatTypes, ports' \subseteq PortKeys,
             ReplaceReplyKey(p, f, marked(n, t), "tx")
      PROVE  TypeOK' /\ MemorySafe'
  <2> HIDE DEF marked
  <2>1. MemorySafe'
    BY <1>1, <1>2, <1>3, ReplaceSafe, Zenon
  <2> QED
    BY <1>1, <1>2, <1>3, <2>1, ReplaceType, Zenon DEF TypeOK
<1>4. CASE MoveTo(p, "tx") \/ Drop(p)
  BY <1>1, <1>4, MoveSafe, Zenon
<1>5. CASE \E n \in Nats : /\ ports' = ports \cup {port(n)}
                           /\ ReplaceReplyKey(p, f, marked(n, "NETWORK_LOCAL"), "tx")
  <2>1. PICK n \in Nats : /\ ports' = ports \cup {port(n)}
                          /\ ReplaceReplyKey(p, f, marked(n, "NETWORK_LOCAL"), "tx")
    BY <1>5, Zenon
  <2>2. port(n) \in PortKeys
    BY <1>1, Zenon DEF PortKeys, Packets, Keys, Endpoints
  <2>3. ports' \subseteq PortKeys
    BY <2>1, <2>2, Zenon DEF TypeOK
  <2> HIDE DEF marked, port
  <2> QED
    BY <1>3, <2>1, <2>3, Zenon DEF Endpoints, NatTypes
<1>6. CASE /\ SnatOf[pk.key.src] \in Vips
           /\ ReplaceReplyKey(p, f, marked(SnatOf[pk.key.src], "VIP"), "tx")
           /\ UNCHANGED ports
  <2> HIDE DEF marked
  <2> QED
    BY <1>3, <1>6, Zenon DEF Endpoints, NatTypes, TypeOK
<1> QED
  BY <1>4, <1>5, <1>6, Zenon DEF snat_node

\* The tx node and the rules it installs only write fields of a live flow.
LEMMA TxSafe ==
    ASSUME TypeOK, MemorySafe, NEW p \in Pkts, tx_node_process(p)
    PROVE  TypeOK' /\ MemorySafe'
<1> DEFINE pk == pkts[p]
           f == pk.flow
<1>1. /\ Running /\ pk # None /\ UNCHANGED <<table, cache, burst, ports, scan>>
      /\ pkts' = [pkts EXCEPT ![p] = None]
      /\ pk \in Packets /\ f \in Flows /\ heap[f] \in FlowValues
  BY Reached, Zenon DEF tx_node_process
<1>2. Sent(pk) \in FlowValues /\ Sent(pk).key = heap[f].key
  BY <1>1, SentType, Zenon
<1>3. /\ ctx' \in [Ctxs -> AgeCtxs \cup {None}]
      /\ misuse' \subseteq {"flow_uaf", "handle_double_destroy"}
      /\ \E n \in Int : heap' = [heap EXCEPT ![f] = [Sent(pk) EXCEPT !.ref = @ + n]]
  <2>1. CASE \E C \in SUBSET Ctxs :
               /\ ctx' = [c \in Ctxs |-> IF c \in C
                                  THEN [flow |-> pk.flow, dir |-> pk.dir, port |-> pk.port,
                                        stored |-> NeedsHandle(pk)]
                                  ELSE ctx[c]]
               /\ heap' = [heap EXCEPT ![pk.flow] = [Sent(pk) EXCEPT !.ref = @ + Cardinality(C)]]
               /\ UNCHANGED misuse
    <3>1. [flow |-> pk.flow, dir |-> pk.dir, port |-> pk.port, stored |-> NeedsHandle(pk)] \in AgeCtxs
      BY <1>1, Zenon DEF AgeCtxs, Packets, NeedsHandle
    <3>2. ctx' \in [Ctxs -> AgeCtxs \cup {None}]
      BY <2>1, <3>1, Zenon DEF TypeOK
    <3>3. \E n \in Int : heap' = [heap EXCEPT ![f] = [Sent(pk) EXCEPT !.ref = @ + n]]
      <4>1. PICK C \in SUBSET Ctxs :
              heap' = [heap EXCEPT ![f] = [Sent(pk) EXCEPT !.ref = @ + Cardinality(C)]]
        BY <2>1, Zenon
      <4>2. Cardinality(C) \in Int
        <5>1. Cardinality(C) \in Nat
          BY RulesFinite, Zenon
        <5> QED
          BY <5>1
      <4> WITNESS Cardinality(C) \in Int
      <4> QED
        BY <4>1, Zenon
    <3> QED
      BY <2>1, <3>2, <3>3, Zenon DEF TypeOK
  <2>2. CASE /\ heap' = [heap EXCEPT ![f] = Sent(pk)]
             /\ ctx' = ctx
             /\ misuse' \subseteq misuse \cup {"handle_double_destroy"}
    <3>1. [Sent(pk) EXCEPT !.ref = @ + 0] = Sent(pk)
      BY <1>2 DEF FlowValues
    <3>2. heap' = [heap EXCEPT ![f] = [Sent(pk) EXCEPT !.ref = @ + 0]]
      BY <2>2, <3>1, Zenon
    <3>3. 0 \in Int
      OBVIOUS
    <3> QED
      BY <2>2, <3>2, <3>3, Zenon DEF TypeOK
  <2> QED
    BY <2>1, <2>2, Zenon DEF tx_node_process, dp_offload_handler
<1>4. PICK n \in Int : heap' = [heap EXCEPT ![f] = [Sent(pk) EXCEPT !.ref = @ + n]]
  BY <1>3, Zenon
<1> DEFINE fl == [Sent(pk) EXCEPT !.ref = @ + n]
<1>5. fl \in FlowValues /\ fl.key = heap[f].key
  BY <1>2 DEF FlowValues
<1> HIDE DEF fl
<1>6. heap' = [heap EXCEPT ![f] = fl]
  BY <1>4, Zenon DEF fl
<1>7. TypeOK'
  <2>1. heap' \in [Flows -> FlowValues \cup {None}]
    BY <1>1, <1>5, <1>6, FlowSet, Zenon
  <2> QED
    BY <1>1, <1>3, <2>1, Zenon DEF TypeOK
<1>8. TableEntriesLive'
  BY <1>1, <1>5, <1>6, EntriesKept, Zenon
<1>9. PacketFlowLive'
  <2>1. \A q \in Pkts : pkts'[q] # None => pkts[q] # None /\ pkts'[q].flow = pkts[q].flow
    BY <1>1, Zenon DEF TypeOK
  <2> QED
    BY <1>1, <1>5, <1>6, <2>1, PacketsKept, Zenon
<1> QED
  BY <1>1, <1>7, <1>8, <1>9, Zenon DEF MemorySafe, CacheCoherent, ScanOK, Running, NoScan

\* The passing of time changes no entry.
LEMMA TimeOutSafe ==
    ASSUME TypeOK, MemorySafe, NEW f \in Flows, TimeOut(f)
    PROVE  TypeOK' /\ MemorySafe'
<1> DEFINE fl == [heap[f] EXCEPT !.idle = TRUE]
<1>1. heap[f] \in FlowValues
  BY Zenon DEF TimeOut, Live, TypeOK
<1>2. fl \in FlowValues /\ fl.key = heap[f].key
  BY <1>1, Zenon DEF FlowValues
<1>3. heap' = [heap EXCEPT ![f] = fl] /\ UNCHANGED <<table, cache, ctx, burst, pkts, ports, scan, misuse>>
  BY Zenon DEF TimeOut
<1> HIDE DEF fl
<1>4. TypeOK'
  BY <1>2, <1>3, Zenon DEF TypeOK
<1>5. TableEntriesLive'
  BY <1>2, <1>3, EntriesKept, Zenon
<1>6. PacketFlowLive'
  BY <1>2, <1>3, PacketsKept, Zenon
<1> QED
  BY <1>3, <1>4, <1>5, <1>6, Zenon DEF MemorySafe, CacheCoherent, ScanOK

\* A rule the NIC reports takes its reference along, and the entries with the last one.
LEMMA AgedRuleSafe ==
    ASSUME TypeOK, MemorySafe, NEW c \in Ctxs, dp_destroy_rte_flow_agectx(c)
    PROVE  TypeOK' /\ MemorySafe'
<1> DEFINE f == ctx[c].flow
<1>1. /\ WalkDone /\ f \in Flows
      /\ ctx' = [ctx EXCEPT ![c] = None] /\ UNCHANGED <<burst, pkts, scan>>
  BY Zenon DEF dp_destroy_rte_flow_agectx, TypeOK, AgeCtxs
<1>2. ScanOK'
  BY <1>1, Zenon DEF ScanOK, WalkDone, Running, NoScan
<1>3. CASE Live(f) /\ dp_ref_dec(f, heap[f], 1) /\ UNCHANGED misuse
  <2>1. heap[f] \in FlowValues
    BY <1>1, <1>3, Zenon DEF Live, TypeOK
  <2>2. TypeOK'
    <3>1. /\ heap' \in [Flows -> FlowValues \cup {None}]
          /\ table' \in [Keys -> Flows \cup {None}]
          /\ cache' \in [key : Keys \cup {None}, flow : Flows \cup {None}]
          /\ ports' \subseteq PortKeys
      BY <1>1, <1>3, <2>1, RefDecType
    <3>2. ctx' \in [Ctxs -> AgeCtxs \cup {None}]
      BY <1>1, Zenon DEF TypeOK
    <3> QED
      BY <1>1, <1>3, <3>1, <3>2, Zenon DEF TypeOK
  <2>3. TableEntriesLive' /\ CacheCoherent' /\ PacketFlowLive'
    BY <1>1, <1>3, <2>1, RefDecSafe DEF WalkDone
  <2> QED
    BY <1>2, <2>2, <2>3, Zenon DEF MemorySafe
<1>4. CASE FlowUseAfterFree /\ UNCHANGED <<heap, table, cache, ports>>
  BY <1>1, <1>2, <1>4, Zenon
  DEF TypeOK, FlowUseAfterFree, MemorySafe, TableEntriesLive, CacheCoherent, PacketFlowLive, Live
<1> QED
  BY <1>3, <1>4, Zenon DEF dp_destroy_rte_flow_agectx

\* An iteration treats a flow it reached without leaving a dangling entry, even
\* in the step in which it goes on with a flow that it has freed.
LEMMA VisitFlowSafe ==
    ASSUME TypeOK, MemorySafe, NEW f \in Flows, heap[f] \in FlowValues,
           NEW C \in SUBSET Ctxs, NEW out \in BOOLEAN, VisitFlow(f, C, out),
           UNCHANGED <<burst, pkts>>, scan' \in [req : Requests \cup {AgeRequest, None}, todo : SUBSET Keys]
    PROVE  /\ TypeOK'
           /\ TableEntriesLive' /\ CacheCoherent'
           /\ (\A p \in Pkts : pkts[p] = None) => PacketFlowLive'
<1>1. ctx' \in [Ctxs -> AgeCtxs \cup {None}]
  BY Zenon DEF VisitFlow, TypeOK
<1>2. CASE dp_free_flow(f) /\ FlowUseAfterFree
  <2>1. TypeOK'
    BY <1>1, <1>2, FreeType, Zenon DEF TypeOK, FlowUseAfterFree
  <2> QED
    BY <1>2, <2>1, FreeSafe, Zenon
<1>3. CASE /\ dp_ref_dec(f, [heap[f] EXCEPT !.aged = @ \/ out],
                         Cardinality(C) + (IF out THEN 1 ELSE 0))
           /\ UNCHANGED misuse
  <2> DEFINE fl == [heap[f] EXCEPT !.aged = @ \/ out]
             n == Cardinality(C) + (IF out THEN 1 ELSE 0)
  <2>1. fl \in FlowValues /\ fl.key = heap[f].key
    BY Zenon DEF FlowValues
  <2>2. n \in Int
    BY RulesFinite
  <2> HIDE DEF fl, n
  <2>3. dp_ref_dec(f, fl, n)
    BY <1>3, Zenon DEF fl, n
  <2>4. TypeOK'
    BY <1>1, <1>3, <2>1, <2>2, <2>3, RefDecType, Zenon DEF TypeOK
  <2> QED
    BY <2>1, <2>2, <2>3, <2>4, RefDecSafe, Zenon
<1> QED
  BY <1>2, <1>3, Zenon DEF VisitFlow

\* Visiting an entry is visiting its flow, or passing it by.
LEMMA VisitEntryCases ==
    ASSUME TypeOK, MemorySafe, NEW k \in Keys, VisitEntry(k)
    PROVE  \/ \E C \in SUBSET Stored(table[k]), out \in BOOLEAN :
                /\ VisitFlow(table[k], C, out)
                /\ \/ /\ scan.req = AgeRequest
                      /\ C # {} => offload_mode_enabled /\ k.proto = "TCP"
                      /\ out = (heap[table[k]].idle /\ ~heap[table[k]].aged)
                   \/ /\ scan.req # AgeRequest
                      /\ C = IF offload_mode_enabled THEN Stored(table[k]) ELSE {}
                      /\ out = TRUE
           \/ UNCHANGED <<heap, table, cache, ctx, ports, misuse>>
<1>1. k \in scan.todo /\ table[k] \in Flows /\ heap[table[k]] \in FlowValues
  BY Reached, Zenon DEF VisitEntry, MemorySafe, ScanOK
<1>2. CASE scan.req = AgeRequest /\ AgeEntry(k)
  <2> DEFINE out == heap[table[k]].idle /\ ~heap[table[k]].aged
  <2>1. out \in BOOLEAN
    BY Zenon
  <2>2. PICK C \in SUBSET (IF offload_mode_enabled /\ k.proto = "TCP" THEN Stored(table[k]) ELSE {}) :
           VisitFlow(table[k], C, out)
    BY <1>2, Zenon DEF AgeEntry
  <2> HIDE DEF out
  <2>3. C \in SUBSET Stored(table[k]) /\ (C # {} => offload_mode_enabled /\ k.proto = "TCP")
    BY <2>2, Zenon
  <2> QED
    BY <1>2, <2>1, <2>2, <2>3, Zenon DEF out
<1>3. CASE scan.req # AgeRequest /\ RemoveEntry(k)
  <2> DEFINE C == IF offload_mode_enabled THEN Stored(table[k]) ELSE {}
  <2>1. VisitFlow(table[k], C, TRUE)
    BY <1>3, Zenon DEF RemoveEntry
  <2>2. C \in SUBSET Stored(table[k])
    BY Zenon
  <2> HIDE DEF C
  <2> QED
    BY <1>3, <2>1, <2>2, Zenon DEF C
<1> QED
  BY <1>2, <1>3, Zenon DEF VisitEntry

\* One step of an iteration leaves no dangling entry ahead of it or behind it.
LEMMA VisitEntrySafe ==
    ASSUME TypeOK, MemorySafe, NEW k \in Keys, VisitEntry(k)
    PROVE  TypeOK' /\ MemorySafe'
<1>1. /\ k \in scan.todo /\ UNCHANGED <<burst, pkts>>
      /\ scan' = [scan EXCEPT !.todo = {x \in @ \ {k} : table'[x] # None}]
      /\ table[k] \in Flows /\ heap[table[k]] \in FlowValues
  BY Reached, Zenon DEF VisitEntry, MemorySafe, ScanOK
<1>2. /\ scan' \in [req : Requests \cup {AgeRequest, None}, todo : SUBSET Keys]
      /\ \A x \in scan'.todo : table'[x] # None
  BY <1>1, Zenon DEF TypeOK
<1>3. \A p \in Pkts : pkts[p] = None
  BY <1>1, Zenon DEF MemorySafe, ScanOK
<1>4. ScanOK'
  BY <1>1, <1>2, <1>3, Zenon DEF ScanOK
<1>5. TypeOK' /\ TableEntriesLive' /\ CacheCoherent' /\ PacketFlowLive'
  <2>1. CASE \E C \in SUBSET Stored(table[k]), out \in BOOLEAN : VisitFlow(table[k], C, out)
    <3>1. PICK C \in SUBSET Stored(table[k]), out \in BOOLEAN : VisitFlow(table[k], C, out)
      BY <2>1, Zenon
    <3>2. C \in SUBSET Ctxs
      BY RulesFinite, Zenon
    <3> QED
      BY <1>1, <1>2, <1>3, <3>1, <3>2, VisitFlowSafe, Zenon
  <2>2. CASE UNCHANGED <<heap, table, cache, ctx, ports, misuse>>
    BY <1>1, <1>2, <2>2, Zenon
    DEF TypeOK, MemorySafe, TableEntriesLive, CacheCoherent, PacketFlowLive, Live
  <2> QED
    BY <2>1, <2>2, VisitEntryCases, Zenon
<1> QED
  BY <1>4, <1>5, Zenon DEF MemorySafe

\* Every step preserves type correctness and memory safety.
LEMMA StepSafe == TypeOK /\ MemorySafe /\ [Next]_vars => TypeOK' /\ MemorySafe'
<1> SUFFICES ASSUME TypeOK, MemorySafe, [Next]_vars PROVE TypeOK' /\ MemorySafe'
  BY Zenon
<1> USE DEF MemorySafe
<1>1. ASSUME NEW p \in Pkts,
             \/ dp_cntrack_handle(p) \/ dnat_node(p) \/ ipv4_lookup_node(p)
             \/ snat_node(p) \/ tx_node_process(p)
      PROVE  TypeOK' /\ MemorySafe'
  BY <1>1, CntrackSafe, DnatSafe, LookupSafe, SnatSafe, TxSafe, Zenon
<1>2. ASSUME NEW f \in Flows, TimeOut(f) PROVE TypeOK' /\ MemorySafe'
  BY <1>2, TimeOutSafe, Zenon
<1>3. ASSUME NEW c \in Ctxs, dp_destroy_rte_flow_agectx(c) PROVE TypeOK' /\ MemorySafe'
  BY <1>3, AgedRuleSafe, Zenon
<1>4. ASSUME NEW req \in Requests \cup {AgeRequest}, StartScan(req) PROVE TypeOK' /\ MemorySafe'
  BY <1>4, Zenon DEF StartScan, WalkDone, TypeOK, TableEntriesLive, CacheCoherent, PacketFlowLive, ScanOK, Live
<1>5. ASSUME NEW k \in Keys, VisitEntry(k) PROVE TypeOK' /\ MemorySafe'
  BY <1>5, VisitEntrySafe, Zenon
<1>6. CASE FinishScan
  BY <1>6, Zenon DEF FinishScan, NoScan, TypeOK, TableEntriesLive, CacheCoherent, PacketFlowLive, ScanOK, Live
<1>7. CASE graph_main_loop
  BY <1>7, Zenon DEF graph_main_loop, TypeOK, TableEntriesLive, CacheCoherent, PacketFlowLive, ScanOK, Live
<1>8. CASE UNCHANGED vars
  BY <1>8, Zenon DEF vars, TypeOK, TableEntriesLive, CacheCoherent, PacketFlowLive, ScanOK, Live
<1>9. CASE Next
  BY <1>1, <1>2, <1>3, <1>4, <1>5, <1>6, <1>7, <1>9, Zenon DEF Next
<1> QED
  BY <1>8, <1>9, Zenon

\* The program starts with an empty table.
LEMMA InitSafe == Init => TypeOK /\ MemorySafe
  BY DEF Init, TypeOK, MemorySafe, TableEntriesLive, CacheCoherent, PacketFlowLive, ScanOK,
         NoCache, NoScan, Keys

\* All values stay within their types, for every configuration.
THEOREM TypeCorrect == Spec => []TypeOK
<1>1. Spec => [](TypeOK /\ MemorySafe)
  BY InitSafe, StepSafe, PTL DEF Spec
<1> QED
  BY <1>1, PTL

\* In every configuration - NAT, VIP, offloading, TCP, removal requests, failures -
\* no entry of the flow table dangles (dp_free_flow removes them all), the cache
\* agrees with the table (every deletion flushes it), and no packet between
\* conntrack and tx points to a freed flow.
THEOREM MemorySafety == Spec => [](TableEntriesLive /\ CacheCoherent /\ PacketFlowLive)
<1>1. Spec => [](TypeOK /\ MemorySafe)
  BY InitSafe, StepSafe, PTL DEF Spec
<1>2. MemorySafe => TableEntriesLive /\ CacheCoherent /\ PacketFlowLive
  BY Zenon DEF MemorySafe
<1> QED
  BY <1>1, <1>2, PTL

\* The one-entry cache of the last lookup agrees with the flow table
\* (flow_conntrack, dp_cntrack_flush_cache).
COROLLARY CacheNeverStale == Spec => []CacheCoherent
BY MemorySafety, PTL

\* The flow a packet carries from node to node is never freed on the way
\* (df->conntrack).
COROLLARY PacketsHoldLiveFlows == Spec => []PacketFlowLive
BY MemorySafety, PTL

-----------------------------------------------------------------------------
\* NAT ports and keys.

\* The portoverload entries flow g holds in memory h.
HeldIn(h, g) == IF h[g] # None THEN HeldPorts(h[g]) ELSE {}

\* NatPortsExact of memory h and entries P, entry by entry.
ExactIn(h, P) ==
    /\ \A q : q \in P <=> \E g \in Flows : q \in HeldIn(h, g)
    /\ \A f, g \in Flows : f # g => HeldIn(h, f) \cap HeldIn(h, g) = {}

\* The two readings agree, before and after a step.
LEMMA PortsPointwise ==
    /\ NatPortsExact <=> ExactIn(heap, ports)
    /\ NatPortsExact' <=> ExactIn(heap', ports')
<1>1. \A q : q \in UNION {HeldPorts(heap[f]) : f \in {g \in Flows : Live(g)}}
               <=> \E g \in Flows : q \in HeldIn(heap, g)
  BY Zenon DEF HeldIn, Live
<1>2. NatPortsExact <=> ExactIn(heap, ports)
  BY <1>1, Zenon DEF NatPortsExact, HeldIn, Live, ExactIn
<1>3. \A q : q \in UNION {HeldPorts(heap'[f]) : f \in {g \in Flows : heap'[g] # None}}
               <=> \E g \in Flows : q \in HeldIn(heap', g)
  BY Zenon DEF HeldIn
<1>4. NatPortsExact' <=> ExactIn(heap', ports')
  BY <1>3, Zenon DEF NatPortsExact, HeldIn, Live, ExactIn
<1> QED
  BY <1>2, <1>4, Zenon

\* NatPortsExact survives steps that change no holding,
LEMMA PortsKept ==
    ASSUME NatPortsExact, ports' = ports, \A g \in Flows : HeldIn(heap', g) = HeldIn(heap, g)
    PROVE  NatPortsExact'
<1>1. ExactIn(heap', ports')
  BY PortsPointwise, Zenon DEF ExactIn
<1> QED
  BY <1>1, PortsPointwise, Zenon

\* steps in which one flow gives back what it holds,
LEMMA PortsReleased ==
    ASSUME NatPortsExact, NEW f \in Flows, ports' = ports \ HeldIn(heap, f), HeldIn(heap', f) = {},
           \A g \in Flows \ {f} : HeldIn(heap', g) = HeldIn(heap, g)
    PROVE  NatPortsExact'
<1>1. ExactIn(heap', ports')
  <2> SUFFICES ASSUME NEW q PROVE q \in ports' <=> \E g \in Flows : q \in HeldIn(heap', g)
    BY PortsPointwise, Zenon DEF ExactIn
  <2>1. \A g \in Flows \ {f} : q \in HeldIn(heap, g) => q \notin HeldIn(heap, f)
    BY PortsPointwise, Zenon DEF ExactIn
  <2> QED
    BY <2>1, PortsPointwise, Zenon DEF ExactIn
<1> QED
  BY <1>1, PortsPointwise, Zenon

\* and steps in which a flow without a port takes a free one.
LEMMA PortsTaken ==
    ASSUME NatPortsExact, NEW f \in Flows, NEW q, q \notin ports, ports' = ports \cup {q},
           HeldIn(heap, f) = {}, HeldIn(heap', f) = {q},
           \A g \in Flows \ {f} : HeldIn(heap', g) = HeldIn(heap, g)
    PROVE  NatPortsExact'
<1>1. ExactIn(heap', ports')
  BY PortsPointwise DEF ExactIn
<1> QED
  BY <1>1, PortsPointwise, Zenon

\* What the NAT invariants need to know of a step that rewrites one live flow
\* and leaves the others, and how the packets changed.
LEMMA NatStep ==
    ASSUME TypeOK, MemorySafe, NatInv, NEW f \in Flows, NEW fl \in FlowValues,
           heap' = [heap EXCEPT ![f] = fl],
           fl.nat = "NETWORK_LOCAL" => "SRC_NAT" \in fl.flags,
           fl.flags = {} => fl.key["REPLY"] = dp_invert_flow_key(fl.key["ORG"]),
           Live(f) => fl.key["ORG"] = heap[f].key["ORG"],
           \A p \in Pkts : pkts'[p] # None =>
               \/ /\ pkts[p] # None /\ pkts'[p].flow = pkts[p].flow
                  /\ pkts'[p].dir = pkts[p].dir /\ pkts'[p].key = pkts[p].key
               \/ pkts'[p].flow = f /\ (pkts'[p].dir = "ORG" => pkts'[p].key = fl.key["ORG"])
    PROVE  NatInv'
<1>1. \A p \in Pkts : pkts'[p] # None /\ pkts'[p].dir = "ORG"
                         => pkts'[p].key = heap'[pkts'[p].flow].key["ORG"]
  <2> SUFFICES ASSUME NEW p \in Pkts, pkts'[p] # None, pkts'[p].dir = "ORG"
               PROVE  pkts'[p].key = heap'[pkts'[p].flow].key["ORG"]
    BY Zenon
  <2>1. CASE pkts'[p].flow = f /\ pkts'[p].key = fl.key["ORG"]
    BY <2>1, Zenon DEF TypeOK
  <2>2. CASE /\ pkts[p] # None /\ pkts'[p].flow = pkts[p].flow
             /\ pkts'[p].dir = pkts[p].dir /\ pkts'[p].key = pkts[p].key
    <3>1. pkts[p].flow \in Flows /\ Live(pkts[p].flow)
      BY <2>2, Reached, Zenon DEF MemorySafe, PacketFlowLive
    <3>2. pkts[p].key = heap[pkts[p].flow].key["ORG"]
      BY <2>2, Zenon DEF NatInv
    <3>3. heap'[f] = fl /\ \A g \in Flows \ {f} : heap'[g] = heap[g]
      BY FlowSet, Zenon
    <3>4. CASE pkts[p].flow = f
      BY <2>2, <3>1, <3>2, <3>3, <3>4, Zenon
    <3>5. CASE pkts[p].flow # f
      BY <2>2, <3>1, <3>2, <3>3, <3>5, Zenon
    <3> QED
      BY <3>4, <3>5, Zenon
  <2> QED
    BY <2>1, <2>2, Zenon
<1>2. ASSUME NEW g \in Flows, heap'[g] # None
      PROVE  /\ heap'[g].nat = "NETWORK_LOCAL" => "SRC_NAT" \in heap'[g].flags
             /\ heap'[g].flags = {} => heap'[g].key["REPLY"] = dp_invert_flow_key(heap'[g].key["ORG"])
  BY <1>2, Zenon DEF NatInv, TypeOK, Live
<1> QED
  BY <1>1, <1>2, Zenon DEF NatInv, Live

\* The step of NatBindingStable.
BindingKept ==
    \A f \in Flows : Live(f) /\ Live(f)' /\ heap[f].flags \cap NfFlags # {} => heap'[f].key = heap[f].key

NatAll == NatInv /\ NatPortsExact

\* The packets of a step: each is where it was, moved on, or left.
PacketsMove ==
    \A p \in Pkts : pkts'[p] # None =>
        /\ pkts[p] # None /\ pkts'[p].flow = pkts[p].flow
        /\ pkts'[p].dir = pkts[p].dir /\ pkts'[p].key = pkts[p].key

\* Steps that keep keys, marks and NAT type of the one flow they write,
LEMMA NatKept ==
    ASSUME TypeOK, MemorySafe, NatAll, NEW f \in Flows, heap[f] \in FlowValues, NEW fl \in FlowValues,
           heap' = [heap EXCEPT ![f] = fl], ports' = ports,
           fl.key = heap[f].key, fl.nat = heap[f].nat, heap[f].flags \subseteq fl.flags,
           \A p \in Pkts : pkts'[p] # None =>
               \/ /\ pkts[p] # None /\ pkts'[p].flow = pkts[p].flow
                  /\ pkts'[p].dir = pkts[p].dir /\ pkts'[p].key = pkts[p].key
               \/ pkts'[p].flow = f /\ (pkts'[p].dir = "ORG" => pkts'[p].key = fl.key["ORG"])
    PROVE  NatAll' /\ BindingKept
<1>1. Live(f)
  BY ConstantsAssumption, Zenon DEF Live
<1>2. /\ heap[f].nat = "NETWORK_LOCAL" => "SRC_NAT" \in heap[f].flags
      /\ heap[f].flags = {} => heap[f].key["REPLY"] = dp_invert_flow_key(heap[f].key["ORG"])
  BY <1>1, Zenon DEF NatAll, NatInv
<1>3. NatInv'
  BY <1>1, <1>2, NatStep, Zenon DEF NatAll
<1>4. \A g \in Flows : HeldIn(heap', g) = HeldIn(heap, g)
  <2>1. HeldPorts(fl) = HeldPorts(heap[f])
    BY Zenon DEF HeldPorts
  <2>2. heap'[f] = fl /\ fl # None /\ \A g \in Flows \ {f} : heap'[g] = heap[g]
    BY ConstantsAssumption, Zenon DEF TypeOK
  <2> QED
    BY <1>1, <2>1, <2>2 DEF HeldIn, Live
<1>5. NatPortsExact'
  BY <1>4, PortsKept, Zenon DEF NatAll
<1>6. BindingKept
  BY Zenon DEF BindingKept, TypeOK
<1> QED
  BY <1>3, <1>5, <1>6, Zenon DEF NatAll

\* steps that free a flow while no packet is under way,
LEMMA NatFreed ==
    ASSUME TypeOK, MemorySafe, NatAll, NEW f \in Flows, heap[f] \in FlowValues, dp_free_flow(f),
           pkts' = pkts, \A p \in Pkts : pkts[p] = None
    PROVE  NatAll' /\ BindingKept
<1>1. heap' = [heap EXCEPT ![f] = None] /\ ports' = ports \ HeldPorts(heap[f])
  BY Zenon DEF dp_free_flow
<1>2. /\ ports' = ports \ HeldIn(heap, f) /\ HeldIn(heap', f) = {}
      /\ \A g \in Flows \ {f} : HeldIn(heap', g) = HeldIn(heap, g)
  BY <1>1, ConstantsAssumption, Zenon DEF HeldIn, TypeOK
<1>3. NatPortsExact'
  BY <1>2, PortsReleased, Zenon DEF NatAll
<1>4. NatInv'
  BY <1>1, Zenon DEF NatAll, NatInv, Live, TypeOK
<1>5. BindingKept
  BY <1>1, Zenon DEF BindingKept, Live, TypeOK
<1> QED
  BY <1>3, <1>4, <1>5, Zenon DEF NatAll

\* steps that drop references,
LEMMA NatRefDec ==
    ASSUME TypeOK, MemorySafe, NatAll, NEW f \in Flows, heap[f] \in FlowValues, NEW fl \in FlowValues,
           NEW n \in Int, fl.key = heap[f].key, fl.nat = heap[f].nat, fl.flags = heap[f].flags,
           dp_ref_dec(f, fl, n), pkts' = pkts, \A p \in Pkts : pkts[p] = None
    PROVE  NatAll' /\ BindingKept
<1>1. CASE fl.ref = n
  BY <1>1, NatFreed, Zenon DEF dp_ref_dec
<1>2. CASE fl.ref # n
  <2> DEFINE less == [fl EXCEPT !.ref = @ - n]
  <2>1. /\ less \in FlowValues /\ less.key = heap[f].key
        /\ less.nat = heap[f].nat /\ less.flags = heap[f].flags
    BY DEF FlowValues
  <2> HIDE DEF less
  <2>2. heap' = [heap EXCEPT ![f] = less] /\ ports' = ports
    BY <1>2, Zenon DEF dp_ref_dec, less
  <2> QED
    BY <2>1, <2>2, NatKept, Zenon
<1> QED
  BY <1>1, <1>2, Zenon

\* steps that leave flows and ports alone,
LEMMA NatUnchanged ==
    ASSUME TypeOK, MemorySafe, NatAll, heap' = heap, ports' = ports, PacketsMove
    PROVE  NatAll' /\ BindingKept
<1>1. NatInv'
  BY Zenon DEF NatAll, NatInv, Live, PacketsMove
<1>2. NatPortsExact'
  BY PortsKept, Zenon DEF NatAll
<1> QED
  BY <1>1, <1>2, Zenon DEF NatAll, BindingKept

\* and the first packet of a flow, which may translate it.
LEMMA NatFirst ==
    ASSUME TypeOK, MemorySafe, NatAll, NEW p \in Pkts, pkts[p] # None, FirstPacket(pkts[p]),
           NEW fl \in FlowValues, heap' = [heap EXCEPT ![pkts[p].flow] = fl], PacketsMove,
           fl.key["ORG"] = heap[pkts[p].flow].key["ORG"],
           fl.nat = "NETWORK_LOCAL" => "SRC_NAT" \in fl.flags,
           fl.flags = {} => fl.key = heap[pkts[p].flow].key,
           \/ HeldPorts(fl) = {} /\ ports' = ports
           \/ \E q : HeldPorts(fl) = {q} /\ q \notin ports /\ ports' = ports \cup {q}
    PROVE  NatAll' /\ BindingKept
<1> DEFINE f == pkts[p].flow
<1>1. f \in Flows /\ heap[f] \in FlowValues /\ Live(f) /\ heap[f].flags = {}
  BY Reached, Zenon DEF FirstPacket, MemorySafe, PacketFlowLive
<1>2. HeldIn(heap, f) = {}
  BY <1>1, Zenon DEF HeldIn, HeldPorts, NatAll, NatInv
<1>3. /\ HeldIn(heap', f) = HeldPorts(fl)
      /\ \A g \in Flows \ {f} : HeldIn(heap', g) = HeldIn(heap, g)
  BY <1>1, ConstantsAssumption, Zenon DEF HeldIn, TypeOK
<1>4. NatPortsExact'
  <2>1. CASE HeldPorts(fl) = {} /\ ports' = ports
    BY <1>1, <1>2, <1>3, <2>1, PortsKept, Zenon DEF NatAll
  <2>2. CASE \E q : HeldPorts(fl) = {q} /\ q \notin ports /\ ports' = ports \cup {q}
    BY <1>1, <1>2, <1>3, <2>2, PortsTaken, Zenon DEF NatAll
  <2> QED
    BY <2>1, <2>2, Zenon
<1>5. fl.flags = {} => fl.key["REPLY"] = dp_invert_flow_key(fl.key["ORG"])
  BY <1>1, Zenon DEF NatAll, NatInv
<1>6. NatInv'
  BY <1>1, <1>5, NatStep, Zenon DEF NatAll, PacketsMove
<1>7. BindingKept
  BY <1>1, Zenon DEF BindingKept, TypeOK
<1> QED
  BY <1>4, <1>6, <1>7, Zenon DEF NatAll

\* Conntrack: a known flow keeps its binding, and a new flow, in memory that was
\* free, holds no port.
LEMMA CntrackNat ==
    ASSUME TypeOK, MemorySafe, NatAll, NEW p \in Pkts, dp_cntrack_handle(p)
    PROVE  NatAll' /\ BindingKept
<1>1. PICK a \in dp_build_flow_key, flag \in TcpFlags \cup {None} :
        \/ KnownFlow(p, a, flag)
        \/ flow_table_insert_entry(p, a, flag)
        \/ InsertFails(a)
  BY Zenon DEF dp_cntrack_handle
<1>2. a.key \in Keys /\ a.port \in Ports
  BY ArrivalType, Zenon
<1>3. CASE KnownFlow(p, a, flag)
  <2> DEFINE f == LookedUp(a.key)
             dir == dp_set_pkt_flow_direction(a.key, heap[f])
             found == dp_set_flow_offload_flag(heap[f], dir, a.port)
             fl == Touched(found, a, dir, flag)
             pk == [at |-> "dnat", key |-> a.key, port |-> a.port,
                    flow |-> f, dir |-> dir, off |-> fl.off[dir]]
  <2>1. f \in Flows /\ heap[f] \in FlowValues
    BY <1>2, <1>3, Reached, Zenon DEF KnownFlow
  <2>2. dir \in Dirs /\ (dir = "ORG" => a.key = heap[f].key["ORG"])
    BY Zenon DEF dp_set_pkt_flow_direction, Dirs
  <2>3. found \in FlowValues /\ SameCore(found, heap[f])
    BY <1>2, <2>1, <2>2, OffloadFlag, Zenon
  <2>4. fl \in FlowValues /\ SameCore(fl, heap[f])
    <3> HIDE DEF f, dir, found
    <3>1. fl \in FlowValues /\ SameCore(fl, found)
      BY <2>2, <2>3, TouchedCore, Zenon
    <3> HIDE DEF fl
    <3> QED
      BY <2>3, <3>1, Zenon DEF SameCore
  <2>5. /\ heap' = [heap EXCEPT ![f] = fl] /\ ports' = ports
        /\ pkts' = [pkts EXCEPT ![p] = pk]
    BY <1>3, Zenon DEF KnownFlow, Forward
  <2>6. pk.flow = f /\ pk.dir = dir /\ pk.key = a.key
    BY Zenon
  <2> HIDE DEF f, dir, found, fl, pk
  <2>7. \A q \in Pkts : q # p => pkts'[q] = pkts[q]
    BY <2>5, Zenon DEF TypeOK
  <2>8. pkts'[p] = pk
    BY <2>5, Zenon DEF TypeOK
  <2>9. \A q \in Pkts : pkts'[q] # None =>
          \/ /\ pkts[q] # None /\ pkts'[q].flow = pkts[q].flow
             /\ pkts'[q].dir = pkts[q].dir /\ pkts'[q].key = pkts[q].key
          \/ pkts'[q].flow = f /\ (pkts'[q].dir = "ORG" => pkts'[q].key = fl.key["ORG"])
    BY <2>2, <2>4, <2>6, <2>7, <2>8, Zenon DEF SameCore
  <2> QED
    BY <2>1, <2>4, <2>5, <2>9, NatKept, Zenon DEF SameCore
<1>4. CASE flow_table_insert_entry(p, a, flag)
  <2> DEFINE fl == Touched(NewFlow(a), a, "ORG", flag)
             new(f) == [at |-> "dnat", key |-> a.key, port |-> a.port,
                        flow |-> f, dir |-> "ORG", off |-> fl.off["ORG"]]
  <2>1. PICK f \in Flows :
          /\ ~Live(f)
          /\ heap' = [heap EXCEPT ![f] = fl] /\ ports' = ports
          /\ pkts' = [pkts EXCEPT ![p] = new(f)]
    BY <1>4, Zenon DEF flow_table_insert_entry, Forward
  <2>2. fl \in FlowValues /\ SameCore(fl, NewFlow(a))
    BY NewFlowType, TouchedCore, Zenon DEF Dirs
  <2>3. /\ fl.key["ORG"] = a.key /\ fl.key["REPLY"] = dp_invert_flow_key(a.key)
        /\ fl.nat = "NONE"
    BY <2>2, Zenon DEF SameCore, NewFlow, Dirs
  <2>4. new(f).flow = f /\ new(f).key = a.key
    BY Zenon
  <2> DEFINE pk == new(f)
  <2> HIDE DEF fl, new
  <2>5. pkts'[p] = pk /\ \A q \in Pkts : q # p => pkts'[q] = pkts[q]
    BY <2>1, Zenon DEF TypeOK
  <2>6. NatInv'
    <3>1. \A q \in Pkts : pkts'[q] # None =>
            \/ /\ pkts[q] # None /\ pkts'[q].flow = pkts[q].flow
               /\ pkts'[q].dir = pkts[q].dir /\ pkts'[q].key = pkts[q].key
            \/ pkts'[q].flow = f /\ (pkts'[q].dir = "ORG" => pkts'[q].key = fl.key["ORG"])
      BY <2>3, <2>4, <2>5, Zenon
    <3> QED
      BY <2>1, <2>2, <2>3, <3>1, NatStep, Zenon DEF NatAll
  <2>7. \A g \in Flows : HeldIn(heap', g) = HeldIn(heap, g)
    BY <2>1, <2>2, <2>3, ConstantsAssumption, Zenon DEF HeldIn, HeldPorts, Live, TypeOK
  <2>8. NatPortsExact'
    BY <2>1, <2>7, PortsKept, Zenon DEF NatAll
  <2>9. BindingKept
    BY <2>1, Zenon DEF BindingKept, TypeOK
  <2> QED
    BY <2>6, <2>8, <2>9, Zenon DEF NatAll
<1>5. CASE InsertFails(a)
  BY <1>5, NatUnchanged, Zenon DEF InsertFails, PacketsMove
<1> QED
  BY <1>1, <1>3, <1>4, <1>5, Zenon

\* A packet that moves on or leaves keeps what it carries.
LEMMA PacketMoves ==
    ASSUME TypeOK, MemorySafe, NEW p \in Pkts, pkts[p] # None, NEW node \in {"dnat", "snat", "tx"},
           pkts' = [pkts EXCEPT ![p].at = node] \/ pkts' = [pkts EXCEPT ![p] = None]
    PROVE  PacketsMove
  BY Reached DEF PacketsMove, TypeOK, Packets

\* The dnat node: what it rewrites was unmarked, and holds no port afterwards.
LEMMA DnatNat ==
    ASSUME TypeOK, MemorySafe, NatAll, NEW p \in Pkts, dnat_node(p)
    PROVE  NatAll' /\ BindingKept
<1> DEFINE f == pkts[p].flow
<1>1. /\ pkts[p] # None /\ pkts[p] \in Packets /\ f \in Flows
      /\ heap[f] \in FlowValues /\ Live(f)
  BY Reached, Zenon DEF dnat_node, MemorySafe, PacketFlowLive
<1>2. FirstPacket(pkts[p]) => heap[f].flags = {} /\ heap[f].nat # "NETWORK_LOCAL"
  BY <1>1, Zenon DEF FirstPacket, NatAll, NatInv
<1>3. CASE /\ FirstPacket(pkts[p])
           /\ heap' = [heap EXCEPT ![f].nat = "NETWORK_NEIGH"]
           /\ pkts' = [pkts EXCEPT ![p].at = "tx"]
           /\ UNCHANGED ports
  <2> DEFINE fl == [heap[f] EXCEPT !.nat = "NETWORK_NEIGH"]
  <2>1. fl \in FlowValues /\ fl.key = heap[f].key /\ fl.nat = "NETWORK_NEIGH"
    BY <1>1, Zenon DEF FlowValues, NatTypes
  <2>2. heap' = [heap EXCEPT ![f] = fl]
    BY <1>1, <1>3, Zenon DEF TypeOK
  <2> HIDE DEF fl
  <2>3. HeldPorts(fl) = {}
    BY <2>1, Zenon DEF HeldPorts
  <2>4. PacketsMove
    BY <1>1, <1>3, PacketMoves, Zenon
  <2> QED
    BY <1>1, <1>3, <2>1, <2>2, <2>3, <2>4, NatFirst, Zenon
<1>4. CASE Drop(p) \/ MoveTo(p, "tx") \/ MoveTo(p, "snat")
  <2>1. PacketsMove
    BY <1>1, <1>4, PacketMoves, Zenon DEF Drop, MoveTo
  <2> QED
    BY <1>4, <2>1, NatUnchanged, Zenon DEF Drop, MoveTo
<1>5. CASE \E v \in VMs :
             /\ FirstPacket(pkts[p])
             /\ ReplaceReplyKey(p, f, [heap[f] EXCEPT !.flags = @ \cup {"DST_NAT"},
                                                      !.key["REPLY"].src = v], "snat")
             /\ UNCHANGED ports
  <2>1. PICK v \in VMs :
             /\ FirstPacket(pkts[p])
             /\ ReplaceReplyKey(p, f, [heap[f] EXCEPT !.flags = @ \cup {"DST_NAT"},
                                                      !.key["REPLY"].src = v], "snat")
             /\ UNCHANGED ports
    BY <1>5, Zenon
  <2> DEFINE fl == [heap[f] EXCEPT !.flags = @ \cup {"DST_NAT"}, !.key["REPLY"].src = v]
  <2>2. [heap[f].key["REPLY"] EXCEPT !.src = v] \in Keys
    <3>1. heap[f].key["REPLY"] \in Keys
      BY <1>1, Zenon DEF FlowValues, Dirs
    <3>2. v \in Endpoints
      BY Zenon DEF Endpoints
    <3> QED
      BY <3>1, <3>2, SourceType, Zenon
  <2>3. [heap[f].key EXCEPT !["REPLY"] = [heap[f].key["REPLY"] EXCEPT !.src = v]] \in [Dirs -> Keys]
    BY <1>1, <2>2, Zenon DEF FlowValues, Dirs
  <2>4. /\ fl \in FlowValues /\ fl.key["ORG"] = heap[f].key["ORG"]
        /\ fl.nat = heap[f].nat /\ fl.flags # {}
    BY <1>1, <2>3, Zenon DEF FlowValues, Dirs, NfFlags
  <2> HIDE DEF fl
  <2>5. /\ ReplaceReplyKey(p, f, fl, "snat") /\ ports' = ports
        /\ heap' = [heap EXCEPT ![f] = fl]
    BY <2>1, Zenon DEF fl, ReplaceReplyKey
  <2>6. PacketsMove
    BY <1>1, <2>5, PacketMoves, Zenon DEF ReplaceReplyKey
  <2>7. HeldPorts(fl) = {} /\ fl.nat # "NETWORK_LOCAL"
    BY <1>2, <2>1, <2>4, Zenon DEF HeldPorts
  <2> QED
    BY <1>1, <2>1, <2>4, <2>5, <2>6, <2>7, NatFirst, Zenon
<1> QED
  BY <1>3, <1>4, <1>5, Zenon DEF dnat_node

\* The snat node: the port it takes was free, and it is the one the rewritten
\* reply key stands for.
LEMMA SnatNat ==
    ASSUME TypeOK, MemorySafe, NatAll, NEW p \in Pkts, snat_node(p)
    PROVE  NatAll' /\ BindingKept
<1> DEFINE pk == pkts[p]
           f == pk.flow
           marked(n, t) == [heap[f] EXCEPT !.flags = @ \cup {"SRC_NAT"}, !.nat = t,
                                           !.key["REPLY"].dst = n]
           port(n) == [nat |-> n, dst |-> pk.key.dst, proto |-> pk.key.proto]
<1>1. /\ pk # None /\ pk \in Packets /\ f \in Flows
      /\ heap[f] \in FlowValues /\ Live(f)
  BY Reached, Zenon DEF snat_node, MemorySafe, PacketFlowLive
<1>2. ASSUME NEW n \in Endpoints, NEW t \in NatTypes
      PROVE  /\ marked(n, t) \in FlowValues /\ marked(n, t).key["ORG"] = heap[f].key["ORG"]
             /\ marked(n, t).key["REPLY"] = [heap[f].key["REPLY"] EXCEPT !.dst = n]
             /\ marked(n, t).nat = t /\ "SRC_NAT" \in marked(n, t).flags
  <2>1. [heap[f].key["REPLY"] EXCEPT !.dst = n] \in Keys
    BY <1>1 DEF FlowValues, Keys, Dirs
  <2>2. [heap[f].key EXCEPT !["REPLY"] = [heap[f].key["REPLY"] EXCEPT !.dst = n]] \in [Dirs -> Keys]
    BY <1>1, <2>1, Zenon DEF FlowValues, Dirs
  <2> QED
    BY <1>1, <2>2, Zenon DEF FlowValues, Dirs, NfFlags
<1>3. ASSUME NEW fl \in FlowValues, ReplaceReplyKey(p, f, fl, "tx")
      PROVE  heap' = [heap EXCEPT ![f] = fl] /\ PacketsMove
  BY <1>1, <1>3, PacketMoves, Zenon DEF ReplaceReplyKey
<1>4. CASE MoveTo(p, "tx") \/ Drop(p)
  <2>1. PacketsMove
    BY <1>1, <1>4, PacketMoves, Zenon DEF Drop, MoveTo
  <2> QED
    BY <1>4, <2>1, NatUnchanged, Zenon DEF Drop, MoveTo
<1>5. CASE \E n \in Nats : /\ FirstPacket(pk) /\ port(n) \notin ports
                           /\ ports' = ports \cup {port(n)}
                           /\ ReplaceReplyKey(p, f, marked(n, "NETWORK_LOCAL"), "tx")
  <2>1. PICK n \in Nats : /\ FirstPacket(pk) /\ port(n) \notin ports
                          /\ ports' = ports \cup {port(n)}
                          /\ ReplaceReplyKey(p, f, marked(n, "NETWORK_LOCAL"), "tx")
    BY <1>5, Zenon
  <2> DEFINE fl == marked(n, "NETWORK_LOCAL")
  <2>2. /\ fl \in FlowValues /\ fl.key["ORG"] = heap[f].key["ORG"]
        /\ fl.key["REPLY"] = [heap[f].key["REPLY"] EXCEPT !.dst = n]
        /\ fl.nat = "NETWORK_LOCAL" /\ "SRC_NAT" \in fl.flags
    BY <1>2, Zenon DEF Endpoints, NatTypes
  <2>3. pk.key = heap[f].key["ORG"] /\ heap[f].key["REPLY"] = dp_invert_flow_key(pk.key)
    BY <1>1, <2>1, Zenon DEF FirstPacket, NatAll, NatInv
  <2> HIDE DEF marked
  <2>4. pk.key \in Keys
    BY <1>1, Zenon DEF Packets
  <2>5. HeldPorts(fl) = {port(n)}
    BY <2>2, <2>3, <2>4, Zenon DEF HeldPorts, dp_invert_flow_key, Keys
  <2>6. heap' = [heap EXCEPT ![f] = fl] /\ PacketsMove
    BY <1>3, <2>1, <2>2, Zenon
  <2> HIDE DEF fl, port
  <2> QED
    BY <1>1, <2>1, <2>2, <2>5, <2>6, NatFirst, Zenon
<1>6. CASE /\ FirstPacket(pk) /\ SnatOf[pk.key.src] \in Vips
           /\ ReplaceReplyKey(p, f, marked(SnatOf[pk.key.src], "VIP"), "tx")
           /\ UNCHANGED ports
  <2> DEFINE fl == marked(SnatOf[pk.key.src], "VIP")
  <2>1. /\ fl \in FlowValues /\ fl.key["ORG"] = heap[f].key["ORG"]
        /\ fl.nat = "VIP" /\ "SRC_NAT" \in fl.flags
    BY <1>2, <1>6, Zenon DEF Endpoints, NatTypes
  <2> HIDE DEF marked
  <2>2. heap' = [heap EXCEPT ![f] = fl] /\ PacketsMove /\ ports' = ports
    BY <1>3, <1>6, <2>1, Zenon
  <2> HIDE DEF fl
  <2>3. HeldPorts(fl) = {}
    BY <2>1, Zenon DEF HeldPorts
  <2> QED
    BY <1>1, <1>6, <2>1, <2>2, <2>3, NatFirst, Zenon
<1> QED
  BY <1>4, <1>5, <1>6, Zenon DEF snat_node

\* The tx node adds references and marks, and no more.
LEMMA TxNat ==
    ASSUME TypeOK, MemorySafe, NatAll, NEW p \in Pkts, tx_node_process(p)
    PROVE  NatAll' /\ BindingKept
<1> DEFINE pk == pkts[p]
           f == pk.flow
<1>1. /\ pk # None /\ ports' = ports
      /\ pkts' = [pkts EXCEPT ![p] = None]
      /\ pk \in Packets /\ f \in Flows /\ heap[f] \in FlowValues
  BY Reached, Zenon DEF tx_node_process
<1>2. /\ Sent(pk) \in FlowValues /\ Sent(pk).key = heap[f].key
      /\ Sent(pk).nat = heap[f].nat /\ heap[f].flags \subseteq Sent(pk).flags
  BY <1>1, SentType, Zenon
<1>3. PacketsMove
  BY <1>1, PacketMoves, Zenon
<1>4. CASE heap' = [heap EXCEPT ![f] = Sent(pk)]
  <2> DEFINE fl == Sent(pk)
  <2>1. /\ fl \in FlowValues /\ fl.key = heap[f].key
        /\ fl.nat = heap[f].nat /\ heap[f].flags \subseteq fl.flags
        /\ heap' = [heap EXCEPT ![f] = fl]
    BY <1>2, <1>4, Zenon
  <2>2. f \in Flows /\ heap[f] \in FlowValues /\ ports' = ports
    BY <1>1, Zenon
  <2> HIDE DEF fl, f, pk
  <2> QED
    BY <1>3, <2>1, <2>2, NatKept, Zenon DEF PacketsMove
<1>5. CASE \E C \in SUBSET Ctxs : heap' = [heap EXCEPT ![f] = [Sent(pk) EXCEPT !.ref = @ + Cardinality(C)]]
  <2>1. PICK C \in SUBSET Ctxs :
          heap' = [heap EXCEPT ![f] = [Sent(pk) EXCEPT !.ref = @ + Cardinality(C)]]
    BY <1>5, Zenon
  <2> DEFINE fl == [Sent(pk) EXCEPT !.ref = @ + Cardinality(C)]
  <2>2. Cardinality(C) \in Int
    BY RulesFinite
  <2>3. /\ fl \in FlowValues /\ fl.key = heap[f].key
        /\ fl.nat = heap[f].nat /\ heap[f].flags \subseteq fl.flags
    BY <1>2, <2>2 DEF FlowValues
  <2> HIDE DEF fl
  <2>4. heap' = [heap EXCEPT ![f] = fl]
    BY <2>1, Zenon DEF fl
  <2>5. f \in Flows /\ heap[f] \in FlowValues /\ ports' = ports
    BY <1>1, Zenon
  <2> HIDE DEF f, pk
  <2> QED
    BY <1>3, <2>3, <2>4, <2>5, NatKept, Zenon DEF PacketsMove
<1> QED
  BY <1>4, <1>5, Zenon DEF tx_node_process, dp_offload_handler

\* An iteration gives the port of a flow back with its last reference.
LEMMA VisitFlowNat ==
    ASSUME TypeOK, MemorySafe, NatAll, NEW f \in Flows, heap[f] \in FlowValues,
           NEW C \in SUBSET Ctxs, NEW out \in BOOLEAN, VisitFlow(f, C, out),
           pkts' = pkts, \A p \in Pkts : pkts[p] = None
    PROVE  NatAll' /\ BindingKept
<1>1. CASE dp_free_flow(f)
  BY <1>1, NatFreed, Zenon
<1>2. CASE dp_ref_dec(f, [heap[f] EXCEPT !.aged = @ \/ out], Cardinality(C) + (IF out THEN 1 ELSE 0))
  <2> DEFINE fl == [heap[f] EXCEPT !.aged = @ \/ out]
             n == Cardinality(C) + (IF out THEN 1 ELSE 0)
  <2>1. /\ fl \in FlowValues /\ fl.key = heap[f].key
        /\ fl.nat = heap[f].nat /\ fl.flags = heap[f].flags
    BY Zenon DEF FlowValues
  <2>2. n \in Int
    BY RulesFinite
  <2> HIDE DEF fl, n
  <2>3. dp_ref_dec(f, fl, n)
    BY <1>2, Zenon DEF fl, n
  <2> QED
    BY <2>1, <2>2, <2>3, NatRefDec, Zenon
<1> QED
  BY <1>1, <1>2, Zenon DEF VisitFlow

\* Every step keeps the ports exact and the bindings of translated flows.
LEMMA StepNat == TypeOK /\ MemorySafe /\ NatAll /\ [Next]_vars => NatAll' /\ BindingKept
<1> SUFFICES ASSUME TypeOK, MemorySafe, NatAll, [Next]_vars PROVE NatAll' /\ BindingKept
  BY Zenon
<1>1. ASSUME NEW p \in Pkts,
             \/ dp_cntrack_handle(p) \/ dnat_node(p) \/ ipv4_lookup_node(p)
             \/ snat_node(p) \/ tx_node_process(p)
      PROVE  NatAll' /\ BindingKept
  <2>1. CASE ipv4_lookup_node(p)
    <3>1. PacketsMove
      BY <2>1, PacketMoves, Zenon DEF ipv4_lookup_node, Drop
    <3> QED
      BY <2>1, <3>1, NatUnchanged, Zenon DEF ipv4_lookup_node, Drop
  <2> QED
    BY <1>1, <2>1, CntrackNat, DnatNat, SnatNat, TxNat, Zenon
<1>2. ASSUME NEW f \in Flows, TimeOut(f) PROVE NatAll' /\ BindingKept
  <2> DEFINE fl == [heap[f] EXCEPT !.idle = TRUE]
  <2>1. heap[f] \in FlowValues
    BY <1>2, Zenon DEF TimeOut, Live, TypeOK
  <2>2. /\ fl \in FlowValues /\ fl.key = heap[f].key
        /\ fl.nat = heap[f].nat /\ fl.flags = heap[f].flags
    BY <2>1, Zenon DEF FlowValues
  <2>3. heap' = [heap EXCEPT ![f] = fl] /\ ports' = ports /\ pkts' = pkts
    BY <1>2, Zenon DEF TimeOut
  <2> HIDE DEF fl
  <2> QED
    BY <2>1, <2>2, <2>3, NatKept, Zenon
<1>3. ASSUME NEW c \in Ctxs, dp_destroy_rte_flow_agectx(c) PROVE NatAll' /\ BindingKept
  <2>1. ctx[c].flow \in Flows /\ pkts' = pkts /\ \A p \in Pkts : pkts[p] = None
    BY <1>3, Zenon DEF dp_destroy_rte_flow_agectx, TypeOK, AgeCtxs, WalkDone
  <2>2. CASE Live(ctx[c].flow) /\ dp_ref_dec(ctx[c].flow, heap[ctx[c].flow], 1)
    <3>1. heap[ctx[c].flow] \in FlowValues
      BY <2>1, <2>2, Zenon DEF Live, TypeOK
    <3> QED
      BY <2>1, <2>2, <3>1, NatRefDec
  <2>3. CASE UNCHANGED <<heap, ports>>
    BY <2>1, <2>3, NatUnchanged, Zenon DEF PacketsMove
  <2> QED
    BY <1>3, <2>2, <2>3, Zenon DEF dp_destroy_rte_flow_agectx
<1>4. ASSUME NEW k \in Keys, VisitEntry(k) PROVE NatAll' /\ BindingKept
  <2>1. /\ pkts' = pkts /\ \A p \in Pkts : pkts[p] = None
        /\ table[k] \in Flows /\ heap[table[k]] \in FlowValues
    BY <1>4, Reached, Zenon DEF VisitEntry, MemorySafe, ScanOK
  <2>2. CASE \E C \in SUBSET Stored(table[k]), out \in BOOLEAN : VisitFlow(table[k], C, out)
    <3>1. PICK C \in SUBSET Stored(table[k]), out \in BOOLEAN : VisitFlow(table[k], C, out)
      BY <2>2, Zenon
    <3>2. C \in SUBSET Ctxs
      BY RulesFinite, Zenon
    <3> QED
      BY <2>1, <3>1, <3>2, VisitFlowNat, Zenon
  <2>3. CASE UNCHANGED <<heap, ports>>
    BY <2>1, <2>3, NatUnchanged, Zenon DEF PacketsMove
  <2> QED
    BY <1>4, <2>2, <2>3, VisitEntryCases, Zenon
<1>5. CASE \/ \E req \in Requests \cup {AgeRequest} : StartScan(req)
           \/ FinishScan \/ graph_main_loop \/ UNCHANGED vars
  BY <1>5, NatUnchanged, Zenon DEF StartScan, FinishScan, graph_main_loop, vars, PacketsMove
<1> QED
  BY <1>1, <1>2, <1>3, <1>4, <1>5, Zenon DEF Next

\* With no flow no port is held.
LEMMA InitNat == Init => NatAll
  BY Zenon DEF Init, NatAll, NatInv, NatPortsExact, Live

\* For every configuration and whatever fails: a portoverload entry exists exactly
\* as long as the one flow that took it (allocated in the snat node, given back by
\* dp_free_flow from the flow's reply key).
THEOREM NatPortsNeverLeak == Spec => []NatPortsExact
<1>1. Spec => [](TypeOK /\ MemorySafe /\ NatAll)
  BY InitSafe, StepSafe, InitNat, StepNat, PTL DEF Spec
<1>2. NatAll => NatPortsExact
  BY Zenon DEF NatAll
<1> QED
  BY <1>1, <1>2, PTL

\* For every configuration: no later packet, failure or second node changes the
\* keys of a flow once it is translated.
THEOREM NatBindingNeverChanges == Spec => NatBindingStable
<1>1. Spec => [](TypeOK /\ MemorySafe /\ NatAll)
  BY InitSafe, StepSafe, InitNat, StepNat, PTL DEF Spec
<1>2. TypeOK /\ MemorySafe /\ NatAll /\ [Next]_vars
        => [\A f \in Flows : Live(f) /\ Live(f)' /\ heap[f].flags \cap NfFlags # {}
                => heap'[f].key = heap[f].key]_vars
  BY StepNat, Zenon DEF BindingKept
<1> QED
  BY <1>1, <1>2, PTL DEF Spec, NatBindingStable

-----------------------------------------------------------------------------
\* The shapes a step can have, as far as keys, entries and references go.

OthersKept(f) == \A g \in Flows \ {f} : heap'[g] = heap[g]

\* No entry appears or disappears, and flows keep their keys and NAT type,
KeysKept ==
    /\ table' = table
    /\ \A g \in Flows : /\ Live(g)' <=> Live(g)
                        /\ Live(g) => heap'[g].key = heap[g].key /\ heap'[g].nat = heap[g].nat

\* or a packet that finds no entry starts a flow,
Inserted(f, a) ==
    /\ ~Live(f) /\ heap'[f] # None /\ OthersKept(f)
    /\ table[a.key] = None
    /\ table' = [table EXCEPT ![a.key] = f, ![dp_invert_flow_key(a.key)] = f]
    /\ heap'[f].key["ORG"] = a.key /\ heap'[f].key["REPLY"] = dp_invert_flow_key(a.key)
    /\ heap'[f].nat = "NONE"

\* or a flow goes with the entries of its two keys,
Freed(f) ==
    /\ Live(f) /\ heap'[f] = None /\ OthersKept(f)
    /\ table' = Without(table, KeysOf(heap[f]))

\* or an unmarked flow is relayed, or gets another reply key.
Relayed(f) ==
    /\ heap[f].key["ORG"].dst \in NeighNats
    /\ heap'[f].key = heap[f].key /\ heap'[f].nat = "NETWORK_NEIGH"

DstTranslated(f) ==
    /\ heap[f].key["ORG"].dst \in Vips
    /\ \E v \in VMs : SnatOf[v] = heap[f].key["ORG"].dst
    /\ heap'[f].key["REPLY"].vnf = heap[f].key["ORG"].vnf
    /\ heap'[f].nat = heap[f].nat

SrcTranslated(f) ==
    LET org == heap[f].key["ORG"]
    IN  /\ org.src \in VMs /\ org.dst \in Exts /\ SnatOf[org.src] # "none"
        /\ heap'[f].key["REPLY"].src = org.dst
        /\ \/ heap'[f].nat = "VIP"
           \/ heap'[f].nat = "NETWORK_LOCAL" /\ org.vnf = "NAT"

Rekeyed(f) ==
    /\ Live(f) /\ heap'[f] # None /\ OthersKept(f)
    /\ heap'[f].key["ORG"] = heap[f].key["ORG"]
    /\ \A k \in Keys : \/ table'[k] = table[k]
                       \/ k \in {heap[f].key["REPLY"], heap'[f].key["REPLY"]}
    /\ Relayed(f) \/ DstTranslated(f) \/ SrcTranslated(f)

Shape ==
    \/ KeysKept
    \/ \E f \in Flows : Freed(f) \/ Rekeyed(f) \/ \E a \in dp_build_flow_key : Inserted(f, a)

\* Rules and references stay, and a new flow has the one of the table.
RefsKept ==
    /\ ctx' = ctx
    /\ \A g \in Flows :
        /\ Live(g) => Live(g)' /\ heap'[g].ref = heap[g].ref /\ heap'[g].aged = heap[g].aged
        /\ Live(g)' /\ ~Live(g) => heap'[g].ref = 1 /\ heap'[g].aged = FALSE

\* Without offloading, no step marks a flow or a packet for it.
OffKept ==
    ~offload_mode_enabled => \A g \in Flows : Live(g)' =>
        \A d \in Dirs : \/ heap'[g].off[d] = "NON_OFFLOAD"
                        \/ Live(g) /\ heap'[g].off[d] = heap[g].off[d]

\* A packet carries on what it carried, or has just come in.
PacketsCarry ==
    \A q \in Pkts : pkts'[q] # None =>
        \/ /\ pkts[q] # None /\ pkts'[q].port = pkts[q].port
           /\ pkts'[q].key = pkts[q].key /\ pkts'[q].off = pkts[q].off
        \/ /\ [port |-> pkts'[q].port, key |-> pkts'[q].key] \in dp_build_flow_key
           /\ pkts'[q].flow \in Flows /\ heap'[pkts'[q].flow] # None /\ pkts'[q].dir \in Dirs
           /\ pkts'[q].off = heap'[pkts'[q].flow].off[pkts'[q].dir]

\* A write to one live flow that keeps its keys, NAT type and offload state.
LEMMA WriteKeeps ==
    ASSUME TypeOK, NEW f \in Flows, heap[f] \in FlowValues, NEW fl \in FlowValues,
           heap' = [heap EXCEPT ![f] = fl], fl.key = heap[f].key, fl.nat = heap[f].nat,
           ~offload_mode_enabled => fl.off = heap[f].off
    PROVE  /\ table' = table => KeysKept
           /\ OffKept
           /\ ctx' = ctx /\ fl.ref = heap[f].ref /\ fl.aged = heap[f].aged => RefsKept
<1>1. heap'[f] = fl /\ \A g \in Flows \ {f} : heap'[g] = heap[g]
  BY FlowSet, Zenon
<1>2. Live(f) /\ Live(f)' /\ \A g \in Flows \ {f} : Live(g)' <=> Live(g)
  BY <1>1, ConstantsAssumption, Zenon DEF Live
<1>3. table' = table => KeysKept
  BY <1>1, <1>2, Zenon DEF KeysKept
<1>4. OffKept
  BY <1>1, <1>2, Zenon DEF OffKept
<1>5. ctx' = ctx /\ fl.ref = heap[f].ref /\ fl.aged = heap[f].aged => RefsKept
  BY <1>1, <1>2, Zenon DEF RefsKept
<1> QED
  BY <1>3, <1>4, <1>5, Zenon

\* A step that writes no flow.
LEMMA NoWriteKeeps ==
    ASSUME heap' = heap
    PROVE  /\ table' = table => KeysKept
           /\ OffKept
           /\ ctx' = ctx => RefsKept
  BY Zenon DEF KeysKept, OffKept, RefsKept, Live

\* A packet that moves on or leaves, when the others stay.
LEMMA PacketCarries ==
    ASSUME TypeOK, MemorySafe, NEW p \in Pkts, pkts[p] # None, NEW node \in {"dnat", "snat", "tx"},
           pkts' = [pkts EXCEPT ![p].at = node] \/ pkts' = [pkts EXCEPT ![p] = None]
    PROVE  PacketsCarry
<1>1. pkts[p] \in Packets
  BY Reached, Zenon
<1>2. ASSUME NEW q \in Pkts, pkts'[q] # None
      PROVE  /\ pkts[q] # None /\ pkts'[q].port = pkts[q].port
             /\ pkts'[q].key = pkts[q].key /\ pkts'[q].off = pkts[q].off
  <2> DEFINE pk == [pkts[p] EXCEPT !.at = node]
  <2>1. pk.port = pkts[p].port /\ pk.key = pkts[p].key /\ pk.off = pkts[p].off
    BY <1>1, Zenon DEF Packets
  <2>2. pkts' = [pkts EXCEPT ![p] = pk] \/ pkts' = [pkts EXCEPT ![p] = None]
    BY Zenon
  <2> HIDE DEF pk
  <2>3. q # p => pkts'[q] = pkts[q]
    BY <2>2, Zenon DEF TypeOK
  <2>4. pkts'[p] \in {pk, None}
    BY <2>2, Zenon DEF TypeOK
  <2> QED
    BY <1>2, <2>1, <2>3, <2>4, Zenon
<1> QED
  BY <1>2, Zenon DEF PacketsCarry

\* Without offloading, neither a packet nor a new flow asks for it.
LEMMA TouchedOff ==
    ASSUME NEW fl \in FlowValues, NEW dir, NEW flag, NEW a
    PROVE  ~offload_mode_enabled => Touched(fl, a, dir, flag).off = fl.off
<1> SUFFICES ASSUME ~offload_mode_enabled PROVE Touched(fl, a, dir, flag).off = fl.off
  BY Zenon
<1> DEFINE fresh == [fl EXCEPT !.idle = FALSE]
           tcp == [fresh EXCEPT !.tcp = dp_cntrack_tcp_state(fl.tcp, flag)]
<1>1. \A x : /\ dp_cntrack_change_flow_offload_flags(x, dir, a.port) = x
             /\ dp_cntrack_set_timeout_tcp_flow(x, dir, a.port) = x
  BY Zenon DEF dp_cntrack_change_flow_offload_flags, dp_cntrack_set_timeout_tcp_flow
<1>2. fresh.off = fl.off /\ tcp.off = fl.off
  BY Zenon DEF FlowValues
<1>3. Touched(fl, a, dir, flag) \in {fresh, tcp}
  BY <1>1, Zenon DEF Touched
<1> QED
  BY <1>2, <1>3, Zenon

\* Conntrack: it finds a flow, starts one, or gives up.
LEMMA CntrackShape ==
    ASSUME TypeOK, MemorySafe, NEW p \in Pkts, dp_cntrack_handle(p)
    PROVE  Shape /\ RefsKept /\ OffKept /\ PacketsCarry
<1>1. PICK a \in dp_build_flow_key, flag \in TcpFlags \cup {None} :
        \/ KnownFlow(p, a, flag)
        \/ flow_table_insert_entry(p, a, flag)
        \/ InsertFails(a)
  BY Zenon DEF dp_cntrack_handle
<1>2. a.key \in Keys /\ a.port \in Ports
  BY ArrivalType, Zenon
<1>3. [port |-> a.port, key |-> a.key] \in dp_build_flow_key
  BY DEF dp_build_flow_key, VfArrivals, PfArrivals
<1>4. ASSUME NEW f \in Flows, heap'[f] # None, NEW dir \in Dirs, NEW pk,
             pk.key = a.key, pk.port = a.port, pk.flow = f, pk.dir = dir,
             pk.off = heap'[f].off[dir], pkts' = [pkts EXCEPT ![p] = pk]
      PROVE  PacketsCarry
  <2>1. pkts'[p] = pk /\ \A q \in Pkts \ {p} : pkts'[q] = pkts[q]
    BY <1>4, Zenon DEF TypeOK
  <2>2. [port |-> pk.port, key |-> pk.key] \in dp_build_flow_key
    BY <1>3, <1>4, Zenon
  <2>3. /\ pk.off = heap'[pk.flow].off[pk.dir]
        /\ pk.flow \in Flows /\ heap'[pk.flow] # None /\ pk.dir \in Dirs
    BY <1>4, Zenon
  <2> SUFFICES ASSUME NEW q \in Pkts, pkts'[q] # None, pkts'[q] # pkts[q]
               PROVE  /\ [port |-> pkts'[q].port, key |-> pkts'[q].key] \in dp_build_flow_key
                      /\ pkts'[q].flow \in Flows /\ heap'[pkts'[q].flow] # None /\ pkts'[q].dir \in Dirs
                      /\ pkts'[q].off = heap'[pkts'[q].flow].off[pkts'[q].dir]
    BY Zenon DEF PacketsCarry
  <2>4. pkts'[q] = pk
    BY <2>1, Zenon
  <2> QED
    BY <2>2, <2>3, <2>4
<1>5. CASE KnownFlow(p, a, flag)
  <2> DEFINE f == LookedUp(a.key)
             dir == dp_set_pkt_flow_direction(a.key, heap[f])
             found == dp_set_flow_offload_flag(heap[f], dir, a.port)
             fl == Touched(found, a, dir, flag)
             pk == [at |-> "dnat", key |-> a.key, port |-> a.port,
                    flow |-> f, dir |-> dir, off |-> fl.off[dir]]
  <2>1. f \in Flows /\ heap[f] \in FlowValues
    BY <1>2, <1>5, Reached, Zenon DEF KnownFlow
  <2>2. dir \in Dirs
    BY Zenon DEF dp_set_pkt_flow_direction, Dirs
  <2>3. /\ heap' = [heap EXCEPT ![f] = fl] /\ table' = table /\ ctx' = ctx
        /\ pkts' = [pkts EXCEPT ![p] = pk]
    BY <1>5, Zenon DEF KnownFlow, Forward
  <2>12. /\ pk.key = a.key /\ pk.port = a.port /\ pk.flow = f /\ pk.dir = dir
         /\ pk.off = fl.off[dir]
    BY Zenon
  <2> HIDE DEF f, pk
  <2>4. found \in FlowValues /\ SameCore(found, heap[f])
    BY <1>2, <2>1, <2>2, OffloadFlag, Zenon
  <2>5. ~offload_mode_enabled => found = heap[f]
    BY Zenon DEF dp_set_flow_offload_flag, dp_cntrack_change_flow_offload_flags
  <2> HIDE DEF dir, found
  <2>6. fl \in FlowValues /\ SameCore(fl, found)
    BY <2>2, <2>4, TouchedCore, Zenon
  <2>7. ~offload_mode_enabled => fl.off = heap[f].off
    <3>1. ~offload_mode_enabled => fl.off = found.off
      BY <2>4, TouchedOff, Zenon
    <3> QED
      BY <2>5, <3>1, Zenon
  <2> HIDE DEF fl
  <2>8. /\ fl.key = heap[f].key /\ fl.nat = heap[f].nat
        /\ fl.ref = heap[f].ref /\ fl.aged = heap[f].aged
    BY <2>4, <2>6, Zenon DEF SameCore
  <2>9. KeysKept /\ OffKept /\ RefsKept
    BY <2>1, <2>3, <2>6, <2>7, <2>8, WriteKeeps, Zenon
  <2>10. heap'[f] = fl /\ heap'[f] # None
    BY <2>1, <2>3, <2>6, FlowSet, Zenon
  <2>11. PacketsCarry
    BY <1>4, <2>1, <2>2, <2>3, <2>10, <2>12, Zenon
  <2> QED
    BY <2>9, <2>11, Zenon DEF Shape
<1>6. CASE flow_table_insert_entry(p, a, flag)
  <2> DEFINE fl == Touched(NewFlow(a), a, "ORG", flag)
             new(f) == [at |-> "dnat", key |-> a.key, port |-> a.port,
                        flow |-> f, dir |-> "ORG", off |-> fl.off["ORG"]]
  <2>1. PICK f \in Flows :
          /\ LookedUp(a.key) = None /\ ~Live(f)
          /\ table' = [table EXCEPT ![a.key] = f, ![dp_invert_flow_key(a.key)] = f]
          /\ heap' = [heap EXCEPT ![f] = fl] /\ ctx' = ctx
          /\ pkts' = [pkts EXCEPT ![p] = new(f)]
    BY <1>6, Zenon DEF flow_table_insert_entry, Forward
  <2>2. fl \in FlowValues /\ SameCore(fl, NewFlow(a))
    BY NewFlowType, TouchedCore, Zenon DEF Dirs
  <2>3. /\ fl.key["ORG"] = a.key /\ fl.key["REPLY"] = dp_invert_flow_key(a.key)
        /\ fl.nat = "NONE" /\ fl.ref = 1 /\ fl.aged = FALSE
    BY <2>2, Zenon DEF SameCore, NewFlow, Dirs
  <2>4. ~offload_mode_enabled => \A d \in Dirs : fl.off[d] = "NON_OFFLOAD"
    <3>1. ~offload_mode_enabled => fl.off = NewFlow(a).off
      <4>1. NewFlow(a) \in FlowValues
        BY NewFlowType, Zenon
      <4> HIDE DEF fl
      <4> QED
        BY <4>1, TouchedOff, Zenon DEF fl
    <3>2. ~offload_mode_enabled => \A d \in Dirs : NewFlow(a).off[d] = "NON_OFFLOAD"
      BY Zenon DEF NewFlow
    <3> QED
      BY <3>1, <3>2, Zenon
  <2>11. /\ new(f).key = a.key /\ new(f).port = a.port /\ new(f).flow = f
         /\ new(f).dir = "ORG" /\ new(f).off = fl.off["ORG"]
    BY Zenon
  <2> DEFINE pk == new(f)
  <2> HIDE DEF fl, new
  <2>5. table[a.key] = None
    BY <1>2, <2>1, Reached, Zenon
  <2>6. heap'[f] = fl /\ heap'[f] # None /\ OthersKept(f)
    BY <2>1, <2>2, FlowSet, Zenon DEF OthersKept
  <2>7. Inserted(f, a)
    BY <2>1, <2>3, <2>5, <2>6, Zenon DEF Inserted
  <2>8. RefsKept
    BY <2>1, <2>3, <2>6, Zenon DEF RefsKept, OthersKept, Live
  <2>9. OffKept
    BY <2>1, <2>4, <2>6, Zenon DEF OffKept, OthersKept, Live
  <2>10. PacketsCarry
    <3>1. /\ pk.key = a.key /\ pk.port = a.port /\ pk.flow = f /\ pk.dir = "ORG"
          /\ pk.off = heap'[f].off["ORG"] /\ pkts' = [pkts EXCEPT ![p] = pk] /\ "ORG" \in Dirs
      BY <2>1, <2>6, <2>11, Zenon DEF Dirs
    <3> HIDE DEF pk
    <3> QED
      BY <1>4, <2>6, <3>1, Zenon
  <2> QED
    BY <2>7, <2>8, <2>9, <2>10, Zenon DEF Shape
<1>7. CASE InsertFails(a)
  <2>1. UNCHANGED <<heap, table, ctx, pkts>>
    BY <1>7, Zenon DEF InsertFails
  <2> QED
    BY <2>1, NoWriteKeeps, Zenon DEF Shape, PacketsCarry
<1> QED
  BY <1>1, <1>5, <1>6, <1>7, Zenon

\* A first packet that relays its flow or rewrites its reply key.
LEMMA RekeyedShape ==
    ASSUME TypeOK, NEW f \in Flows, heap[f] \in FlowValues, NEW fl \in FlowValues,
           heap' = [heap EXCEPT ![f] = fl], ctx' = ctx, fl.key["ORG"] = heap[f].key["ORG"],
           fl.ref = heap[f].ref, fl.aged = heap[f].aged, fl.off = heap[f].off,
           \A k \in Keys : table'[k] = table[k] \/ k \in {heap[f].key["REPLY"], fl.key["REPLY"]},
           Relayed(f) \/ DstTranslated(f) \/ SrcTranslated(f)
    PROVE  Shape /\ RefsKept /\ OffKept
<1>1. heap'[f] = fl /\ fl # None /\ \A g \in Flows \ {f} : heap'[g] = heap[g]
  BY FlowSet, Zenon
<1>2. Live(f)
  BY ConstantsAssumption, Zenon DEF Live
<1>3. Rekeyed(f)
  BY <1>1, <1>2, Zenon DEF Rekeyed, OthersKept
<1>4. RefsKept /\ OffKept
  BY <1>1, <1>2, Zenon DEF RefsKept, OffKept, Live
<1> QED
  BY <1>3, <1>4, Zenon DEF Shape

\* The entries after the delete and add of a reply key, and the packet.
LEMMA ReplaceTable ==
    ASSUME TypeOK, MemorySafe, NEW p \in Pkts, pkts[p] # None, NEW f \in Flows, NEW fl \in FlowValues,
           NEW node \in {"dnat", "snat", "tx"}, ReplaceReplyKey(p, f, fl, node)
    PROVE  /\ heap' = [heap EXCEPT ![f] = fl] /\ PacketsCarry
           /\ \A k \in Keys : table'[k] = table[k] \/ k \in {heap[f].key["REPLY"], fl.key["REPLY"]}
<1> DEFINE old == heap[f].key["REPLY"]
           new == fl.key["REPLY"]
           deleted == Without(table, {old})
<1>1. /\ deleted \in [Keys -> Flows \cup {None}]
      /\ \A k \in Keys : deleted[k] = IF k = old THEN None ELSE table[k]
  BY WithoutType DEF TypeOK
<1>2. /\ heap' = [heap EXCEPT ![f] = fl]
      /\ table' = [deleted EXCEPT ![new] = f] \/ table' = deleted
  BY Zenon DEF ReplaceReplyKey
<1>3. PacketsCarry
  BY PacketCarries, Zenon DEF ReplaceReplyKey
<1>4. \A k \in Keys : table'[k] = table[k] \/ k \in {old, new}
  <2> HIDE DEF old, new, deleted
  <2> QED
    BY <1>1, <1>2, Zenon
<1> QED
  BY <1>2, <1>3, <1>4, Zenon

\* A packet that moves on or is dropped touches no flow.
LEMMA MoveShape ==
    ASSUME TypeOK, MemorySafe, NEW p \in Pkts, pkts[p] # None, NEW node \in {"dnat", "snat", "tx"},
           MoveTo(p, node) \/ Drop(p), ctx' = ctx
    PROVE  KeysKept /\ RefsKept /\ OffKept /\ PacketsCarry
<1>1. UNCHANGED <<heap, table>>
  BY Zenon DEF MoveTo, Drop
<1>2. PacketsCarry
  BY PacketCarries, Zenon DEF MoveTo, Drop
<1> QED
  BY <1>1, <1>2, NoWriteKeeps, Zenon

\* The dnat node relays or translates a flow with its first packet.
LEMMA DnatShape ==
    ASSUME TypeOK, MemorySafe, NatAll, NEW p \in Pkts, dnat_node(p)
    PROVE  Shape /\ RefsKept /\ OffKept /\ PacketsCarry
<1> DEFINE f == pkts[p].flow
           org == heap[f].key["ORG"]
           reply == heap[f].key["REPLY"]
<1>1. /\ pkts[p] # None /\ ctx' = ctx /\ f \in Flows /\ heap[f] \in FlowValues /\ Live(f)
  BY Reached, Zenon DEF dnat_node, MemorySafe, PacketFlowLive
<1>2. FirstPacket(pkts[p]) => pkts[p].key = org /\ reply = dp_invert_flow_key(org)
  BY <1>1, Zenon DEF FirstPacket, NatAll, NatInv
<1>3. org \in Keys /\ reply \in Keys
  BY <1>1, Zenon DEF FlowValues, Dirs
<1>4. CASE /\ FirstPacket(pkts[p]) /\ pkts[p].key.dst \in NeighNats
           /\ heap' = [heap EXCEPT ![f].nat = "NETWORK_NEIGH"]
           /\ table' = Without(table, {reply})
           /\ pkts' = [pkts EXCEPT ![p].at = "tx"]
  <2> DEFINE fl == [heap[f] EXCEPT !.nat = "NETWORK_NEIGH"]
  <2>1. /\ fl \in FlowValues /\ fl.key = heap[f].key /\ fl.nat = "NETWORK_NEIGH"
        /\ fl.ref = heap[f].ref /\ fl.aged = heap[f].aged /\ fl.off = heap[f].off
    BY <1>1, Zenon DEF FlowValues, NatTypes
  <2>2. heap' = [heap EXCEPT ![f] = fl]
    BY <1>1, <1>4, Zenon DEF TypeOK
  <2> HIDE DEF fl
  <2>3. \A k \in Keys : table'[k] = table[k] \/ k \in {reply, fl.key["REPLY"]}
    BY <1>4, Zenon DEF Without
  <2>4. Relayed(f)
    BY <1>1, <1>2, <1>4, <2>1, <2>2, Zenon DEF Relayed, TypeOK
  <2>5. PacketsCarry
    BY <1>1, <1>4, PacketCarries, Zenon
  <2> QED
    BY <1>1, <2>1, <2>2, <2>3, <2>4, <2>5, RekeyedShape, Zenon
<1>5. CASE Drop(p) \/ MoveTo(p, "tx") \/ MoveTo(p, "snat")
  BY <1>1, <1>5, MoveShape, Zenon DEF Shape
<1>6. ASSUME NEW v \in VMs, FirstPacket(pkts[p]), pkts[p].key.dst \in Vips, SnatOf[v] = pkts[p].key.dst,
             ReplaceReplyKey(p, f, [heap[f] EXCEPT !.flags = @ \cup {"DST_NAT"},
                                                   !.key["REPLY"].src = v], "snat")
      PROVE  Shape /\ RefsKept /\ OffKept /\ PacketsCarry
  <2> DEFINE new == [reply EXCEPT !.src = v]
             fl == [heap[f] EXCEPT !.flags = @ \cup {"DST_NAT"}, !.key["REPLY"].src = v]
  <2>1. new \in Keys /\ new.vnf = org.vnf
    BY <1>2, <1>3, <1>6, Zenon DEF Keys, Endpoints, dp_invert_flow_key
  <2>2. [heap[f].key EXCEPT !["REPLY"] = new] \in [Dirs -> Keys]
    BY <1>1, <2>1, Zenon DEF FlowValues, Dirs
  <2>3. /\ fl \in FlowValues /\ fl.key["ORG"] = org /\ fl.key["REPLY"] = new
        /\ fl.nat = heap[f].nat /\ fl.ref = heap[f].ref
        /\ fl.aged = heap[f].aged /\ fl.off = heap[f].off
    BY <1>1, <2>2, Zenon DEF FlowValues, Dirs, NfFlags
  <2> HIDE DEF fl, new
  <2>4. ReplaceReplyKey(p, f, fl, "snat")
    BY <1>6, Zenon DEF fl
  <2>5. /\ heap' = [heap EXCEPT ![f] = fl] /\ PacketsCarry
        /\ \A k \in Keys : table'[k] = table[k] \/ k \in {reply, fl.key["REPLY"]}
    BY <1>1, <2>3, <2>4, ReplaceTable, Zenon
  <2>6. heap'[f] = fl
    BY <1>1, <2>3, <2>5, FlowSet, Zenon
  <2>7. DstTranslated(f)
    BY <1>2, <1>6, <2>1, <2>3, <2>6, Zenon DEF DstTranslated
  <2> QED
    BY <1>1, <2>3, <2>5, <2>7, RekeyedShape, Zenon
<1> QED
  BY <1>4, <1>5, <1>6, Zenon DEF dnat_node

\* What an arrival says of its port.
LEMMA ArrivalPort ==
    ASSUME NEW a \in dp_build_flow_key, a.port \in VMs
    PROVE  a.key.src = a.port /\ (SnatOf[a.port] = "nat" => a.key.vnf = "NAT")
  BY EndpointKinds DEF dp_build_flow_key, VfArrivals, PfArrivals

\* The snat node translates a flow to the outside with its first packet.
LEMMA SnatShape ==
    ASSUME TypeOK, MemorySafe, NatAll, KeyInv, NEW p \in Pkts, snat_node(p)
    PROVE  Shape /\ RefsKept /\ OffKept /\ PacketsCarry
<1> DEFINE pk == pkts[p]
           f == pk.flow
           org == heap[f].key["ORG"]
           reply == heap[f].key["REPLY"]
           marked(n, t) == [heap[f] EXCEPT !.flags = @ \cup {"SRC_NAT"}, !.nat = t,
                                           !.key["REPLY"].dst = n]
<1>1. /\ pk # None /\ ctx' = ctx /\ f \in Flows /\ heap[f] \in FlowValues /\ Live(f)
  BY Reached, Zenon DEF snat_node, MemorySafe, PacketFlowLive
<1>2. FirstPacket(pk) => pk.key = org /\ reply = dp_invert_flow_key(org)
  BY <1>1, Zenon DEF FirstPacket, NatAll, NatInv
<1>3. org \in Keys /\ reply \in Keys
  BY <1>1, Zenon DEF FlowValues, Dirs
<1>4. pk.port \in VMs => pk.key.src \in VMs /\ (SnatOf[pk.key.src] = "nat" => pk.key.vnf = "NAT")
  <2> DEFINE a == [port |-> pk.port, key |-> pk.key]
  <2>1. a \in dp_build_flow_key /\ a.port = pk.port /\ a.key = pk.key
    BY <1>1, Zenon DEF KeyInv
  <2> HIDE DEF a
  <2> QED
    BY <2>1, ArrivalPort, Zenon
<1>5. ASSUME NEW n \in Endpoints, NEW t \in {"VIP", "NETWORK_LOCAL"},
             FirstPacket(pk), pk.port \in VMs, pk.key.dst \in Exts, SnatOf[pk.key.src] # "none",
             t = "NETWORK_LOCAL" => SnatOf[pk.key.src] = "nat",
             ReplaceReplyKey(p, f, marked(n, t), "tx")
      PROVE  Shape /\ RefsKept /\ OffKept /\ PacketsCarry
  <2> DEFINE new == [reply EXCEPT !.dst = n]
             fl == marked(n, t)
  <2>1. new \in Keys /\ new.src = org.dst
    BY <1>2, <1>3, <1>5, Zenon DEF Keys, dp_invert_flow_key
  <2>2. [heap[f].key EXCEPT !["REPLY"] = new] \in [Dirs -> Keys]
    BY <1>1, <2>1, Zenon DEF FlowValues, Dirs
  <2>3. /\ fl \in FlowValues /\ fl.key["ORG"] = org /\ fl.key["REPLY"] = new
        /\ fl.nat = t /\ fl.ref = heap[f].ref
        /\ fl.aged = heap[f].aged /\ fl.off = heap[f].off
    BY <1>1, <2>2, Zenon DEF FlowValues, Dirs, NfFlags, NatTypes
  <2>4. ReplaceReplyKey(p, f, fl, "tx")
    BY <1>5, Zenon
  <2> HIDE DEF fl, new
  <2>5. /\ heap' = [heap EXCEPT ![f] = fl] /\ PacketsCarry
        /\ \A k \in Keys : table'[k] = table[k] \/ k \in {reply, fl.key["REPLY"]}
    BY <1>1, <2>3, <2>4, ReplaceTable, Zenon
  <2>6. heap'[f] = fl
    BY <1>1, <2>3, <2>5, FlowSet, Zenon
  <2>7. SrcTranslated(f)
    BY <1>2, <1>4, <1>5, <2>1, <2>3, <2>6, Zenon DEF SrcTranslated
  <2> QED
    BY <1>1, <2>3, <2>5, <2>7, RekeyedShape, Zenon
<1>6. CASE MoveTo(p, "tx") \/ Drop(p)
  BY <1>1, <1>6, MoveShape, Zenon DEF Shape
<1>7. CASE \E n \in Nats :
             /\ FirstPacket(pk) /\ pk.port \in VMs /\ pk.key.dst \in Exts /\ SnatOf[pk.key.src] # "none"
             /\ SnatOf[pk.key.src] = "nat" /\ ReplaceReplyKey(p, f, marked(n, "NETWORK_LOCAL"), "tx")
  <2> HIDE DEF marked
  <2> QED
    BY <1>5, <1>7, Zenon DEF Endpoints
<1>8. CASE /\ FirstPacket(pk) /\ pk.port \in VMs /\ pk.key.dst \in Exts /\ SnatOf[pk.key.src] # "none"
           /\ SnatOf[pk.key.src] \in Vips
           /\ ReplaceReplyKey(p, f, marked(SnatOf[pk.key.src], "VIP"), "tx")
  <2> HIDE DEF marked
  <2> QED
    BY <1>5, <1>8, Zenon DEF Endpoints
<1> QED
  BY <1>6, <1>7, <1>8, Zenon DEF snat_node

\* The tx node writes marks and references of the packet's flow.
LEMMA TxShape ==
    ASSUME TypeOK, MemorySafe, NEW p \in Pkts, tx_node_process(p)
    PROVE  KeysKept /\ OffKept /\ PacketsCarry
<1> DEFINE pk == pkts[p]
           f == pk.flow
<1>1. /\ pk # None /\ table' = table /\ pkts' = [pkts EXCEPT ![p] = None]
      /\ pk \in Packets /\ f \in Flows /\ heap[f] \in FlowValues
  BY Reached, Zenon DEF tx_node_process
<1>2. Sent(pk) \in FlowValues /\ Sent(pk).key = heap[f].key /\ Sent(pk).nat = heap[f].nat
  BY <1>1, SentType, Zenon
<1>3. Sent(pk).off = heap[f].off
  BY <1>1, Zenon DEF Sent, FlowValues
<1>4. PacketsCarry
  BY <1>1, PacketCarries, Zenon
<1>5. CASE heap' = [heap EXCEPT ![f] = Sent(pk)]
  BY <1>1, <1>2, <1>3, <1>4, <1>5, WriteKeeps, Zenon
<1>6. CASE \E C \in SUBSET Ctxs : heap' = [heap EXCEPT ![f] = [Sent(pk) EXCEPT !.ref = @ + Cardinality(C)]]
  <2>1. PICK C \in SUBSET Ctxs :
          heap' = [heap EXCEPT ![f] = [Sent(pk) EXCEPT !.ref = @ + Cardinality(C)]]
    BY <1>6, Zenon
  <2> DEFINE fl == [Sent(pk) EXCEPT !.ref = @ + Cardinality(C)]
  <2>2. Cardinality(C) \in Int
    BY RulesFinite
  <2>3. fl \in FlowValues
    BY <1>2, <2>2 DEF FlowValues
  <2>4. fl.key = heap[f].key /\ fl.nat = heap[f].nat /\ fl.off = heap[f].off
    BY <1>2, <1>3, Zenon DEF FlowValues
  <2>5. heap' = [heap EXCEPT ![f] = fl]
    BY <2>1, Zenon
  <2> HIDE DEF fl
  <2> QED
    BY <1>1, <1>4, <2>3, <2>4, <2>5, WriteKeeps, Zenon
<1> QED
  BY <1>5, <1>6, Zenon DEF tx_node_process, dp_offload_handler

\* Dropping references frees the flow or leaves its keys alone.
LEMMA RefDecShape ==
    ASSUME TypeOK, NEW f \in Flows, heap[f] \in FlowValues, NEW fl \in FlowValues, NEW n \in Int,
           fl.key = heap[f].key, fl.nat = heap[f].nat, fl.off = heap[f].off,
           dp_free_flow(f) \/ dp_ref_dec(f, fl, n)
    PROVE  Shape /\ OffKept
<1>1. CASE dp_free_flow(f)
  <2>1. heap' = [heap EXCEPT ![f] = None] /\ table' = Without(table, KeysOf(heap[f]))
    BY <1>1, Zenon DEF dp_free_flow, KeysOf
  <2>2. heap'[f] = None /\ OthersKept(f) /\ Live(f)
    BY <2>1, ConstantsAssumption, Zenon DEF OthersKept, Live, TypeOK
  <2>3. Freed(f)
    BY <2>1, <2>2, Zenon DEF Freed
  <2> QED
    BY <2>2, <2>3, Zenon DEF Shape, OffKept, OthersKept, Live
<1>2. CASE fl.ref # n /\ dp_ref_dec(f, fl, n)
  <2> DEFINE less == [fl EXCEPT !.ref = @ - n]
  <2>1. less \in FlowValues
    BY DEF FlowValues
  <2>2. less.key = heap[f].key /\ less.nat = heap[f].nat /\ less.off = heap[f].off
    BY Zenon DEF FlowValues
  <2>3. heap' = [heap EXCEPT ![f] = less] /\ table' = table
    BY <1>2, Zenon DEF dp_ref_dec
  <2> HIDE DEF less
  <2> QED
    BY <2>1, <2>2, <2>3, WriteKeeps, Zenon DEF Shape
<1> QED
  BY <1>1, <1>2, Zenon DEF dp_ref_dec

\* So does the NIC's report that a rule has aged,
LEMMA AgedRuleShape ==
    ASSUME TypeOK, NEW c \in Ctxs, dp_destroy_rte_flow_agectx(c)
    PROVE  Shape /\ OffKept /\ PacketsCarry
<1> DEFINE f == ctx[c].flow
<1>1. f \in Flows /\ pkts' = pkts
  BY Zenon DEF dp_destroy_rte_flow_agectx, TypeOK, AgeCtxs
<1>2. CASE Live(f) /\ dp_ref_dec(f, heap[f], 1)
  <2>1. heap[f] \in FlowValues
    BY <1>1, <1>2, Zenon DEF Live, TypeOK
  <2>2. 1 \in Int
    OBVIOUS
  <2>3. Shape /\ OffKept
    BY <1>1, <1>2, <2>1, <2>2, RefDecShape, Zenon
  <2> QED
    BY <1>1, <2>3, Zenon DEF PacketsCarry
<1>3. CASE UNCHANGED <<heap, table>>
  BY <1>1, <1>3, NoWriteKeeps, Zenon DEF Shape, PacketsCarry
<1> QED
  BY <1>2, <1>3, Zenon DEF dp_destroy_rte_flow_agectx

\* and an iteration that reaches an entry.
LEMMA VisitEntryShape ==
    ASSUME TypeOK, MemorySafe, NEW k \in Keys, VisitEntry(k)
    PROVE  Shape /\ OffKept /\ PacketsCarry
<1> DEFINE f == table[k]
<1>1. pkts' = pkts /\ f \in Flows /\ heap[f] \in FlowValues
  BY Reached, Zenon DEF VisitEntry, MemorySafe, ScanOK
<1>2. CASE \E C \in SUBSET Stored(f), out \in BOOLEAN : VisitFlow(f, C, out)
  <2>1. PICK C \in SUBSET Stored(f), out \in BOOLEAN : VisitFlow(f, C, out)
    BY <1>2, Zenon
  <2> DEFINE fl == [heap[f] EXCEPT !.aged = @ \/ out]
             n == Cardinality(C) + (IF out THEN 1 ELSE 0)
  <2>2. /\ fl \in FlowValues /\ fl.key = heap[f].key
        /\ fl.nat = heap[f].nat /\ fl.off = heap[f].off
    BY <1>1, Zenon DEF FlowValues
  <2>3. n \in Int
    <3>1. Cardinality(C) \in Int
      BY RulesFinite
    <3> QED
      BY <3>1
  <2>4. dp_free_flow(f) \/ dp_ref_dec(f, fl, n)
    BY <2>1, Zenon DEF VisitFlow
  <2> HIDE DEF fl, n
  <2>5. Shape /\ OffKept
    BY <1>1, <2>2, <2>3, <2>4, RefDecShape, Zenon
  <2> QED
    BY <1>1, <2>5, Zenon DEF PacketsCarry
<1>3. CASE UNCHANGED <<heap, table>>
  BY <1>1, <1>3, NoWriteKeeps, Zenon DEF Shape, PacketsCarry
<1> QED
  BY <1>2, <1>3, VisitEntryCases, Zenon

\* Only offloading, aging and removal touch rules and references.
RefStep ==
    \/ /\ RefsKept
       /\ scan' = scan \/ FinishScan \/ \E req \in Requests \cup {AgeRequest} : StartScan(req)
    \/ \E p \in Pkts : tx_node_process(p)
    \/ \E c \in Ctxs : dp_destroy_rte_flow_agectx(c)
    \/ \E k \in Keys : VisitEntry(k)

\* Every step has one of the shapes.
LEMMA StepShape ==
    ASSUME TypeOK, MemorySafe, NatAll, KeyInv, [Next]_vars
    PROVE  Shape /\ OffKept /\ PacketsCarry /\ RefStep
<1> DEFINE Goal == Shape /\ OffKept /\ PacketsCarry /\ RefStep
<1>1. ASSUME NEW p \in Pkts, dp_cntrack_handle(p) PROVE Goal
  <2>1. scan' = scan
    <3>1. PICK a \in dp_build_flow_key, flag \in TcpFlags \cup {None} :
            KnownFlow(p, a, flag) \/ flow_table_insert_entry(p, a, flag) \/ InsertFails(a)
      BY <1>1, Zenon DEF dp_cntrack_handle
    <3>2. \A f, fl, dir : Forward(p, a, f, fl, dir) => scan' = scan
      BY Zenon DEF Forward
    <3> QED
      BY <3>1, <3>2, Zenon DEF KnownFlow, flow_table_insert_entry, InsertFails
  <2> QED
    BY <1>1, <2>1, CntrackShape, Zenon DEF RefStep
<1>2. ASSUME NEW p \in Pkts, dnat_node(p) PROVE Goal
  <2>1. scan' = scan
    BY <1>2, Zenon DEF dnat_node
  <2> QED
    BY <1>2, <2>1, DnatShape, Zenon DEF RefStep
<1>3. ASSUME NEW p \in Pkts, snat_node(p) PROVE Goal
  <2>1. scan' = scan
    BY <1>3, Zenon DEF snat_node
  <2> QED
    BY <1>3, <2>1, SnatShape, Zenon DEF RefStep
<1>4. ASSUME NEW p \in Pkts, ipv4_lookup_node(p) PROVE Goal
  <2>1. scan' = scan /\ ctx' = ctx /\ pkts[p] # None /\ Drop(p)
    BY <1>4, Zenon DEF ipv4_lookup_node
  <2>2. KeysKept /\ RefsKept /\ OffKept /\ PacketsCarry
    BY <2>1, MoveShape, Zenon
  <2> QED
    BY <2>1, <2>2, Zenon DEF Shape, RefStep
<1>5. ASSUME NEW p \in Pkts, tx_node_process(p) PROVE Goal
  BY <1>5, TxShape, Zenon DEF Shape, RefStep
<1>6. ASSUME NEW f \in Flows, TimeOut(f) PROVE Goal
  <2> DEFINE fl == [heap[f] EXCEPT !.idle = TRUE]
  <2>1. heap[f] \in FlowValues
    BY <1>6, Zenon DEF TimeOut, Live, TypeOK
  <2>2. /\ fl \in FlowValues /\ fl.key = heap[f].key /\ fl.nat = heap[f].nat
        /\ fl.off = heap[f].off /\ fl.ref = heap[f].ref /\ fl.aged = heap[f].aged
    BY <2>1, Zenon DEF FlowValues
  <2>3. heap' = [heap EXCEPT ![f] = fl] /\ UNCHANGED <<table, ctx, pkts, scan>>
    BY <1>6, Zenon DEF TimeOut
  <2> HIDE DEF fl
  <2>4. KeysKept /\ OffKept /\ RefsKept
    BY <2>1, <2>2, <2>3, WriteKeeps, Zenon
  <2> QED
    BY <2>3, <2>4, Zenon DEF Shape, PacketsCarry, RefStep
<1>7. ASSUME NEW c \in Ctxs, dp_destroy_rte_flow_agectx(c) PROVE Goal
  BY <1>7, AgedRuleShape, Zenon DEF RefStep
<1>8. ASSUME NEW k \in Keys, VisitEntry(k) PROVE Goal
  BY <1>8, VisitEntryShape, Zenon DEF RefStep
<1>9. ASSUME \/ \E req \in Requests \cup {AgeRequest} : StartScan(req)
             \/ FinishScan \/ graph_main_loop \/ UNCHANGED vars
      PROVE  Goal
  <2>1. UNCHANGED <<heap, table, ctx, pkts>>
    BY <1>9, Zenon DEF StartScan, FinishScan, graph_main_loop, vars
  <2>2. scan' = scan \/ FinishScan \/ \E req \in Requests \cup {AgeRequest} : StartScan(req)
    BY <1>9, Zenon DEF graph_main_loop, vars
  <2>3. KeysKept /\ OffKept /\ RefsKept
    BY <2>1, NoWriteKeeps, Zenon
  <2> QED
    BY <2>1, <2>2, <2>3, Zenon DEF Shape, PacketsCarry, RefStep
<1> HIDE DEF Goal
<1>10. Goal
  BY <1>1, <1>2, <1>3, <1>4, <1>5, <1>6, <1>7, <1>8, <1>9, Zenon DEF Next
<1> QED
  BY <1>10, Zenon DEF Goal

-----------------------------------------------------------------------------
\* The next packet of a translated flow finds it.

\* What the kinds of endpoints say of a key that came in with a packet.
LEMMA ArrivalKeyFacts ==
    ASSUME NEW k \in ArrivalKeys
    PROVE  /\ k \in Keys /\ dp_invert_flow_key(k) \in Keys
           /\ k.src \in VMs \cup Exts
           /\ k.dst \in Vips => k.vnf = "UNDEFINED"
           /\ ~OutKey(dp_invert_flow_key(k))
<1>1. PICK a \in dp_build_flow_key : k = a.key
  BY Zenon DEF ArrivalKeys
<1>2. k \in Keys /\ dp_invert_flow_key(k) \in Keys
  BY <1>1, ArrivalType, InvertType, Zenon
<1>3. CASE a \in VfArrivals
  <2>1. k.src \in VMs /\ k.dst \in Exts \cup VMs
    BY <1>1, <1>3 DEF VfArrivals
  <2>2. k.dst \notin Vips /\ k.src \notin Exts
    BY <2>1, EndpointKinds, Zenon
  <2>3. dp_invert_flow_key(k).dst = k.src
    BY <1>2, Zenon DEF dp_invert_flow_key, Keys
  <2> QED
    BY <1>2, <2>1, <2>2, <2>3, Zenon DEF OutKey
<1>4. CASE a \in PfArrivals
  <2>1. /\ k.src \in Exts /\ k.dst \in VMs \cup Nats \cup NeighNats \cup Vips
        /\ k.vnf = IF k.dst \in Nats \cup NeighNats THEN "NAT" ELSE "UNDEFINED"
    BY <1>1, <1>4 DEF PfArrivals
  <2>2. k.dst \in Vips \cup VMs => k.dst \notin Nats \cup NeighNats
    BY EndpointKinds, Zenon
  <2>3. dp_invert_flow_key(k).src = k.dst /\ dp_invert_flow_key(k).vnf = k.vnf
    BY <1>2, Zenon DEF dp_invert_flow_key, Keys
  <2>4. k.dst \in Vips \cup VMs => k.vnf = "UNDEFINED"
    BY <2>1, <2>2, Zenon
  <2> QED
    BY <1>2, <2>1, <2>3, <2>4, Zenon DEF OutKey
<1> QED
  BY <1>1, <1>3, <1>4, Zenon DEF dp_build_flow_key

\* What KeyInv says of the fields fl of flow g, in table t.
KeyedIn(fl, g, t) ==
    /\ fl.key["ORG"] \in ArrivalKeys
    /\ ~OutKey(fl.key["REPLY"])
    /\ OutKey(fl.key["ORG"]) => t[fl.key["ORG"]] = g
    /\ fl.nat = "NETWORK_LOCAL" => OutKey(fl.key["ORG"])

\* KeyInv is preserved by every shape of a step.
LEMMA StepKeys ==
    ASSUME TypeOK, KeyInv, Shape, PacketsCarry
    PROVE  KeyInv'
<1>1. \A g \in Flows : Live(g) => KeyedIn(heap[g], g, table)
  BY Zenon DEF KeyInv, KeyedIn
<1>2. \A g \in Flows : g # None
  BY ConstantsAssumption, Zenon
<1>3. \A k \in ArrivalKeys : k \in Keys
  BY ArrivalKeyFacts, Zenon
<1>4. \A g \in Flows : heap'[g] # None => KeyedIn(heap'[g], g, table')
  <2>1. CASE KeysKept
    BY <1>1, <2>1, Zenon DEF KeysKept, KeyedIn, Live
  <2>2. ASSUME NEW f \in Flows, Freed(f), NEW g \in Flows, heap'[g] # None
        PROVE  KeyedIn(heap'[g], g, table')
    <3>1. g # f /\ heap'[g] = heap[g] /\ KeyedIn(heap[g], g, table) /\ KeyedIn(heap[f], f, table)
      BY <1>1, <2>2, Zenon DEF Freed, OthersKept, Live
    <3> DEFINE k == heap[g].key["ORG"]
    <3>2. OutKey(k) => k \notin KeysOf(heap[f])
      BY <3>1, Zenon DEF KeyedIn, KeysOf
    <3>3. OutKey(k) => table'[k] = table[k]
      BY <1>3, <2>2, <3>1, <3>2, Zenon DEF Freed, Without, KeyedIn
    <3> QED
      BY <3>1, <3>3, Zenon DEF KeyedIn
  <2>3. ASSUME NEW f \in Flows, NEW a \in dp_build_flow_key, Inserted(f, a),
               NEW g \in Flows, heap'[g] # None
        PROVE  KeyedIn(heap'[g], g, table')
    <3> DEFINE inv == dp_invert_flow_key(a.key)
    <3>1. a.key \in ArrivalKeys
      BY Zenon DEF ArrivalKeys
    <3>2. a.key \in Keys /\ inv \in Keys /\ ~OutKey(inv)
      BY <3>1, ArrivalKeyFacts, Zenon
    <3>3. /\ table' = [table EXCEPT ![a.key] = f, ![inv] = f] /\ table[a.key] = None
          /\ heap'[f].key["ORG"] = a.key /\ heap'[f].key["REPLY"] = inv /\ heap'[f].nat = "NONE"
      BY <2>3, Zenon DEF Inserted
    <3> HIDE DEF inv
    <3>4. \A k \in Keys : table'[k] = IF k \in {a.key, inv} THEN f ELSE table[k]
      BY <3>2, <3>3, Zenon DEF TypeOK
    <3>5. CASE g = f
      BY <3>1, <3>2, <3>3, <3>4, <3>5, Zenon DEF KeyedIn
    <3>6. CASE g # f
      <4>1. heap'[g] = heap[g] /\ KeyedIn(heap[g], g, table)
        BY <1>1, <2>3, <3>6, Zenon DEF Inserted, OthersKept, Live
      <4> DEFINE k == heap[g].key["ORG"]
      <4>2. OutKey(k) => k \notin {a.key, inv}
        BY <1>2, <3>2, <3>3, <4>1, Zenon DEF KeyedIn
      <4>3. OutKey(k) => table'[k] = table[k]
        BY <1>3, <3>4, <4>1, <4>2, Zenon DEF KeyedIn
      <4> QED
        BY <4>1, <4>3, Zenon DEF KeyedIn
    <3> QED
      BY <3>5, <3>6, Zenon
  <2>4. ASSUME NEW f \in Flows, Rekeyed(f), NEW g \in Flows, heap'[g] # None
        PROVE  KeyedIn(heap'[g], g, table')
    <3> DEFINE old == heap[f].key["REPLY"]
               new == heap'[f].key["REPLY"]
               org == heap[f].key["ORG"]
    <3>1. KeyedIn(heap[f], f, table) /\ heap'[f].key["ORG"] = org
      BY <1>1, <2>4, Zenon DEF Rekeyed
    <3>2. ~OutKey(new) /\ (heap'[f].nat = "NETWORK_LOCAL" => OutKey(org))
      <4>1. CASE Relayed(f)
        BY <3>1, <4>1, Zenon DEF Relayed, KeyedIn
      <4>2. CASE DstTranslated(f)
        <5>1. org.vnf = "UNDEFINED"
          BY <3>1, <4>2, ArrivalKeyFacts, Zenon DEF DstTranslated, KeyedIn
        <5> QED
          BY <3>1, <4>2, <5>1, Zenon DEF DstTranslated, KeyedIn, OutKey
      <4>3. CASE SrcTranslated(f)
        <5>1. new.src \in Exts /\ new.src \notin VMs
          BY <4>3, EndpointKinds, Zenon DEF SrcTranslated
        <5> QED
          BY <4>3, <5>1, Zenon DEF SrcTranslated, OutKey
      <4> QED
        BY <2>4, <4>1, <4>2, <4>3, Zenon DEF Rekeyed
    <3>3. \A k \in Keys : OutKey(k) => table'[k] = table[k]
      BY <2>4, <3>1, <3>2, Zenon DEF Rekeyed, KeyedIn
    <3>4. CASE g = f
      BY <1>3, <3>1, <3>2, <3>3, <3>4, Zenon DEF KeyedIn
    <3>5. CASE g # f
      <4>1. heap'[g] = heap[g] /\ KeyedIn(heap[g], g, table)
        BY <1>1, <2>4, <3>5, Zenon DEF Rekeyed, OthersKept, Live
      <4> QED
        BY <1>3, <3>3, <4>1, Zenon DEF KeyedIn
    <3> QED
      BY <3>4, <3>5, Zenon
  <2> QED
    BY <2>1, <2>2, <2>3, <2>4, Zenon DEF Shape
<1>5. \A p \in Pkts : pkts'[p] # None => [port |-> pkts'[p].port, key |-> pkts'[p].key] \in dp_build_flow_key
  <2> SUFFICES ASSUME NEW p \in Pkts, pkts'[p] # None,
                      pkts[p] # None, pkts'[p].port = pkts[p].port, pkts'[p].key = pkts[p].key
               PROVE  [port |-> pkts'[p].port, key |-> pkts'[p].key] \in dp_build_flow_key
    BY Zenon DEF PacketsCarry
  <2>1. [port |-> pkts[p].port, key |-> pkts[p].key] \in dp_build_flow_key
    BY Zenon DEF KeyInv
  <2> QED
    BY <2>1
<1> QED
  BY <1>4, <1>5, Zenon DEF KeyInv, KeyedIn, Live

\* The invariants about keys and ports, together.
FlowInv == TypeOK /\ MemorySafe /\ NatAll /\ KeyInv

\* They hold at first,
LEMMA InitFlows == Init => FlowInv
<1>1. Init => KeyInv
  BY Zenon DEF Init, KeyInv, Live
<1> QED
  BY <1>1, InitSafe, InitNat, Zenon DEF FlowInv

\* and in every reachable state.
LEMMA FlowInvariant == Spec => []FlowInv
<1>1. Init => FlowInv
  BY InitFlows, Zenon
<1>2. FlowInv /\ [Next]_vars => FlowInv'
  <2> SUFFICES ASSUME FlowInv, [Next]_vars PROVE FlowInv'
    BY Zenon
  <2>1. TypeOK /\ MemorySafe /\ NatAll /\ KeyInv
    BY Zenon DEF FlowInv
  <2>2. TypeOK' /\ MemorySafe' /\ NatAll'
    BY <2>1, StepSafe, StepNat, Zenon
  <2>3. KeyInv'
    BY <2>1, StepShape, StepKeys, Zenon
  <2> QED
    BY <2>2, <2>3, Zenon DEF FlowInv
<1> QED
  BY <1>1, <1>2, PTL DEF Spec

\* In every configuration and whatever fails, the entry of the original key of a
\* flow with a NAT port leads to that flow: no other flow that is inserted,
\* rewritten or freed (flow_table_insert_entry, dnat_node, snat_node,
\* dp_free_flow) takes the entry away, so no connection gets a second port.
THEOREM NatFlowsFound == Spec => []NatFlowFound
<1>1. FlowInv => NatFlowFound
  BY Zenon DEF FlowInv, KeyInv, NatFlowFound
<1> QED
  BY <1>1, FlowInvariant, PTL

-----------------------------------------------------------------------------
\* Flows that can always be aged.

\* Inverting twice gives the key back.
LEMMA InvertTwice ==
    ASSUME NEW k \in Keys
    PROVE  /\ dp_invert_flow_key(dp_invert_flow_key(k)) = k
           /\ dp_invert_flow_key(k).src = k.dst /\ dp_invert_flow_key(k).dst = k.src
  BY Zenon DEF dp_invert_flow_key, Keys

\* What EntryInv says of the fields fl of flow g, in table t.
EntriesIn(fl, g, t) ==
    /\ fl.key["REPLY"] = dp_invert_flow_key(fl.key["ORG"])
    /\ t[fl.key["ORG"]] = g
    /\ fl.key["ORG"].dst \notin NeighNats => t[fl.key["REPLY"]] = g

\* An interface or an outside endpoint sends, never a neighbour's NAT address.
LEMMA SourceKind ==
    ASSUME NEW k \in ArrivalKeys PROVE k \in Keys /\ k.src \notin NeighNats
<1>1. k \in Keys /\ k.src \in VMs \cup Exts
  BY ArrivalKeyFacts, Zenon
<1> QED
  BY <1>1, EndpointKinds, Zenon

\* Two flows share no entry that one of them needs.
LEMMA EntriesApart ==
    ASSUME KeyInv, EntryInv, NEW f \in Flows, NEW g \in Flows, f # g, Live(f), Live(g)
    PROVE  /\ heap[g].key["ORG"] \notin KeysOf(heap[f])
           /\ heap[g].key["ORG"].dst \notin NeighNats => heap[g].key["REPLY"] \notin KeysOf(heap[f])
<1> DEFINE a == heap[f].key["ORG"]
           b == heap[g].key["ORG"]
           ra == heap[f].key["REPLY"]
           rb == heap[g].key["REPLY"]
<1>1. /\ ra = dp_invert_flow_key(a) /\ table[a] = f /\ (a.dst \notin NeighNats => table[ra] = f)
      /\ rb = dp_invert_flow_key(b) /\ table[b] = g /\ (b.dst \notin NeighNats => table[rb] = g)
  BY Zenon DEF EntryInv
<1>2. a \in ArrivalKeys /\ b \in ArrivalKeys
  BY Zenon DEF KeyInv
<1>3. a \in Keys /\ b \in Keys /\ b.src \notin NeighNats
  BY <1>2, SourceKind, Zenon
<1>4. KeysOf(heap[f]) = {a, ra}
  BY Zenon DEF KeysOf
<1> HIDE DEF a, b, ra, rb
<1>5. a # b
  BY <1>1, Zenon
<1>6. b # ra
  BY <1>1, <1>3, InvertTwice, Zenon
<1>7. rb # ra
  BY <1>1, <1>3, <1>5, InvertTwice, Zenon
<1>8. b.dst \notin NeighNats => rb # a
  BY <1>1, Zenon
<1> QED
  BY <1>4, <1>5, <1>6, <1>7, <1>8, Zenon DEF b, rb

\* EntryInv is preserved by every shape of a step, where nothing is translated.
LEMMA StepEntries ==
    ASSUME TypeOK, NoTranslation, KeyInv, EntryInv, Shape
    PROVE  EntryInv'
<1>1. \A g \in Flows : Live(g) => EntriesIn(heap[g], g, table)
  BY Zenon DEF EntryInv, EntriesIn
<1>2. \A g \in Flows : Live(g) => heap[g].key["ORG"] \in Keys /\ heap[g].key["REPLY"] \in Keys
  BY Zenon DEF TypeOK, Live, FlowValues, Dirs
<1>3. \A g \in Flows : g # None
  BY ConstantsAssumption, Zenon
<1>4. \A g \in Flows : heap'[g] # None => EntriesIn(heap'[g], g, table')
  <2>1. CASE KeysKept
    BY <1>1, <2>1, Zenon DEF KeysKept, EntriesIn, Live
  <2>2. ASSUME NEW f \in Flows, Live(f), NEW g \in Flows, g # f, heap'[g] # None, OthersKept(f),
               \A k \in Keys : k \notin KeysOf(heap[f]) => table'[k] = table[k]
        PROVE  EntriesIn(heap'[g], g, table')
    <3>1. heap'[g] = heap[g] /\ Live(g) /\ EntriesIn(heap[g], g, table)
      BY <1>1, <2>2, Zenon DEF OthersKept, Live
    <3>2. /\ heap[g].key["ORG"] \notin KeysOf(heap[f])
          /\ heap[g].key["ORG"].dst \notin NeighNats => heap[g].key["REPLY"] \notin KeysOf(heap[f])
      BY <2>2, <3>1, EntriesApart, Zenon
    <3> QED
      BY <1>2, <2>2, <3>1, <3>2, Zenon DEF EntriesIn
  <2>3. ASSUME NEW f \in Flows, Freed(f), NEW g \in Flows, heap'[g] # None
        PROVE  EntriesIn(heap'[g], g, table')
    <3>1. \A k \in Keys : k \notin KeysOf(heap[f]) => table'[k] = table[k]
      BY <2>3, Zenon DEF Freed, Without
    <3>2. g # f /\ Live(f) /\ OthersKept(f)
      BY <2>3, Zenon DEF Freed
    <3> QED
      BY <2>2, <2>3, <3>1, <3>2, Zenon
  <2>4. ASSUME NEW f \in Flows, NEW a \in dp_build_flow_key, Inserted(f, a),
               NEW g \in Flows, heap'[g] # None
        PROVE  EntriesIn(heap'[g], g, table')
    <3> DEFINE inv == dp_invert_flow_key(a.key)
    <3>1. /\ a.key \in Keys /\ inv \in Keys /\ a.key.src \notin NeighNats
          /\ dp_invert_flow_key(inv) = a.key /\ inv.dst = a.key.src
      <4>1. a.key \in ArrivalKeys
        BY Zenon DEF ArrivalKeys
      <4>2. a.key \in Keys /\ a.key.src \notin NeighNats
        BY <4>1, SourceKind, Zenon
      <4> QED
        BY <4>2, InvertType, InvertTwice, Zenon
    <3>2. /\ table' = [table EXCEPT ![a.key] = f, ![inv] = f] /\ table[a.key] = None
          /\ heap'[f].key["ORG"] = a.key /\ heap'[f].key["REPLY"] = dp_invert_flow_key(a.key)
      BY <2>4, Zenon DEF Inserted
    <3>3. \A k \in Keys : table'[k] = IF k \in {a.key, inv} THEN f ELSE table[k]
      BY <3>1, <3>2, Zenon DEF TypeOK
    <3>4. CASE g = f
      BY <3>1, <3>2, <3>3, <3>4, Zenon DEF EntriesIn
    <3>5. CASE g # f
      <4> DEFINE b == heap[g].key["ORG"]
                 rb == heap[g].key["REPLY"]
      <4>1. heap'[g] = heap[g] /\ Live(g)
        BY <2>4, <3>5, Zenon DEF Inserted, OthersKept, Live
      <4>2. /\ b \in Keys /\ rb \in Keys /\ rb = dp_invert_flow_key(b)
            /\ table[b] = g /\ (b.dst \notin NeighNats => table[rb] = g)
        BY <1>1, <1>2, <4>1, Zenon DEF EntriesIn
      <4> HIDE DEF inv, b, rb
      <4>3. b # a.key
        BY <1>3, <3>2, <4>2, Zenon
      <4>4. b # inv
        BY <1>3, <3>1, <3>2, <4>2, Zenon
      <4>5. rb # inv
        BY <3>1, <4>2, <4>3, InvertTwice, Zenon
      <4>6. b.dst \notin NeighNats => rb # a.key
        BY <1>3, <3>2, <4>2, Zenon
      <4>7. table'[b] = g /\ (b.dst \notin NeighNats => table'[rb] = g)
        BY <3>3, <4>2, <4>3, <4>4, <4>5, <4>6, Zenon
      <4> QED
        BY <4>1, <4>2, <4>7, Zenon DEF EntriesIn, b, rb
    <3> QED
      BY <3>4, <3>5, Zenon
  <2>5. ASSUME NEW f \in Flows, Rekeyed(f), NEW g \in Flows, heap'[g] # None
        PROVE  EntriesIn(heap'[g], g, table')
    <3> DEFINE org == heap[f].key["ORG"]
               reply == heap[f].key["REPLY"]
    <3>1. Live(f) /\ OthersKept(f) /\ (Relayed(f) \/ DstTranslated(f) \/ SrcTranslated(f))
      BY <2>5, Zenon DEF Rekeyed
    <3>2. ~DstTranslated(f) /\ ~SrcTranslated(f)
      <4>1. "none" \notin Vips
        BY EndpointKinds, Zenon
      <4> QED
        BY <4>1, Zenon DEF NoTranslation, DstTranslated, SrcTranslated
    <3>3. org.dst \in NeighNats /\ heap'[f].key = heap[f].key
      BY <3>1, <3>2, Zenon DEF Relayed
    <3>4. \A k \in Keys : k # reply => table'[k] = table[k]
      BY <2>5, <3>3, Zenon DEF Rekeyed
    <3>5. CASE g = f
      <4>1. org \in ArrivalKeys
        BY <3>1, Zenon DEF KeyInv
      <4>2. org # reply
        <5>1. org \in Keys /\ org.src \notin NeighNats
          BY <4>1, SourceKind, Zenon
        <5>2. reply = dp_invert_flow_key(org)
          BY <1>1, <3>1, Zenon DEF EntriesIn
        <5> HIDE DEF org, reply
        <5> QED
          BY <3>3, <5>1, <5>2, InvertTwice, Zenon
      <4>3. table'[org] = f
        BY <1>1, <1>2, <3>1, <3>4, <4>2, Zenon DEF EntriesIn
      <4> QED
        BY <1>1, <3>1, <3>3, <3>5, <4>3, Zenon DEF EntriesIn
    <3>6. CASE g # f
      <4>1. \A k \in Keys : k \notin KeysOf(heap[f]) => table'[k] = table[k]
        BY <3>4, Zenon DEF KeysOf
      <4> QED
        BY <2>2, <2>5, <3>1, <3>6, <4>1, Zenon
    <3> QED
      BY <3>5, <3>6, Zenon
  <2> QED
    BY <2>1, <2>3, <2>4, <2>5, Zenon DEF Shape
<1> QED
  BY <1>4, Zenon DEF EntryInv, EntriesIn, Live

\* Where no interface has a virtual IP or NAT, and whatever fails, every flow has
\* the table entry of its original key for as long as it lives, so the iteration
\* of the aging reaches it (flow_table_insert_entry, dnat_node, dp_free_flow).
THEOREM FlowsNeverOrphaned ==
    ASSUME NoTranslation
    PROVE  Spec => []NoOrphanFlow
<1>1. Init => EntryInv
  BY Zenon DEF Init, EntryInv, Live
<1>2. FlowInv /\ EntryInv /\ [Next]_vars => EntryInv'
  <2> SUFFICES ASSUME FlowInv, EntryInv, [Next]_vars PROVE EntryInv'
    BY Zenon
  <2>1. TypeOK /\ MemorySafe /\ NatAll /\ KeyInv
    BY Zenon DEF FlowInv
  <2> QED
    BY <2>1, StepShape, StepEntries, Zenon
<1>3. FlowInv /\ EntryInv => NoOrphanFlow
  <2> SUFFICES ASSUME FlowInv, EntryInv, NEW f \in Flows, Live(f) PROVE \E k \in Keys : table[k] = f
    BY Zenon DEF NoOrphanFlow
  <2>1. heap[f].key["ORG"] \in Keys
    BY Zenon DEF FlowInv, TypeOK, Live, FlowValues, Dirs
  <2> QED
    BY <2>1, Zenon DEF EntryInv
<1> QED
  BY <1>1, <1>2, <1>3, FlowInvariant, PTL DEF Spec

-----------------------------------------------------------------------------
\* References and hardware rules.

\* The rules of flow f in rule memory x, those with an entry in rte_age_ctxs[],
\* and what RefInv says of the fields fl of f.
RulesOf(x, f) == {c \in Ctxs : x[c] # None /\ x[c].flow = f}
StoredIn(x, f) == {c \in RulesOf(x, f) : x[c].stored}
CountedIn(fl, x, f) == fl.ref >= 1 /\ fl.ref = Cardinality(RulesOf(x, f)) + TableRef(fl)

RefIn(h, x) ==
    /\ \A f \in Flows : h[f] # None => CountedIn(h[f], x, f)
    /\ \A c \in Ctxs : x[c] # None => h[x[c].flow] # None
    /\ \A f \in Flows : Cardinality(StoredIn(x, f)) <= AgeCtxCapacity

\* The two readings agree, before and after a step.
LEMMA RefsPointwise == (RefInv <=> RefIn(heap, ctx)) /\ (RefInv' <=> RefIn(heap', ctx'))
<1>1. \A f : CtxsOf(f) = RulesOf(ctx, f) /\ Stored(f) = StoredIn(ctx, f)
  BY Zenon DEF CtxsOf, RulesOf, Stored, StoredIn
<1>2. RefInv <=> RefIn(heap, ctx)
  BY <1>1, Zenon DEF RefInv, RefIn, CountedIn, Live
<1>3. ASSUME NEW f PROVE (CtxsOf(f) = RulesOf(ctx, f) /\ Stored(f) = StoredIn(ctx, f))'
  BY Zenon DEF CtxsOf, RulesOf, Stored, StoredIn
<1>4. RefInv' <=> RefIn(heap', ctx')
  BY <1>3, Zenon DEF RefInv, RefIn, CountedIn, Live
<1> QED
  BY <1>2, <1>4, Zenon

\* Sets of rules are finite, and so are their parts.
LEMMA RuleSets ==
    ASSUME NEW x, NEW f
    PROVE  /\ RulesOf(x, f) \subseteq Ctxs /\ IsFiniteSet(RulesOf(x, f))
           /\ StoredIn(x, f) \subseteq RulesOf(x, f) /\ IsFiniteSet(StoredIn(x, f))
           /\ Cardinality(RulesOf(x, f)) \in Nat /\ Cardinality(StoredIn(x, f)) \in Nat
<1>1. RulesOf(x, f) \in SUBSET Ctxs /\ StoredIn(x, f) \in SUBSET Ctxs
  BY Zenon DEF RulesOf, StoredIn
<1>2. StoredIn(x, f) \subseteq RulesOf(x, f)
  BY Zenon DEF StoredIn
<1> QED
  BY <1>1, <1>2, RulesFinite, Zenon

\* RefInv survives steps that keep rules and references.
LEMMA RefsStay == ASSUME TypeOK, RefInv, RefsKept PROVE RefInv'
<1>1. RefIn(heap, ctx) /\ ctx' = ctx
  BY RefsPointwise, Zenon DEF RefsKept
<1>2. ASSUME NEW f \in Flows, heap'[f] # None PROVE CountedIn(heap'[f], ctx, f)
  <2>1. CASE Live(f)
    BY <1>1, <1>2, <2>1, Zenon DEF RefIn, RefsKept, CountedIn, TableRef, Live
  <2>2. CASE ~Live(f)
    <3>1. RulesOf(ctx, f) = {}
      BY <1>1, <2>2, Zenon DEF RefIn, RulesOf, Live
    <3>2. heap'[f].ref = 1 /\ heap'[f].aged = FALSE
      BY <1>2, <2>2, Zenon DEF RefsKept, Live
    <3>3. Cardinality(RulesOf(ctx, f)) = 0
      BY <3>1, FS_EmptySet, Zenon
    <3> QED
      BY <3>2, <3>3 DEF CountedIn, TableRef
  <2> QED
    BY <2>1, <2>2, Zenon
<1>3. \A c \in Ctxs : ctx[c] # None => heap'[ctx[c].flow] # None
  BY <1>1, Zenon DEF RefIn, RefsKept, Live, TypeOK, AgeCtxs
<1>4. RefIn(heap', ctx')
  BY <1>1, <1>2, <1>3, Zenon DEF RefIn
<1> QED
  BY <1>4, RefsPointwise, Zenon

\* Disjoint sets add up,
LEMMA CardinalityAdds ==
    ASSUME NEW S, NEW C, IsFiniteSet(S), IsFiniteSet(C), S \cap C = {}
    PROVE  Cardinality(S \cup C) = Cardinality(S) + Cardinality(C)
<1>0. Cardinality(S \cup C) = Cardinality(S) + Cardinality(C) - Cardinality(S \cap C)
  BY FS_Union, Zenon
<1>1. Cardinality(S \cup C) = Cardinality(S) + Cardinality(C) - 0
  <2>1. Cardinality(S \cap C) = 0
    BY FS_EmptySet, Zenon
  <2> QED
    BY <1>0, <2>1, Zenon
<1>2. Cardinality(S) \in Nat /\ Cardinality(C) \in Nat
  BY FS_CardinalityType, Zenon
<1> DEFINE m == Cardinality(S)
           n == Cardinality(C)
<1> HIDE DEF m, n
<1>3. m + n - 0 = m + n
  BY <1>2 DEF m, n
<1> QED
  BY <1>1, <1>3, Zenon DEF m, n

\* and parts are taken away.
LEMMA CardinalityLess ==
    ASSUME NEW S, NEW C, IsFiniteSet(S), C \subseteq S
    PROVE  Cardinality(S \ C) = Cardinality(S) - Cardinality(C)
<1>1. S \cap C = C
  BY Zenon
<1> QED
  BY <1>1, FS_Difference, Zenon

\* New rules C for flow f take a reference each.
LEMMA RefsTaken ==
    ASSUME TypeOK, RefInv, NEW f \in Flows, heap[f] \in FlowValues, NEW fl \in FlowValues,
           NEW C \in SUBSET {c \in Ctxs : ctx[c] = None}, NEW r \in AgeCtxs, r.flow = f,
           ctx' = [c \in Ctxs |-> IF c \in C THEN r ELSE ctx[c]],
           heap' = [heap EXCEPT ![f] = fl],
           fl.ref = heap[f].ref + Cardinality(C), fl.aged = heap[f].aged,
           r.stored => Cardinality(StoredIn(ctx, f)) + Cardinality(C) <= AgeCtxCapacity
    PROVE  RefInv'
<1>1. RefIn(heap, ctx)
  BY RefsPointwise, Zenon
<1>2. heap'[f] = fl /\ fl # None /\ \A g \in Flows \ {f} : heap'[g] = heap[g]
  BY FlowSet, Zenon
<1>3. r # None /\ heap[f] # None
  BY ConstantsAssumption, Zenon
<1>4. C \in SUBSET Ctxs /\ IsFiniteSet(C) /\ Cardinality(C) \in Nat
  BY RulesFinite, Zenon
<1>5. \A c \in Ctxs : ctx'[c] = IF c \in C THEN r ELSE ctx[c]
  BY Zenon
<1>6. /\ RulesOf(ctx', f) = RulesOf(ctx, f) \cup C /\ RulesOf(ctx, f) \cap C = {}
      /\ StoredIn(ctx, f) \cap C = {}
      /\ r.stored => StoredIn(ctx', f) = StoredIn(ctx, f) \cup C
      /\ ~r.stored => StoredIn(ctx', f) = StoredIn(ctx, f)
  BY <1>3, <1>4, <1>5 DEF RulesOf, StoredIn
<1>7. \A g \in Flows \ {f} : RulesOf(ctx', g) = RulesOf(ctx, g) /\ StoredIn(ctx', g) = StoredIn(ctx, g)
  BY <1>4, <1>5 DEF RulesOf, StoredIn
<1>8. CountedIn(fl, ctx', f)
  <2> DEFINE m == Cardinality(RulesOf(ctx, f))
             n == Cardinality(C)
             b == TableRef(heap[f])
             k == heap[f].ref
  <2>1. Cardinality(RulesOf(ctx', f)) = m + n
    BY <1>4, <1>6, RuleSets, CardinalityAdds, Zenon
  <2>2. k >= 1 /\ k = m + b /\ fl.ref = k + n /\ TableRef(fl) = b
    BY <1>1, <1>3, Zenon DEF RefIn, CountedIn, TableRef
  <2>3. m \in Nat /\ n \in Nat /\ b \in Nat
    BY <1>4, RuleSets DEF TableRef
  <2> HIDE DEF m, n, b, k
  <2>4. k + n >= 1 /\ k + n = (m + n) + b
    BY <2>2, <2>3
  <2> QED
    BY <2>1, <2>2, <2>4, Zenon DEF CountedIn
<1>9. Cardinality(StoredIn(ctx', f)) <= AgeCtxCapacity
  <2>1. CASE r.stored
    <3>1. IsFiniteSet(StoredIn(ctx, f)) /\ StoredIn(ctx, f) \cap C = {}
      BY <1>6, RuleSets, Zenon
    <3>2. Cardinality(StoredIn(ctx, f) \cup C) = Cardinality(StoredIn(ctx, f)) + Cardinality(C)
      BY <1>4, <3>1, CardinalityAdds, Zenon
    <3> QED
      BY <1>6, <2>1, <3>2, Zenon
  <2>2. CASE ~r.stored
    BY <1>1, <1>6, <2>2, Zenon DEF RefIn
  <2> QED
    BY <2>1, <2>2, Zenon
<1>10. ASSUME NEW g \in Flows, heap'[g] # None PROVE CountedIn(heap'[g], ctx', g)
  <2>1. CASE g = f
    BY <1>2, <1>8, <2>1, Zenon
  <2>2. CASE g # f
    <3>1. heap'[g] = heap[g] /\ RulesOf(ctx', g) = RulesOf(ctx, g)
      BY <1>2, <1>7, <2>2, Zenon
    <3>2. CountedIn(heap[g], ctx, g)
      BY <1>1, <1>10, <3>1, Zenon DEF RefIn
    <3> QED
      BY <3>1, <3>2, Zenon DEF CountedIn
  <2> QED
    BY <2>1, <2>2, Zenon
<1>11. ASSUME NEW c \in Ctxs, ctx'[c] # None PROVE heap'[ctx'[c].flow] # None
  <2>1. CASE c \in C
    BY <1>2, <1>5, <2>1, Zenon
  <2>2. CASE c \notin C
    BY <1>1, <1>2, <1>5, <1>11, <2>2, Zenon DEF RefIn, TypeOK, AgeCtxs
  <2> QED
    BY <2>1, <2>2, Zenon
<1>12. \A g \in Flows : Cardinality(StoredIn(ctx', g)) <= AgeCtxCapacity
  BY <1>1, <1>7, <1>9, Zenon DEF RefIn
<1>13. RefIn(heap', ctx')
  BY <1>10, <1>11, <1>12, Zenon DEF RefIn
<1> QED
  BY <1>13, RefsPointwise, Zenon

\* Destroyed rules C of flow f, and its own entry when it is aged, give theirs back;
\* with the last one the flow goes, and no rule of it is left.
LEMMA RefsReturned ==
    ASSUME TypeOK, RefInv, NEW f \in Flows, heap[f] \in FlowValues, NEW fl \in FlowValues,
           NEW C \in SUBSET RulesOf(ctx, f), NEW n,
           ctx' = [c \in Ctxs |-> IF c \in C THEN None ELSE ctx[c]],
           fl.ref = heap[f].ref, n + TableRef(fl) = Cardinality(C) + TableRef(heap[f]), n \in Nat,
           \/ fl.ref = n /\ heap' = [heap EXCEPT ![f] = None]
           \/ fl.ref # n /\ heap' = [heap EXCEPT ![f] = [fl EXCEPT !.ref = @ - n]]
    PROVE  RefInv'
<1> DEFINE S == RulesOf(ctx, f)
           left == S \ C
           p == Cardinality(S)
           q == Cardinality(C)
           l == Cardinality(left)
           b == TableRef(heap[f])
           d == TableRef(fl)
           k == heap[f].ref
<1>1. RefIn(heap, ctx)
  BY RefsPointwise, Zenon
<1>2. IsFiniteSet(S) /\ C \subseteq S /\ C \in SUBSET Ctxs
  BY RuleSets, Zenon
<1>3. \A c \in Ctxs : ctx'[c] = IF c \in C THEN None ELSE ctx[c]
  BY Zenon
<1>4. RulesOf(ctx', f) = left
  BY <1>3 DEF RulesOf
<1>5. \A g \in Flows \ {f} : RulesOf(ctx', g) = RulesOf(ctx, g)
  BY <1>3 DEF RulesOf
<1>6. \A g \in Flows : StoredIn(ctx', g) \in SUBSET StoredIn(ctx, g)
  BY <1>3, Zenon DEF RulesOf, StoredIn
<1>7. p \in Nat /\ q \in Nat /\ l \in Nat /\ l = p - q
  <2>1. IsFiniteSet(left) /\ IsFiniteSet(C)
    BY <1>2, FS_Subset, Zenon
  <2>2. l = p - q
    BY <1>2, CardinalityLess, Zenon
  <2> QED
    BY <1>2, <2>1, <2>2, FS_CardinalityType, Zenon
<1>8. b \in {0, 1} /\ d \in {0, 1}
  BY Zenon DEF TableRef
<1>9. k = p + b
  BY <1>1, ConstantsAssumption, Zenon DEF RefIn, CountedIn
<1>10. n + d = q + b /\ k - n = l + d
  <2> HIDE DEF p, q, l, b, d, k
  <2>1. n + d = q + b
    BY Zenon DEF q, b, d
  <2> QED
    BY <1>7, <1>8, <1>9, <2>1
<1>11. \A g \in Flows : Cardinality(StoredIn(ctx', g)) <= AgeCtxCapacity
  <2> SUFFICES ASSUME NEW g \in Flows PROVE Cardinality(StoredIn(ctx', g)) <= AgeCtxCapacity
    BY Zenon
  <2> DEFINE x == Cardinality(StoredIn(ctx', g))
             y == Cardinality(StoredIn(ctx, g))
  <2>1. x <= y
    BY <1>6, RuleSets, FS_Subset, Zenon
  <2>2. x \in Nat /\ y \in Nat
    BY RuleSets, Zenon
  <2>3. y <= AgeCtxCapacity /\ AgeCtxCapacity \in Nat
    BY <1>1, ConstantsAssumption, Zenon DEF RefIn
  <2> HIDE DEF x, y
  <2>4. x <= AgeCtxCapacity
    BY <2>1, <2>2, <2>3
  <2> QED
    BY <2>4, Zenon DEF x
<1>12. ASSUME \A g \in Flows \ {f} : heap'[g] = heap[g],
              heap'[f] # None => CountedIn(heap'[f], ctx', f),
              heap'[f] = None => left = {}
       PROVE  RefInv'
  <2>1. ASSUME NEW g \in Flows, heap'[g] # None PROVE CountedIn(heap'[g], ctx', g)
    <3>1. CASE g = f
      BY <1>12, <2>1, <3>1, Zenon
    <3>2. CASE g # f
      <4>1. heap'[g] = heap[g] /\ RulesOf(ctx', g) = RulesOf(ctx, g)
        BY <1>5, <1>12, <3>2, Zenon
      <4>2. CountedIn(heap[g], ctx, g)
        BY <1>1, <2>1, <4>1, Zenon DEF RefIn
      <4> QED
        BY <4>1, <4>2, Zenon DEF CountedIn
    <3> QED
      BY <3>1, <3>2, Zenon
  <2>2. ASSUME NEW c \in Ctxs, ctx'[c] # None PROVE heap'[ctx'[c].flow] # None
    <3>1. c \notin C /\ ctx'[c] = ctx[c] /\ ctx[c].flow \in Flows /\ heap[ctx[c].flow] # None
      BY <1>1, <1>3, <2>2, Zenon DEF RefIn, TypeOK, AgeCtxs
    <3>2. CASE ctx[c].flow = f
      BY <1>12, <2>2, <3>1, <3>2, Zenon DEF RulesOf
    <3>3. CASE ctx[c].flow # f
      BY <1>12, <3>1, <3>3, Zenon
    <3> QED
      BY <3>2, <3>3, Zenon
  <2>3. RefIn(heap', ctx')
    BY <1>11, <2>1, <2>2, Zenon DEF RefIn
  <2> QED
    BY <2>3, RefsPointwise, Zenon
<1>13. CASE fl.ref = n /\ heap' = [heap EXCEPT ![f] = None]
  <2>1. l = 0
    <3>1. k = n
      BY <1>13, Zenon
    <3> HIDE DEF p, q, l, b, d, k
    <3> QED
      BY <1>7, <1>8, <1>9, <1>10, <3>1
  <2>2. left = {}
    BY <1>2, <2>1, FS_EmptySet, FS_Subset, Zenon
  <2>3. heap'[f] = None /\ \A g \in Flows \ {f} : heap'[g] = heap[g]
    BY <1>13, Zenon DEF TypeOK
  <2> QED
    BY <1>12, <2>2, <2>3, Zenon
<1>14. CASE fl.ref # n /\ heap' = [heap EXCEPT ![f] = [fl EXCEPT !.ref = @ - n]]
  <2> DEFINE less == [fl EXCEPT !.ref = @ - n]
  <2>1. less.ref = k - n /\ less.aged = fl.aged
    BY Zenon DEF FlowValues
  <2>2. less \in FlowValues
    BY DEF FlowValues
  <2>3. heap' = [heap EXCEPT ![f] = less]
    BY <1>14, Zenon
  <2> HIDE DEF less
  <2>4. heap'[f] = less /\ less # None /\ \A g \in Flows \ {f} : heap'[g] = heap[g]
    BY <2>2, <2>3, FlowSet, Zenon
  <2>5. k - n >= 1
    <3>1. k # n
      BY <1>14, Zenon
    <3>2. k \in Int
      BY Zenon DEF FlowValues
    <3> HIDE DEF p, q, l, b, d, k
    <3> QED
      BY <1>7, <1>8, <1>10, <3>1, <3>2
  <2>6. CountedIn(less, ctx', f)
    BY <1>4, <1>10, <2>1, <2>5, Zenon DEF CountedIn, TableRef
  <2> QED
    BY <1>12, <2>4, <2>6, Zenon
<1> QED
  BY <1>13, <1>14, Zenon

\* Offloading a packet's flow takes one reference per rule, if it succeeds.
LEMMA TxRefs ==
    ASSUME TypeOK, MemorySafe, RefInv, NEW p \in Pkts, tx_node_process(p)
    PROVE  RefInv'
<1> DEFINE pk == pkts[p]
           f == pk.flow
<1>1. pk \in Packets /\ f \in Flows /\ heap[f] \in FlowValues
  BY Reached, Zenon DEF tx_node_process
<1>2. /\ Sent(pk) \in FlowValues /\ Sent(pk).key = heap[f].key /\ Sent(pk).nat = heap[f].nat
      /\ Sent(pk).ref = heap[f].ref /\ Sent(pk).aged = heap[f].aged
  BY <1>1, SentType, Zenon
<1>3. CASE heap' = [heap EXCEPT ![f] = Sent(pk)] /\ ctx' = ctx
  <2>1. Sent(pk).off = heap[f].off
    BY <1>1, Zenon DEF Sent, FlowValues
  <2>2. RefsKept
    BY <1>1, <1>2, <1>3, <2>1, WriteKeeps, Zenon
  <2> QED
    BY <2>2, RefsStay, Zenon
<1>4. ASSUME NEW C \in SUBSET {c \in Ctxs : ctx[c] = None},
             NeedsHandle(pk) => Cardinality(Stored(f)) + Cardinality(C) <= AgeCtxCapacity,
             ctx' = [c \in Ctxs |-> IF c \in C
                                    THEN [flow |-> pk.flow, dir |-> pk.dir, port |-> pk.port,
                                          stored |-> NeedsHandle(pk)]
                                    ELSE ctx[c]],
             heap' = [heap EXCEPT ![f] = [Sent(pk) EXCEPT !.ref = @ + Cardinality(C)]]
      PROVE  RefInv'
  <2> DEFINE r == [flow |-> pk.flow, dir |-> pk.dir, port |-> pk.port, stored |-> NeedsHandle(pk)]
             fl == [Sent(pk) EXCEPT !.ref = @ + Cardinality(C)]
  <2>1. r \in AgeCtxs /\ r.flow = f /\ r.stored = NeedsHandle(pk)
    BY <1>1, Zenon DEF AgeCtxs, Packets, NeedsHandle
  <2>2. Cardinality(C) \in Int
    <3>1. C \in SUBSET Ctxs
      BY Zenon
    <3>2. Cardinality(C) \in Nat
      BY <3>1, RulesFinite, Zenon
    <3> QED
      BY <3>2
  <2>3. fl \in FlowValues
    BY <1>2, <2>2 DEF FlowValues
  <2>4. fl.ref = heap[f].ref + Cardinality(C) /\ fl.aged = heap[f].aged
    BY <1>2, Zenon DEF FlowValues
  <2>5. Stored(f) = StoredIn(ctx, f)
    BY Zenon DEF Stored, StoredIn, CtxsOf, RulesOf
  <2>6. /\ ctx' = [c \in Ctxs |-> IF c \in C THEN r ELSE ctx[c]]
        /\ heap' = [heap EXCEPT ![f] = fl]
    BY <1>4, Zenon
  <2>7. r.stored => Cardinality(StoredIn(ctx, f)) + Cardinality(C) <= AgeCtxCapacity
    BY <1>4, <2>1, <2>5, Zenon
  <2>8. f \in Flows /\ heap[f] \in FlowValues /\ r.flow = f
    BY <1>1, <2>1, Zenon
  <2> HIDE DEF r, fl, f, pk
  <2> QED
    BY <2>1, <2>3, <2>4, <2>6, <2>7, <2>8, RefsTaken, Zenon
<1> QED
  <2>1. CASE pk.off = "INSTALL" /\ dp_offload_handler(pk)
    <3>1. \/ heap' = [heap EXCEPT ![f] = Sent(pk)] /\ ctx' = ctx
          \/ \E C \in SUBSET {c \in Ctxs : ctx[c] = None} :
                /\ NeedsHandle(pk) => Cardinality(Stored(f)) + Cardinality(C) <= AgeCtxCapacity
                /\ ctx' = [c \in Ctxs |-> IF c \in C
                                    THEN [flow |-> pk.flow, dir |-> pk.dir, port |-> pk.port,
                                          stored |-> NeedsHandle(pk)]
                                    ELSE ctx[c]]
                /\ heap' = [heap EXCEPT ![f] = [Sent(pk) EXCEPT !.ref = @ + Cardinality(C)]]
      BY <2>1, Zenon DEF dp_offload_handler
    <3> QED
      BY <1>3, <1>4, <3>1, Zenon
  <2>2. CASE pk.off # "INSTALL"
    BY <1>3, <2>2, Zenon DEF tx_node_process
  <2> QED
    BY <2>1, <2>2, Zenon DEF tx_node_process

\* A rule that the NIC has aged gives its reference back,
LEMMA AgedRuleRefs ==
    ASSUME TypeOK, RefInv, NEW c \in Ctxs, dp_destroy_rte_flow_agectx(c)
    PROVE  RefInv' /\ misuse' = misuse
<1> DEFINE f == ctx[c].flow
           fl == heap[f]
<1>1. ctx[c] # None /\ f \in Flows /\ Live(f)
  BY Zenon DEF dp_destroy_rte_flow_agectx, RefInv, TypeOK, AgeCtxs
<1>2. fl \in FlowValues
  BY <1>1, Zenon DEF Live, TypeOK
<1>3. dp_ref_dec(f, fl, 1) /\ misuse' = misuse /\ ctx' = [ctx EXCEPT ![c] = None]
  BY <1>1, Zenon DEF dp_destroy_rte_flow_agectx
<1>4. {c} \in SUBSET RulesOf(ctx, f)
  BY <1>1, Zenon DEF RulesOf
<1>5. ctx' = [x \in Ctxs |-> IF x \in {c} THEN None ELSE ctx[x]]
  BY <1>3, Zenon DEF TypeOK
<1>6. 1 + TableRef(fl) = Cardinality({c}) + TableRef(heap[f])
  BY FS_Singleton, Zenon
<1>7. \/ fl.ref = 1 /\ heap' = [heap EXCEPT ![f] = None]
      \/ fl.ref # 1 /\ heap' = [heap EXCEPT ![f] = [fl EXCEPT !.ref = @ - 1]]
  BY <1>3, Zenon DEF dp_ref_dec, dp_free_flow
<1>8. 1 \in Nat /\ fl.ref = heap[f].ref
  OBVIOUS
<1> HIDE DEF f, fl
<1>9. heap[f] \in FlowValues
  BY <1>2, Zenon DEF fl
<1>10. f \in Flows
  BY <1>1, Zenon
<1>11. RefInv'
  BY <1>2, <1>4, <1>5, <1>6, <1>7, <1>8, <1>9, <1>10, RefsReturned, Zenon
<1> QED
  BY <1>3, <1>11, Zenon

\* and so do the rules that an iteration destroys; a flow that was aged out
\* before must lose them all.
LEMMA VisitFlowRefs ==
    ASSUME TypeOK, RefInv, NEW f \in Flows, heap[f] \in FlowValues,
           NEW C \in SUBSET Stored(f), NEW out \in BOOLEAN, VisitFlow(f, C, out),
           out /\ heap[f].aged => C = CtxsOf(f)
    PROVE  RefInv'
<1> DEFINE fl == [heap[f] EXCEPT !.aged = @ \/ out]
           n == Cardinality(C) + (IF out THEN 1 ELSE 0)
           q == Cardinality(C)
<1>1. RefIn(heap, ctx) /\ CountedIn(heap[f], ctx, f)
  BY RefsPointwise, ConstantsAssumption, Zenon DEF RefIn
<1>2. C \in SUBSET RulesOf(ctx, f) /\ CtxsOf(f) = RulesOf(ctx, f)
  BY Zenon DEF Stored, CtxsOf, RulesOf
<1>3. q \in Nat
  BY <1>2, RuleSets, RulesFinite, Zenon
<1>4. ctx' = [c \in Ctxs |-> IF c \in C THEN None ELSE ctx[c]]
  BY Zenon DEF VisitFlow
<1>5. CASE heap[f].ref = q /\ dp_free_flow(f)
  <2>1. heap' = [heap EXCEPT ![f] = None]
    BY <1>5, Zenon DEF dp_free_flow
  <2> QED
    BY <1>2, <1>3, <1>4, <1>5, <2>1, RefsReturned, Zenon
<1>6. CASE heap[f].ref # q /\ dp_ref_dec(f, fl, n)
  <2>1. fl \in FlowValues /\ fl.ref = heap[f].ref /\ fl.aged = (heap[f].aged \/ out)
    BY Zenon DEF FlowValues
  <2>2. ~(out /\ heap[f].aged)
    <3> SUFFICES ASSUME out, heap[f].aged PROVE FALSE
      BY Zenon
    <3>1. heap[f].ref = q + 0
      BY <1>1, <1>2, Zenon DEF CountedIn, TableRef
    <3> HIDE DEF q
    <3>2. q + 0 = q
      BY <1>3
    <3> QED
      BY <1>6, <3>1, <3>2, Zenon
  <2>3. n \in Nat /\ n + TableRef(fl) = q + TableRef(heap[f])
    <3> HIDE DEF q, fl
    <3>1. CASE out
      <4>1. n = q + 1 /\ TableRef(fl) = 0 /\ TableRef(heap[f]) = 1
        BY <2>1, <2>2, <3>1, Zenon DEF TableRef, q
      <4> HIDE DEF n
      <4> QED
        BY <1>3, <4>1
    <3>2. CASE ~out
      <4>1. n = q + 0 /\ TableRef(fl) = TableRef(heap[f])
        BY <2>1, <3>2, Zenon DEF TableRef, q
      <4>2. q + 0 = q
        BY <1>3
      <4> HIDE DEF n
      <4> QED
        BY <1>3, <4>1, <4>2, Zenon
    <3> QED
      BY <3>1, <3>2, Zenon
  <2>4. \/ fl.ref = n /\ heap' = [heap EXCEPT ![f] = None]
        \/ fl.ref # n /\ heap' = [heap EXCEPT ![f] = [fl EXCEPT !.ref = @ - n]]
    BY <1>6, Zenon DEF dp_ref_dec, dp_free_flow
  <2>5. n + TableRef(fl) = Cardinality(C) + TableRef(heap[f])
    BY <2>3, Zenon
  <2> HIDE DEF fl, n, q
  <2> QED
    BY <1>2, <1>4, <2>1, <2>3, <2>4, <2>5, RefsReturned, Zenon
<1> QED
  BY <1>5, <1>6, Zenon DEF VisitFlow

\* Where removals are exact, reaching an entry is.
LEMMA VisitEntryRefs ==
    ASSUME RemovalsExact, TypeOK, MemorySafe, RefInv, ModeInv, NEW k \in Keys, VisitEntry(k)
    PROVE  RefInv'
<1> DEFINE f == table[k]
<1>1. f \in Flows /\ heap[f] \in FlowValues /\ k \in scan.todo
  BY Reached, Zenon DEF VisitEntry, MemorySafe, ScanOK
<1>2. scan.req # AgeRequest => scan.req \in Requests
  BY <1>1, Zenon DEF ModeInv
<1>3. (~offload_mode_enabled \/ AllRulesStored) =>
        CtxsOf(f) = IF offload_mode_enabled THEN Stored(f) ELSE {}
  BY Zenon DEF ModeInv, CtxsOf, Stored
<1>4. CASE \E C \in SUBSET Stored(f), out \in BOOLEAN :
                /\ VisitFlow(f, C, out)
                /\ \/ /\ scan.req = AgeRequest
                      /\ C # {} => offload_mode_enabled /\ k.proto = "TCP"
                      /\ out = (heap[f].idle /\ ~heap[f].aged)
                   \/ /\ scan.req # AgeRequest
                      /\ C = IF offload_mode_enabled THEN Stored(f) ELSE {}
                      /\ out = TRUE
  <2>1. PICK C \in SUBSET Stored(f), out \in BOOLEAN :
                /\ VisitFlow(f, C, out)
                /\ \/ scan.req = AgeRequest /\ out = (heap[f].idle /\ ~heap[f].aged)
                   \/ scan.req # AgeRequest /\ C = IF offload_mode_enabled THEN Stored(f) ELSE {}
    BY <1>4, Zenon
  <2>2. out /\ heap[f].aged => C = CtxsOf(f)
    BY <1>2, <1>3, <2>1, Zenon DEF RemovalsExact
  <2> HIDE DEF f
  <2> QED
    BY <1>1, <2>1, <2>2, VisitFlowRefs, Zenon
<1>5. CASE UNCHANGED <<heap, ctx>>
  BY <1>5, NoWriteKeeps, RefsStay, Zenon
<1> QED
  BY <1>4, <1>5, VisitEntryCases, Zenon

\* A rule was there before, or the tx node has just installed it.
LEMMA RuleOrigin ==
    ASSUME TypeOK, MemorySafe, RefStep, NEW c \in Ctxs, ctx'[c] # None
    PROVE  \/ ctx'[c] = ctx[c]
           \/ \E p \in Pkts : /\ pkts[p] # None /\ pkts[p].off = "INSTALL"
                             /\ ctx'[c].stored = NeedsHandle(pkts[p])
<1> DEFINE Goal == \/ ctx'[c] = ctx[c]
                   \/ \E p \in Pkts : /\ pkts[p] # None /\ pkts[p].off = "INSTALL"
                                     /\ ctx'[c].stored = NeedsHandle(pkts[p])
<1>1. ASSUME NEW p \in Pkts, tx_node_process(p) PROVE Goal
  <2> DEFINE pk == pkts[p]
             r == [flow |-> pk.flow, dir |-> pk.dir, port |-> pk.port, stored |-> NeedsHandle(pk)]
  <2>1. CASE ctx' = ctx
    BY <2>1, Zenon
  <2>2. ASSUME NEW C \in SUBSET Ctxs, pk.off = "INSTALL",
               ctx' = [x \in Ctxs |-> IF x \in C THEN r ELSE ctx[x]]
        PROVE  Goal
    <3>1. ctx'[c] = IF c \in C THEN r ELSE ctx[c]
      BY <2>2, Zenon
    <3>2. r.stored = NeedsHandle(pk) /\ pk # None
      BY <1>1, Zenon DEF tx_node_process
    <3> HIDE DEF r
    <3> QED
      BY <2>2, <3>1, <3>2, Zenon
  <2>3. \/ ctx' = ctx
        \/ pk.off = "INSTALL" /\ \E C \in SUBSET Ctxs :
                ctx' = [x \in Ctxs |-> IF x \in C THEN r ELSE ctx[x]]
    BY <1>1, Zenon DEF tx_node_process, dp_offload_handler
  <2> HIDE DEF Goal, r
  <2> QED
    BY <2>1, <2>2, <2>3, Zenon
<1>2. ASSUME NEW x \in Ctxs, dp_destroy_rte_flow_agectx(x) PROVE Goal
  BY <1>2, Zenon DEF dp_destroy_rte_flow_agectx, TypeOK
<1>3. ASSUME NEW k \in Keys, VisitEntry(k) PROVE Goal
  <2>1. ASSUME NEW f, NEW C, NEW out, VisitFlow(f, C, out) PROVE Goal
    BY <2>1, Zenon DEF VisitFlow
  <2>2. CASE ctx' = ctx
    BY <2>2, Zenon
  <2> HIDE DEF Goal
  <2> QED
    BY <1>3, <2>1, <2>2, VisitEntryCases, Zenon
<1>4. ASSUME RefsKept PROVE Goal
  BY <1>4, Zenon DEF RefsKept
<1> HIDE DEF Goal
<1>5. Goal
  BY <1>1, <1>2, <1>3, <1>4, Zenon DEF RefStep
<1> QED
  BY <1>5, Zenon DEF Goal

\* Every step preserves what the configuration rules out.
LEMMA StepMode ==
    ASSUME TypeOK, MemorySafe, ModeInv, TypeOK', Shape, OffKept, PacketsCarry, RefStep
    PROVE  ModeInv'
<1>1. ASSUME scan'.todo # {} PROVE scan'.req \in Requests \cup {AgeRequest}
  <2>1. CASE scan' = scan
    BY <1>1, <2>1, Zenon DEF ModeInv
  <2>2. CASE FinishScan
    BY <1>1, <2>2, Zenon DEF FinishScan, NoScan
  <2>3. CASE \E req \in Requests \cup {AgeRequest} : StartScan(req)
    <3>1. PICK req \in Requests \cup {AgeRequest} : StartScan(req)
      BY <2>3, Zenon
    <3>2. scan'.req = req
      BY <3>1, Zenon DEF StartScan
    <3> QED
      BY <3>2, Zenon
  <2>4. CASE \E k \in Keys : VisitEntry(k)
    BY <2>4, Zenon DEF VisitEntry, ModeInv, TypeOK
  <2> QED
    BY <2>1, <2>2, <2>3, <2>4, Zenon DEF RefStep, tx_node_process, dp_destroy_rte_flow_agectx
<1>2. ASSUME AllRulesStored, NEW c \in Ctxs, ctx'[c] # None PROVE ctx'[c].stored
  <2>1. CASE ctx'[c] = ctx[c]
    BY <1>2, <2>1, Zenon DEF ModeInv
  <2>2. ASSUME NEW p \in Pkts, pkts[p] # None PROVE NeedsHandle(pkts[p])
    <3>1. pkts[p].key.proto \in Protos /\ pkts[p].flow \in Flows /\ Live(pkts[p].flow)
      BY <2>2, Zenon DEF TypeOK, Packets, Keys, MemorySafe, PacketFlowLive
    <3> QED
      BY <1>2, <3>1, Zenon DEF NeedsHandle, IsRelay, AllRulesStored, ModeInv
  <2> QED
    BY <1>2, <2>1, <2>2, RuleOrigin, Zenon
<1>3. ASSUME AllRulesStored, NEW g \in Flows, heap'[g] # None PROVE heap'[g].nat # "NETWORK_NEIGH"
  <2>1. CASE Live(g) /\ heap'[g].nat = heap[g].nat
    BY <1>3, <2>1, Zenon DEF ModeInv
  <2>2. CASE heap'[g].nat \in {"NONE", "VIP", "NETWORK_LOCAL"}
    BY <2>2
  <2>3. KeysKept => Live(g) /\ heap'[g].nat = heap[g].nat
    BY <1>3, Zenon DEF KeysKept, Live
  <2>4. \A f \in Flows : OthersKept(f) /\ f # g => Live(g) /\ heap'[g].nat = heap[g].nat
    BY <1>3, Zenon DEF OthersKept, Live
  <2>5. Rekeyed(g) => \/ Live(g) /\ heap'[g].nat = heap[g].nat
                      \/ heap'[g].nat \in {"NONE", "VIP", "NETWORK_LOCAL"}
    BY <1>3, Zenon DEF Rekeyed, Relayed, DstTranslated, SrcTranslated, AllRulesStored
  <2>6. ASSUME NEW f \in Flows, Freed(f) \/ Rekeyed(f) \/ \E a \in dp_build_flow_key : Inserted(f, a)
        PROVE  heap'[g].nat # "NETWORK_NEIGH"
    <3>1. CASE f # g
      BY <2>1, <2>4, <2>6, <3>1, Zenon DEF Freed, Rekeyed, Inserted
    <3>2. CASE f = g
      BY <1>3, <2>1, <2>2, <2>5, <2>6, <3>2, Zenon DEF Freed, Inserted
    <3> QED
      BY <3>1, <3>2, Zenon
  <2> QED
    BY <2>1, <2>3, <2>6, Zenon DEF Shape
<1>4. ASSUME ~offload_mode_enabled PROVE \A c \in Ctxs : ctx'[c] = None
  BY <1>4, RuleOrigin, Zenon DEF ModeInv
<1>5. ASSUME ~offload_mode_enabled, NEW g \in Flows, heap'[g] # None, NEW d \in Dirs
      PROVE  heap'[g].off[d] = "NON_OFFLOAD"
  <2>1. CASE Live(g) /\ heap'[g].off[d] = heap[g].off[d]
    <3>1. heap[g].off[d] = "NON_OFFLOAD"
      BY <1>5, <2>1, Zenon DEF ModeInv
    <3> QED
      BY <2>1, <3>1, Zenon
  <2> QED
    BY <1>5, <2>1, Zenon DEF OffKept, Live
<1>6. ASSUME ~offload_mode_enabled, NEW p \in Pkts, pkts'[p] # None
      PROVE  pkts'[p].off = "NON_OFFLOAD"
  BY <1>5, <1>6, Zenon DEF PacketsCarry, ModeInv
<1> QED
  BY <1>1, <1>2, <1>3, <1>4, <1>5, <1>6, Zenon DEF ModeInv, Live

\* The inductive invariant of the counts,
CountInv == FlowInv /\ RefInv /\ ModeInv

\* and that it is one where removals are exact.
LEMMA CountInvariant ==
    ASSUME RemovalsExact
    PROVE  Spec => []CountInv
<1>1. Init => FlowInv /\ ModeInv /\ RefInv
  <2> SUFFICES ASSUME Init PROVE FlowInv /\ ModeInv /\ RefInv
    BY Zenon
  <2>1. FlowInv
    BY InitFlows, Zenon
  <2>2. ModeInv
    BY Zenon DEF Init, ModeInv, NoScan, Live
  <2>3. \A f \in Flows : ~Live(f) /\ Stored(f) = {}
    BY Zenon DEF Init, Live, Stored, CtxsOf
  <2>4. Cardinality({}) <= AgeCtxCapacity
    BY FS_EmptySet, ConstantsAssumption
  <2>5. \A f \in Flows : Cardinality(Stored(f)) <= AgeCtxCapacity
    BY <2>3, <2>4, Zenon
  <2>6. \A c \in Ctxs : ctx[c] = None
    BY Zenon DEF Init
  <2> QED
    BY <2>1, <2>2, <2>3, <2>5, <2>6, Zenon DEF RefInv
<1>2. FlowInv /\ RefInv /\ ModeInv /\ [Next]_vars => RefInv' /\ ModeInv'
  <2> SUFFICES ASSUME FlowInv, RefInv, ModeInv, [Next]_vars PROVE RefInv' /\ ModeInv'
    BY Zenon
  <2>1. TypeOK /\ MemorySafe /\ NatAll /\ KeyInv
    BY Zenon DEF FlowInv
  <2>2. Shape /\ OffKept /\ PacketsCarry /\ RefStep
    BY <2>1, StepShape, Zenon
  <2>3. TypeOK'
    BY <2>1, StepSafe, Zenon
  <2>4. ModeInv'
    BY <2>1, <2>2, <2>3, StepMode, Zenon
  <2>5. RefInv'
    BY <2>1, <2>2, RefsStay, TxRefs, AgedRuleRefs, VisitEntryRefs, Zenon DEF RefStep
  <2> QED
    BY <2>4, <2>5, Zenon
<1>3. CountInv <=> FlowInv /\ RefInv /\ ModeInv
  BY Zenon DEF CountInv
<1> QED
  BY <1>1, <1>2, <1>3, FlowInvariant, PTL DEF Spec

\* Where removals are exact, and whatever fails on the NIC or in memory: the
\* reference count of a flow is one per hardware rule plus one until it is aged
\* out (dp_offload_handler, dp_destroy_rte_flow_agectx, dp_age_out_flow,
\* dp_remove_flow), so a flow lives as long as something refers to it.
THEOREM ReferencesExact ==
    ASSUME RemovalsExact
    PROVE  Spec => []RefCountExact
<1>1. CountInv => RefCountExact
  BY Zenon DEF CountInv, RefInv, RefCountExact, TableRef
<1> QED
  BY <1>1, CountInvariant, PTL

\* There, rte_age_ctxs[] is never overfilled, and what it holds are rules of
\* flows that exist (dp_add_rte_age_ctx, dp_del_rte_age_ctx).
THEOREM RulesNeverOverfill ==
    ASSUME RemovalsExact
    PROVE  Spec => []RulesFit
<1>1. CountInv => RulesFit
  <2>1. \A f \in Flows : RefInv /\ Stored(f) # {} => Live(f)
    BY Zenon DEF RefInv, Stored, CtxsOf
  <2> QED
    BY <2>1, Zenon DEF CountInv, RefInv, RulesFit
<1> QED
  BY <1>1, CountInvariant, PTL

\* Where the service never destroys rules itself, only the NIC's reports do.
OnlyNicAges == ~offload_mode_enabled \/ (Requests = {} /\ "TCP" \notin Protos)

\* There no step touches a freed flow.
LEMMA StepNoUseAfterFree ==
    ASSUME OnlyNicAges, TypeOK, MemorySafe, RefInv, ModeInv, NoUseAfterFree, [Next]_vars
    PROVE  NoUseAfterFree'
<1> USE DEF NoUseAfterFree
<1>1. ASSUME NEW p \in Pkts, \/ dp_cntrack_handle(p) \/ dnat_node(p) \/ ipv4_lookup_node(p) \/ snat_node(p)
      PROVE  NoUseAfterFree'
  <2>1. ASSUME dp_cntrack_handle(p) PROVE misuse' = misuse
    <3>1. PICK a \in dp_build_flow_key, flag \in TcpFlags \cup {None} :
            KnownFlow(p, a, flag) \/ flow_table_insert_entry(p, a, flag) \/ InsertFails(a)
      BY <2>1, Zenon DEF dp_cntrack_handle
    <3>2. \A f, fl, dir : Forward(p, a, f, fl, dir) => misuse' = misuse
      BY Zenon DEF Forward
    <3> QED
      BY <2>1, <3>1, <3>2, Zenon DEF dp_cntrack_handle, KnownFlow, flow_table_insert_entry, InsertFails
  <2> QED
    BY <1>1, <2>1, Zenon DEF dnat_node, ipv4_lookup_node, snat_node
<1>2. ASSUME NEW p \in Pkts, tx_node_process(p) PROVE NoUseAfterFree'
  <2>1. misuse' = misuse \/ misuse' = misuse \cup {"handle_double_destroy"}
    BY <1>2, Zenon DEF tx_node_process, dp_offload_handler
  <2> QED
    BY <2>1
<1>3. ASSUME NEW c \in Ctxs, dp_destroy_rte_flow_agectx(c) PROVE NoUseAfterFree'
  BY <1>3, AgedRuleRefs, Zenon
<1>4. ASSUME NEW k \in Keys, VisitEntry(k) PROVE NoUseAfterFree'
  <2> DEFINE f == table[k]
  <2>1. f \in Flows /\ Live(f) /\ heap[f].ref >= 1 /\ k \in scan.todo
    BY <1>4, Reached, Zenon DEF VisitEntry, MemorySafe, ScanOK, TableEntriesLive, RefInv
  <2>2. scan.req # AgeRequest => scan.req \in Requests
    BY <2>1, Zenon DEF ModeInv
  <2>3. k.proto \in Protos
    BY Zenon DEF Keys
  <2>4. ASSUME NEW out, VisitFlow(f, {}, out) PROVE NoUseAfterFree'
    <3>1. heap[f].ref # Cardinality({})
      <4>1. Cardinality({}) = 0
        BY FS_EmptySet, Zenon
      <4> HIDE DEF f
      <4> QED
        BY <2>1, <4>1
    <3> QED
      BY <2>4, <3>1, Zenon DEF VisitFlow
  <2>5. CASE UNCHANGED misuse
    BY <2>5, Zenon
  <2> QED
    BY <1>4, <2>2, <2>3, <2>4, <2>5, VisitEntryCases, Zenon DEF OnlyNicAges
<1>5. CASE \/ \E f \in Flows : TimeOut(f)
           \/ \E req \in Requests \cup {AgeRequest} : StartScan(req)
           \/ FinishScan \/ graph_main_loop \/ UNCHANGED vars
  BY <1>5, Zenon DEF TimeOut, StartScan, FinishScan, graph_main_loop, vars
<1> QED
  BY <1>1, <1>2, <1>3, <1>4, <1>5, Zenon DEF Next

\* Where only the NIC's reports destroy rules, and whatever fails, no freed flow
\* is touched: a reported rule refers to a live flow (dp_destroy_rte_flow_agectx),
\* and an iteration frees a flow only as its last action on it (dp_age_out_flow).
THEOREM NoFreedFlowTouched ==
    ASSUME OnlyNicAges
    PROVE  Spec => []NoUseAfterFree
<1>1. RemovalsExact
  BY Zenon DEF OnlyNicAges, RemovalsExact
<1>2. Spec => []CountInv
  BY <1>1, CountInvariant, Zenon
<1>3. Init => NoUseAfterFree
  BY Zenon DEF Init, NoUseAfterFree
<1>4. CountInv /\ NoUseAfterFree /\ [Next]_vars => NoUseAfterFree'
  BY StepNoUseAfterFree, Zenon DEF CountInv, FlowInv
<1> QED
  BY <1>2, <1>3, <1>4, PTL DEF Spec
=============================================================================
