----------------------------- MODULE MCFlowTable -----------------------------
\* Small instances of FlowTable.
EXTENDS FlowTable, TLC

CONSTANTS v1, v2, vip1

NoSnat == [v \in VMs |-> "none"]
\* for the variant of flow_aging with address translation, see the README
AllNat == [v \in VMs |-> "nat"]
NatAndVip == [v \in VMs |-> IF v = v1 THEN "nat" ELSE vip1]

NoRequests == {}
IfaceRequests == {[kind |-> "iface", port |-> v] : v \in VMs}
NatRequests ==
    {[kind |-> "nat", port |-> v, type |-> IF SnatOf[v] = "nat" THEN "NETWORK_LOCAL" ELSE "VIP"] : v \in VMs}
        \cup {[kind |-> "neigh", nat |-> n] : n \in NeighNats}

Symmetry == Permutations(Flows) \cup Permutations(Ctxs) \cup Permutations(Pkts)
=============================================================================
