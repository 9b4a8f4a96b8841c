---------------------------- MODULE PolicyProofs ----------------------------
(***************************************************************************)
(* Proofs about Policy, for any interfaces, connections, rules and back    *)
(* ends.                                                                   *)
(***************************************************************************)
EXTENDS Policy, FiniteSetTheorems, WellFoundedInduction, TLAPS

AcceptRules == {r \in RuleSet : r.action = "ACCEPT"}

\* A flow record has its three fields, whatever they hold.
RecordShape(r) == r = [flags |-> r.flags, backend |-> r.backend, verdict |-> r.verdict]

\* The inductive invariant: a connection has a flow record or none, and only
\* accepting rules are ever stored.
PolicyInv == /\ conns = [c \in Conns |-> conns[c]]
             /\ \A c \in Conns : conns[c] = None \/ RecordShape(conns[c])
             /\ rules \in [Vfs -> Seq(AcceptRules)]

-----------------------------------------------------------------------------
\* Operators.

\* A set of natural numbers that has an element has a least one.
LEMMA MinIsLeast ==
    ASSUME NEW S \in SUBSET Nat, S # {}
    PROVE  Min(S) \in S /\ \A y \in S : Min(S) <= y
<1> DEFINE R == OpToRel(<, Nat)
<1>1. IsWellFoundedOn(R, Nat)
  BY NatLessThanWellFounded, Zenon
<1>2. \A x, y \in Nat : x < y => <<x, y>> \in R
  BY Zenon DEF OpToRel
<1> HIDE DEF R
<1>3. PICK x \in S : \A y \in S : ~(<<y, x>> \in R)
  BY <1>1, WFMin, Zenon
<1>4. ASSUME NEW y \in S PROVE x <= y
  <2>1. x \in Nat /\ y \in Nat
    BY Zenon
  <2>2. ~(y < x)
    BY <2>1, <1>2, <1>3, Zenon
  <2> QED
    BY <2>1, <2>2
<1> QED
  BY <1>4, Zenon DEF Min

\* Removing an element keeps a sequence over its set.
LEMMA RemovedType ==
    ASSUME NEW S, NEW s \in Seq(S), NEW i \in 1..Len(s)
    PROVE  RemoveAt(s, i) \in Seq(S)
<1>1. SubSeq(s, 1, i - 1) \in Seq(S)
  OBVIOUS
<1>2. SubSeq(s, i + 1, Len(s)) \in Seq(S)
  OBVIOUS
<1> QED
  BY <1>1, <1>2 DEF RemoveAt

\* The record a packet works on has the fields of a flow record.
LEMMA RecordFields ==
    ASSUME PolicyInv, NEW c \in Conns
    PROVE  RecordShape(Record(c))
  BY Zenon DEF PolicyInv, Record, RecordShape, NewRecord

-----------------------------------------------------------------------------
\* A packet changes the record of its connection only.

\* What a step does to a connection's record: nothing, or it ends, or it is
\* a decision that had not been taken.
Kept(c) == conns'[c] = conns[c]
Gone(c) == conns'[c] = None
Decided(c) ==
    /\ RecordShape(conns'[c])
    /\ "DST_LB" \in Record(c).flags => conns'[c].backend = Record(c).backend
    /\ "FIREWALL" \in Record(c).flags => /\ conns'[c].verdict = Record(c).verdict
                                         /\ conns'[c].backend = Record(c).backend

RecordStep == /\ conns' = [c \in Conns |-> conns'[c]]
              /\ \A c \in Conns : Kept(c) \/ Gone(c) \/ Decided(c)

\* The load balancer's node decides on a connection without flags.
LEMMA LbNodeStep ==
    ASSUME PolicyInv, NEW c \in Conns, LbNode(c)
    PROVE  RecordStep
<1> DEFINE d == [flags   |-> Record(c).flags \cup {"DST_LB"},
                 backend |-> lb.ips[Selected(c)],
                 verdict |-> Record(c).verdict]
<1>1. conns' \in {[conns EXCEPT ![c] = Record(c)], [conns EXCEPT ![c] = d]}
  BY Zenon DEF LbNode
<1>2. RecordShape(Record(c)) /\ RecordShape(d)
  BY RecordFields, Zenon DEF RecordShape
<1>3. Record(c).flags = {}
  BY Zenon DEF LbNode, ToLb
<1> HIDE DEF d
<1>4. /\ conns' = [k \in Conns |-> conns'[k]]
      /\ conns'[c] \in {Record(c), d}
      /\ \A k \in Conns \ {c} : conns'[k] = conns[k]
  BY <1>1, Zenon DEF PolicyInv
<1>5. Decided(c)
  BY <1>2, <1>3, <1>4, Zenon DEF Decided
<1> QED
  BY <1>4, <1>5, Zenon DEF RecordStep, Kept

\* The firewall's node decides on a connection without its flag.
LEMMA FirewallNodeStep ==
    ASSUME PolicyInv, NEW c \in Conns, FirewallNode(c)
    PROVE  RecordStep
<1> DEFINE a == dp_get_firewall_action(Flows[c])
           d == [flags   |-> Record(c).flags \cup {"FIREWALL"},
                 backend |-> Record(c).backend,
                 verdict |-> a]
<1>1. conns' = [conns EXCEPT ![c] = IF "FIREWALL" \in Record(c).flags THEN Record(c) ELSE d]
  BY Zenon DEF FirewallNode
<1> HIDE DEF a
<1>2. RecordShape(Record(c)) /\ RecordShape(d) /\ d.backend = Record(c).backend
  BY RecordFields, Zenon DEF RecordShape
<1> HIDE DEF d
<1>3. /\ conns' = [k \in Conns |-> conns'[k]]
      /\ conns'[c] = IF "FIREWALL" \in Record(c).flags THEN Record(c) ELSE d
      /\ \A k \in Conns \ {c} : conns'[k] = conns[k]
  BY <1>1, Zenon DEF PolicyInv
<1>4. Decided(c)
  BY <1>2, <1>3, Zenon DEF Decided
<1> QED
  BY <1>3, <1>4, Zenon DEF RecordStep, Kept

\* A connection ends, alone or with its interface.
LEMMA EndingStep ==
    ASSUME PolicyInv,
           \/ \E c \in Conns : Expire(c)
           \/ \E vf \in Vfs : dp_del_all_firewall_rules(vf)
    PROVE  RecordStep
<1>1. conns' = [c \in Conns |-> conns'[c]] /\ \A c \in Conns : conns'[c] \in {None, conns[c]}
  BY Zenon DEF PolicyInv, Expire, dp_del_all_firewall_rules
<1> QED
  BY <1>1, Zenon DEF RecordStep, Kept, Gone

\* The other requests leave the connections alone, and so does a crash.
LEMMA RequestStep ==
    ASSUME PolicyInv, UNCHANGED conns
    PROVE  RecordStep
  BY Zenon DEF PolicyInv, RecordStep, Kept

\* Every step is one of the above for each connection.
LEMMA EveryStep == PolicyInv /\ [Next]_vars => RecordStep
<1> SUFFICES ASSUME PolicyInv, [Next]_vars PROVE RecordStep
  BY Zenon
<1>1. CASE \E c \in Conns : LbNode(c)
  BY <1>1, LbNodeStep, Zenon
<1>2. CASE \E c \in Conns : FirewallNode(c)
  BY <1>2, FirewallNodeStep, Zenon
<1>3. CASE (\E c \in Conns : Expire(c)) \/ (\E vf \in Vfs : dp_del_all_firewall_rules(vf))
  BY <1>3, EndingStep, Zenon
<1>4. CASE UNCHANGED conns
  BY <1>4, RequestStep, Zenon
<1>5. ASSUME Step, ~(\E c \in Conns : LbNode(c) \/ FirewallNode(c) \/ Expire(c)),
             ~(\E vf \in Vfs : dp_del_all_firewall_rules(vf))
      PROVE  UNCHANGED conns
  BY <1>5, Zenon DEF Step, dp_create_lb, dp_delete_lb, dp_add_lb_back_ip, dp_del_lb_back_ip,
              dp_process_create_fwrule, dp_delete_firewall_rule
<1>6. Step \/ UNCHANGED conns
  BY Zenon DEF Next, Crash, vars
<1> QED
  BY <1>1, <1>2, <1>3, <1>4, <1>5, <1>6, Zenon

-----------------------------------------------------------------------------
\* The rules.

\* Only accepting rules enter the lists of the interfaces.
LEMMA RulesStep == PolicyInv /\ [Next]_vars => rules' \in [Vfs -> Seq(AcceptRules)]
<1> SUFFICES ASSUME PolicyInv, [Next]_vars PROVE rules' \in [Vfs -> Seq(AcceptRules)]
  BY Zenon
<1>1. rules \in [Vfs -> Seq(AcceptRules)]
  BY Zenon DEF PolicyInv
<1>2. ASSUME NEW vf \in Vfs, NEW r \in FwRequests, dp_process_create_fwrule(vf, r)
      PROVE  rules' \in [Vfs -> Seq(AcceptRules)]
  <2>1. r \in AcceptRules
    BY <1>2, Zenon DEF dp_process_create_fwrule, FwRequests, AcceptRules
  <2>2. Append(rules[vf], r) \in Seq(AcceptRules)
    BY <2>1, <1>1
  <2> QED
    BY <1>1, <1>2, <2>2, Zenon DEF dp_process_create_fwrule
<1>3. ASSUME NEW vf \in Vfs, NEW r \in FwRequests, dp_delete_firewall_rule(vf, r.id)
      PROVE  rules' \in [Vfs -> Seq(AcceptRules)]
  <2> DEFINE M == dp_get_firewall_rule(vf, r.id)
  <2>1. M \in SUBSET Nat /\ M # {} /\ M \subseteq 1..Len(rules[vf])
    BY <1>1, <1>3 DEF dp_delete_firewall_rule, dp_get_firewall_rule
  <2>2. Min(M) \in 1..Len(rules[vf])
    BY <2>1, MinIsLeast, Zenon
  <2>3. RemoveAt(rules[vf], Min(M)) \in Seq(AcceptRules)
    BY <2>2, <1>1, RemovedType, Zenon
  <2>4. rules' = [rules EXCEPT ![vf] = RemoveAt(@, Min(M))]
    BY <1>3, Zenon DEF dp_delete_firewall_rule
  <2> QED
    BY <1>1, <2>3, <2>4, Zenon
<1>4. ASSUME NEW vf \in Vfs, dp_del_all_firewall_rules(vf)
      PROVE  rules' \in [Vfs -> Seq(AcceptRules)]
  BY <1>1, <1>4 DEF dp_del_all_firewall_rules
<1>5. CASE UNCHANGED rules
  BY <1>1, <1>5, Zenon
<1>6. ASSUME Step,
             ~(\E vf \in Vfs : \/ \E r \in FwRequests : \/ dp_process_create_fwrule(vf, r)
                                                        \/ dp_delete_firewall_rule(vf, r.id)
                               \/ dp_del_all_firewall_rules(vf))
      PROVE  UNCHANGED rules
  BY <1>6, Zenon DEF Step, dp_create_lb, dp_delete_lb, dp_add_lb_back_ip, dp_del_lb_back_ip,
              LbNode, FirewallNode, Expire
<1>7. Step \/ UNCHANGED rules
  BY Zenon DEF Next, Crash, vars
<1> QED
  BY <1>2, <1>3, <1>4, <1>5, <1>6, <1>7, Zenon

\* The invariant holds throughout.
LEMMA PolicyInvariant == Spec => []PolicyInv
<1>1. Init => PolicyInv
  BY DEF Init, PolicyInv
<1>2. PolicyInv /\ [Next]_vars => PolicyInv'
  BY EveryStep, RulesStep, Zenon DEF PolicyInv, RecordStep, Kept, Gone, Decided
<1> QED
  BY <1>1, <1>2, PTL DEF Spec

-----------------------------------------------------------------------------
\* Main results.

\* No step changes the back end or the verdict of a connection that has one
\* (lb_node.c, firewall_node.c).
THEOREM PathFixed == Spec => PathNeverChanges
<1>1. PolicyInv /\ [Next]_vars =>
        [\A c \in Conns : conns[c] # None /\ conns'[c] # None =>
          /\ "DST_LB" \in conns[c].flags => conns'[c].backend = conns[c].backend
          /\ "FIREWALL" \in conns[c].flags =>
                 conns'[c].verdict = conns[c].verdict /\ conns'[c].backend = conns[c].backend]_vars
  BY EveryStep, Zenon DEF RecordStep, Kept, Gone, Decided, Record
<1> QED
  BY <1>1, PolicyInvariant, PTL DEF Spec, PathNeverChanges

\* What the search of a list of accepting rules returns for a packet from an
\* interface (dp_get_egress_action).
LEMMA EgressDecision ==
    ASSUME NEW list \in Seq(AcceptRules), NEW h
    PROVE  /\ dp_get_egress_action(list, h) \in {"ACCEPT", "DROP"}
           /\ dp_get_egress_action(list, h) = "ACCEPT"
                <=> \/ Matching(list, "EGRESS", h) # {}
                    \/ \A i \in DOMAIN list : list[i].dir # "EGRESS"
<1> DEFINE M == Matching(list, "EGRESS", h)
           E == {i \in Scanned(list, "EGRESS", h) : list[i].dir = "EGRESS"}
<1>1. M \in SUBSET Nat /\ M \subseteq DOMAIN list /\ DOMAIN list = 1..Len(list)
  BY DEF Matching
<1>2. CASE M # {}
  <2>1. Min(M) \in DOMAIN list
    BY <1>1, <1>2, MinIsLeast, Zenon
  <2>2. list[Min(M)].action = "ACCEPT"
    BY <2>1 DEF AcceptRules
  <2> QED
    BY <1>2, <2>2, Zenon DEF dp_get_egress_action
<1>3. CASE M = {}
  <2>1. E = {i \in DOMAIN list : list[i].dir = "EGRESS"}
    BY <1>3, Zenon DEF Scanned
  <2>2. IsFiniteSet(E)
    BY <1>1, <2>1, FS_Interval, FS_Subset
  <2>3. EgressRuleCount(list, "EGRESS", h) = 0 <=> E = {}
    BY <2>2, FS_EmptySet, Zenon DEF EgressRuleCount
  <2> QED
    BY <1>3, <2>1, <2>3, Zenon DEF dp_get_egress_action
<1> QED
  BY <1>2, <1>3, Zenon

\* And for a packet to an interface (dp_get_firewall_action).
LEMMA IngressDecision ==
    ASSUME NEW list \in Seq(AcceptRules), NEW h
    PROVE  IngressAction(list, h) = "ACCEPT" <=> Matching(list, "INGRESS", h) # {}
<1> DEFINE M == Matching(list, "INGRESS", h)
<1>1. M \in SUBSET Nat /\ M \subseteq DOMAIN list
  BY DEF Matching
<1>2. CASE M # {}
  <2>1. Min(M) \in DOMAIN list
    BY <1>1, <1>2, MinIsLeast, Zenon
  <2>2. list[Min(M)].action = "ACCEPT"
    BY <2>1 DEF AcceptRules
  <2> QED
    BY <1>2, <2>2, Zenon DEF IngressAction
<1> QED
  BY <1>2, Zenon DEF IngressAction

\* The stored rules give every packet the verdict that the comments of
\* dp_firewall.c state, whatever rules there are and in whatever order.
THEOREM VerdictAsStated == Spec => []FirewallVerdict
<1>1. ASSUME PolicyInv, NEW c \in Conns
      PROVE  LET h == Flows[c]
                 Accepting(vf, dir) == \E i \in DOMAIN rules[vf] :
                     rules[vf][i].dir = dir /\ dp_is_rule_matching(rules[vf][i], h)
                 NoEgressRule(vf) == \A i \in DOMAIN rules[vf] : rules[vf][i].dir = "INGRESS"
             IN (dp_get_firewall_action(h) = "ACCEPT")
                  <=> /\ h.in # None => Accepting(h.in, "EGRESS") \/ NoEgressRule(h.in)
                      /\ h.out # None => Accepting(h.out, "INGRESS")
  <2> DEFINE h == Flows[c]
  <2>1. h.in \in Vfs \cup {None} /\ h.out \in Vfs \cup {None}
    <3>1. h \in Headers
      BY ConstantsAssumption, Zenon
    <3> QED
      BY <3>1, Zenon DEF Headers
  <2>2. \A vf \in Vfs : rules[vf] \in Seq(AcceptRules)
    BY <1>1, Zenon DEF PolicyInv
  <2>3. \A vf \in Vfs : \A i \in DOMAIN rules[vf] : rules[vf][i].dir \in {"INGRESS", "EGRESS"}
    <3>1. \A r \in AcceptRules : r.dir \in {"INGRESS", "EGRESS"}
      <4>1. AcceptRules \subseteq Rules
        BY ConstantsAssumption, Zenon DEF AcceptRules
      <4> QED
        BY <4>1, Zenon DEF Rules
    <3> QED
      BY <2>2, <3>1
  <2> HIDE DEF h
  <2>4. /\ EgressAction(h) \in {"ACCEPT", "DROP"}
        /\ EgressAction(h) = "ACCEPT"
             <=> (h.in # None => \/ Matching(rules[h.in], "EGRESS", h) # {}
                                 \/ \A i \in DOMAIN rules[h.in] : rules[h.in][i].dir # "EGRESS")
    BY <2>1, <2>2, EgressDecision, Zenon DEF EgressAction
  <2>5. h.out # None => (IngressAction(rules[h.out], h) = "ACCEPT"
                           <=> Matching(rules[h.out], "INGRESS", h) # {})
    BY <2>1, <2>2, IngressDecision, Zenon
  <2>6. dp_get_firewall_action(h) = "ACCEPT"
          <=> /\ EgressAction(h) = "ACCEPT"
              /\ h.out # None => Matching(rules[h.out], "INGRESS", h) # {}
    BY <2>4, <2>5, Zenon DEF dp_get_firewall_action
  <2> DEFINE Accepting(vf, dir) == \E i \in DOMAIN rules[vf] :
                 rules[vf][i].dir = dir /\ dp_is_rule_matching(rules[vf][i], h)
             NoEgressRule(vf) == \A i \in DOMAIN rules[vf] : rules[vf][i].dir = "INGRESS"
  <2>7. \A vf \in Vfs : \A dir : Matching(rules[vf], dir, h) # {} <=> Accepting(vf, dir)
    BY Zenon DEF Matching
  <2>8. \A vf \in Vfs : (\A i \in DOMAIN rules[vf] : rules[vf][i].dir # "EGRESS") <=> NoEgressRule(vf)
    BY <2>3, Zenon
  <2> HIDE DEF Accepting, NoEgressRule
  <2>9. (dp_get_firewall_action(h) = "ACCEPT")
          <=> /\ h.in # None => Accepting(h.in, "EGRESS") \/ NoEgressRule(h.in)
              /\ h.out # None => Accepting(h.out, "INGRESS")
    <3>1. EgressAction(h) = "ACCEPT" <=> (h.in # None => Accepting(h.in, "EGRESS") \/ NoEgressRule(h.in))
      BY <2>1, <2>4, <2>7, <2>8, Zenon
    <3>2. h.out # None => (Matching(rules[h.out], "INGRESS", h) # {} <=> Accepting(h.out, "INGRESS"))
      BY <2>1, <2>7, Zenon
    <3> QED
      BY <2>6, <3>1, <3>2, Zenon
  <2> QED
    BY <2>9, Zenon DEF Accepting, NoEgressRule, h
<1>2. PolicyInv => FirewallVerdict
  BY <1>1, Zenon DEF FirewallVerdict
<1> QED
  BY <1>2, PolicyInvariant, PTL

-----------------------------------------------------------------------------
\* The load balancer's round.

\* How far slot x is after slot a on the ring of slots; a itself is the last.
Ahead(a, x) == IF x > a THEN x - a ELSE x - a + MaxIps

\* b is the first slot of O after a.
FirstAfter(O, a, b) == b \in O /\ \A x \in O : Ahead(a, b) <= Ahead(a, x)

\* The slots of O up to b, starting after a.
Upto(O, a, b) == {x \in O : Ahead(a, x) <= Ahead(a, b)}

\* Slots are numbers,
LEMMA SlotNumbers ==
    /\ MaxIps \in Nat /\ MaxIps >= 1 /\ MaxIps <= UINT16_MAX /\ UINT16_MAX \in Nat
    /\ \A a \in Slots : a \in Nat /\ a < MaxIps
    /\ \A a \in Nat : a < MaxIps => a \in Slots
  BY ConstantsAssumption DEF Slots

\* and finitely many.
LEMMA SlotSets ==
    ASSUME NEW O \in SUBSET Slots
    PROVE  IsFiniteSet(O) /\ Cardinality(O) \in Nat /\ Cardinality(O) <= MaxIps
<1>1. MaxIps \in Nat
  BY SlotNumbers, Zenon
<1>2. 0 \in Int /\ MaxIps - 1 \in Int /\ ~(0 > MaxIps - 1) /\ MaxIps - 1 - 0 + 1 = MaxIps
  BY SlotNumbers
<1>3. IsFiniteSet(Slots) /\ Cardinality(Slots) = MaxIps
  BY <1>2, FS_Interval, Zenon DEF Slots
<1> QED
  BY <1>3, FS_Subset, FS_CardinalityType, Zenon

\* Distances tell slots apart, and are those from a slot in between with the
\* way to it added, or what is left of a round.
Apart(a, b, x) ==
    /\ Ahead(a, x) = Ahead(a, b) => x = b
    /\ Ahead(a, x) > Ahead(a, b) => Ahead(b, x) = Ahead(a, x) - Ahead(a, b)
    /\ Ahead(a, x) <= Ahead(a, b) => Ahead(b, x) = Ahead(a, x) - Ahead(a, b) + MaxIps

\* Distances between slots are numbers from 1 to MaxIps,
LEMMA AheadType ==
    ASSUME NEW a \in Slots, NEW x \in Slots
    PROVE  Ahead(a, x) \in 1..MaxIps /\ Ahead(a, x) \in Nat
  BY SlotNumbers DEF Ahead

\* and are apart in that sense.
LEMMA Distances ==
    ASSUME NEW a \in Slots, NEW b \in Slots, NEW x \in Slots
    PROVE  Apart(a, b, x)
  BY SlotNumbers DEF Ahead, Apart

\* A back end lies beyond b, seen from a.
Beyond(O, a, b) == \E y \in O : y \notin Upto(O, a, b)

\* The slots up to c are those up to b and c itself.
Grows(O, a, b, c) ==
    /\ c \notin Upto(O, a, b)
    /\ \A x : x \in Upto(O, a, c) <=> x \in Upto(O, a, b) \/ x = c

\* Going round from one back end to the next: those already met are the ones up
\* to the last one met, and one more with each turn.
LEMMA RoundGrows ==
    ASSUME NEW O \in SUBSET Slots, NEW a \in Slots, NEW b \in O, NEW c, FirstAfter(O, b, c),
           Beyond(O, a, b)
    PROVE  Grows(O, a, b, c)
<1>0. PICK y \in O : ~(Ahead(a, y) <= Ahead(a, b))
  BY Zenon DEF Upto, Beyond
<1>1. c \in O /\ c \in Slots /\ b \in Slots /\ y \in Slots
  BY Zenon DEF FirstAfter
<1>2. Ahead(b, c) <= Ahead(b, y)
  BY Zenon DEF FirstAfter
<1>3. /\ Ahead(a, y) \in 1..MaxIps /\ Ahead(a, b) \in 1..MaxIps /\ Ahead(a, c) \in 1..MaxIps
      /\ Apart(a, b, y) /\ Apart(a, b, c)
  BY <1>1, AheadType, Distances, Zenon
<1>4. MaxIps \in Nat
  BY SlotNumbers, Zenon
<1>5. Ahead(a, c) > Ahead(a, b)
  BY <1>0, <1>2, <1>3, <1>4 DEF Apart
<1>6. ASSUME NEW x \in O, Ahead(a, x) <= Ahead(a, c), ~(Ahead(a, x) <= Ahead(a, b)) PROVE x = c
  <2>1. Ahead(a, x) \in 1..MaxIps /\ Apart(a, b, x) /\ Apart(a, c, x)
    BY <1>1, AheadType, Distances, Zenon
  <2>2. Ahead(b, c) <= Ahead(b, x)
    BY Zenon DEF FirstAfter
  <2>3. Ahead(a, x) = Ahead(a, c)
    BY <1>3, <1>4, <1>5, <1>6, <2>1, <2>2 DEF Apart
  <2> QED
    BY <2>1, <2>3, Zenon DEF Apart
<1>7. ASSUME NEW x \in O, Ahead(a, x) <= Ahead(a, b) PROVE Ahead(a, x) <= Ahead(a, c)
  <2>1. Ahead(a, x) \in 1..MaxIps
    BY AheadType, Zenon
  <2> QED
    BY <1>3, <1>4, <1>5, <1>7, <2>1
<1>8. Ahead(a, c) <= Ahead(a, c)
  BY <1>3, <1>4
<1>9. ~(Ahead(a, c) <= Ahead(a, b))
  BY <1>3, <1>4, <1>5
<1> QED
  BY <1>1, <1>6, <1>7, <1>8, <1>9, Zenon DEF Upto, Grows

\* f goes round from a for n turns.
Round(O, a, n, f) == \A k \in 1..n : FirstAfter(O, IF k = 1 THEN a ELSE f[k - 1], f[k])

\* As many turns as there are back ends meet them all.
LEMMA RoundCovers ==
    ASSUME NEW O \in SUBSET Slots, NEW a \in Slots, NEW n \in Nat, n = Cardinality(O),
           NEW f, DOMAIN f = 1..n, Round(O, a, n, f)
    PROVE  Range(f) = O
<1>0. Range(f) = {f[k] : k \in 1..n}
  BY Zenon DEF Range
<1> DEFINE Met(k) == Upto(O, a, f[k])
           Right(k) == Met(k) = {f[j] : j \in 1..k} /\ Cardinality(Met(k)) = k
           Wrong == {k \in 1..n : ~Right(k)}
<1>1. \A k \in 1..n : f[k] \in O
  BY Zenon DEF FirstAfter, Round
<1>2. \A k \in Nat : Met(k) \in SUBSET O /\ Met(k) \in SUBSET Slots
  BY Zenon DEF Upto
<1>3. ASSUME n >= 1 PROVE Right(1)
  <2>1. FirstAfter(O, a, f[1]) /\ f[1] \in O /\ f[1] \in Slots
    <3>1. 1 \in 1..n
      BY <1>3
    <3> QED
      BY <1>1, <3>1, Zenon DEF Round
  <2>2. ASSUME NEW x \in Met(1) PROVE x = f[1]
    <3>1. Ahead(a, f[1]) <= Ahead(a, x) /\ Ahead(a, x) <= Ahead(a, f[1])
      BY <2>1, Zenon DEF FirstAfter, Upto
    <3>2. x \in Slots /\ Ahead(a, x) \in Nat /\ Ahead(a, f[1]) \in Nat
      BY <2>1, AheadType, Zenon DEF Upto
    <3>3. Ahead(a, x) = Ahead(a, f[1])
      BY <3>1, <3>2
    <3> QED
      BY <2>1, <3>2, <3>3, Distances, Zenon DEF Apart
  <2>3. f[1] \in Met(1)
    <3>1. Ahead(a, f[1]) \in Nat
      BY <2>1, AheadType, Zenon
    <3>2. Ahead(a, f[1]) <= Ahead(a, f[1])
      BY <3>1
    <3> QED
      BY <2>1, <3>2, Zenon DEF Upto
  <2>4. Met(1) = {f[1]}
    BY <2>2, <2>3, Zenon
  <2>5. 1..1 = {1}
    OBVIOUS
  <2>6. {f[j] : j \in 1..1} = {f[1]}
    BY <2>5, Zenon
  <2> QED
    BY <2>4, <2>6, FS_Singleton, Zenon
<1>4. ASSUME NEW k \in 1..n, k + 1 \in 1..n, Right(k) PROVE Right(k + 1)
  <2>1. k \in Nat /\ k < n /\ k + 1 # 1 /\ (k + 1) - 1 = k
    BY <1>4
  <2>2. FirstAfter(O, f[k], f[k + 1]) /\ f[k] \in O
    BY <1>1, <1>4, <2>1, Zenon DEF Round
  <2>3. Met(k) \in SUBSET Slots /\ IsFiniteSet(Met(k)) /\ Cardinality(Met(k)) = k
    BY <1>2, <1>4, <2>1, SlotSets, Zenon
  <2>4. Beyond(O, a, f[k])
    <3>1. k # n
      BY <2>1
    <3>2. Met(k) # O
      BY <2>3, <3>1, Zenon
    <3> QED
      BY <1>2, <2>1, <3>2, Zenon DEF Beyond
  <2>5. f[k + 1] \notin Met(k) /\ Met(k + 1) = Met(k) \cup {f[k + 1]}
    <3>1. Grows(O, a, f[k], f[k + 1])
      BY <2>2, <2>4, RoundGrows, Zenon
    <3>2. f[k + 1] \notin Met(k) /\ \A x : x \in Met(k + 1) <=> x \in Met(k) \/ x = f[k + 1]
      BY <3>1, Zenon DEF Grows
    <3> HIDE DEF Met
    <3>3. Met(k + 1) = Met(k) \cup {f[k + 1]}
      BY <3>2, Zenon
    <3> QED
      BY <3>2, <3>3, Zenon
  <2>6. Cardinality(Met(k + 1)) = k + 1
    <3> HIDE DEF Met
    <3>1. Cardinality(Met(k) \cup {f[k + 1]}) = Cardinality(Met(k)) + 1
      BY <2>3, <2>5, FS_AddElement, Zenon
    <3> QED
      BY <2>3, <2>5, <3>1, Zenon
  <2>7. 1..(k + 1) = (1..k) \cup {k + 1}
    BY <2>1
  <2>8. {f[j] : j \in 1..(k + 1)} = {f[j] : j \in 1..k} \cup {f[k + 1]}
    BY <2>7, Zenon
  <2> QED
    BY <1>4, <2>5, <2>6, <2>8, Zenon
<1> HIDE DEF Right
<1>5. Wrong = {}
  <2> SUFFICES ASSUME Wrong # {} PROVE FALSE
    BY Zenon
  <2> DEFINE m == Min(Wrong)
  <2>1. Wrong \in SUBSET Nat
    OBVIOUS
  <2>2. m \in Wrong /\ \A x \in Wrong : m <= x
    BY <2>1, MinIsLeast, Zenon
  <2> HIDE DEF m
  <2>3. m \in 1..n /\ ~Right(m) /\ n >= 1
    BY <2>2
  <2>4. m # 1
    BY <1>3, <2>3, Zenon
  <2>5. m - 1 \in 1..n /\ (m - 1) + 1 = m /\ ~(m <= m - 1)
    BY <2>3, <2>4
  <2>6. Right(m - 1)
    BY <2>2, <2>5, Zenon
  <2> QED
    BY <1>4, <2>3, <2>5, <2>6, Zenon
<1>6. CASE n = 0
  <2>1. O = {}
    BY <1>6, SlotSets, FS_EmptySet, Zenon
  <2>2. 1..0 = {}
    OBVIOUS
  <2> QED
    BY <1>0, <1>6, <2>1, <2>2, Zenon
<1>7. CASE n # 0
  <2>1. n \in 1..n
    BY <1>7
  <2>2. Right(n)
    BY <1>5, <2>1, Zenon
  <2>3. Met(n) = {f[j] : j \in 1..n} /\ Cardinality(Met(n)) = n
    BY <2>2, Zenon DEF Right
  <2>4. Met(n) = O
    <3>1. Met(n) \in SUBSET O /\ IsFiniteSet(O)
      BY <1>2, SlotSets, Zenon
    <3> QED
      BY <2>3, <3>1, FS_Subset, Zenon
  <2> QED
    BY <1>0, <2>3, <2>4, Zenon
<1> QED
  BY <1>6, <1>7, Zenon

\* Positions on the ring and distances.
LEMMA RingPositions ==
    ASSUME NEW a \in Slots
    PROVE  /\ \A i \in 1..(MaxIps - 1) : (a + i) % MaxIps \in Slots /\ Ahead(a, (a + i) % MaxIps) = i
           /\ \A x \in Slots : x # a => Ahead(a, x) \in 1..(MaxIps - 1) /\ (a + Ahead(a, x)) % MaxIps = x
           /\ Ahead(a, a) = MaxIps
<1>1. \A m \in 0..(MaxIps - 1) : m % MaxIps = m
  BY SlotNumbers
<1>2. \A m \in MaxIps..(2 * MaxIps - 1) : m % MaxIps = m - MaxIps
  BY SlotNumbers
<1>3. a \in Nat /\ a < MaxIps /\ MaxIps \in Nat
  BY SlotNumbers, Zenon
<1>4. ASSUME NEW i \in 1..(MaxIps - 1)
      PROVE  (a + i) % MaxIps \in Slots /\ Ahead(a, (a + i) % MaxIps) = i
  <2>1. CASE a + i < MaxIps
    <3>1. (a + i) % MaxIps = a + i
      BY <1>1, <1>3, <2>1
    <3>2. a + i \in Slots /\ Ahead(a, a + i) = i
      BY <1>3, <2>1, SlotNumbers DEF Ahead
    <3> QED
      BY <3>1, <3>2, Zenon
  <2>2. CASE ~(a + i < MaxIps)
    <3>1. (a + i) % MaxIps = a + i - MaxIps
      BY <1>2, <1>3, <2>2
    <3>2. a + i - MaxIps \in Slots /\ Ahead(a, a + i - MaxIps) = i
      BY <1>3, <2>2, SlotNumbers DEF Ahead
    <3> QED
      BY <3>1, <3>2, Zenon
  <2> QED
    BY <2>1, <2>2, Zenon
<1>5. ASSUME NEW x \in Slots, x # a
      PROVE  Ahead(a, x) \in 1..(MaxIps - 1) /\ (a + Ahead(a, x)) % MaxIps = x
  <2>1. x \in Nat /\ x < MaxIps
    BY SlotNumbers, Zenon
  <2>2. CASE x > a
    <3>1. Ahead(a, x) = x - a /\ Ahead(a, x) \in 1..(MaxIps - 1) /\ a + Ahead(a, x) = x
      BY <1>3, <2>1, <2>2 DEF Ahead
    <3>2. x % MaxIps = x
      BY <1>1, <1>3, <2>1
    <3> QED
      BY <3>1, <3>2, Zenon
  <2>3. CASE ~(x > a)
    <3>1. Ahead(a, x) \in 1..(MaxIps - 1) /\ a + Ahead(a, x) = x + MaxIps
      BY <1>3, <1>5, <2>1, <2>3 DEF Ahead
    <3>2. (x + MaxIps) % MaxIps = x
      BY <1>2, <1>3, <2>1
    <3> QED
      BY <3>1, <3>2, Zenon
  <2> QED
    BY <2>2, <2>3, Zenon
<1>6. Ahead(a, a) = MaxIps
  BY <1>3 DEF Ahead
<1> QED
  BY <1>4, <1>5, <1>6, Zenon

\* f lists the values that N takes, from a on, when it is applied m times.
Iterates(N, S, a, m, f) ==
    f \in [1..m -> S] /\ \A k \in 1..m : f[k] = N[IF k = 1 THEN a ELSE f[k - 1]]

\* A function can be applied over and over.
LEMMA IterateExists ==
    ASSUME NEW S, NEW N \in [S -> S], NEW a \in S, NEW n \in Nat
    PROVE  \E f : Iterates(N, S, a, n, f)
<1> DEFINE Bad == {m \in Nat : ~\E f : Iterates(N, S, a, m, f)}
           m == Min(Bad)
<1> SUFFICES ASSUME Bad # {} PROVE FALSE
  BY Zenon
<1>1. m \in Bad /\ \A x \in Bad : m <= x
  BY MinIsLeast, Zenon
<1> HIDE DEF m
<1>2. m \in Nat /\ ~\E f : Iterates(N, S, a, m, f)
  BY <1>1, Zenon
<1>3. CASE m = 0
  <2> DEFINE f == [k \in 1..0 |-> a]
  <2>1. 1..0 = {}
    OBVIOUS
  <2>2. Iterates(N, S, a, 0, f)
    BY <2>1, Zenon DEF Iterates
  <2> QED
    BY <1>2, <1>3, <2>2, Zenon
<1>4. CASE m # 0
  <2>1. m - 1 \in Nat /\ ~(m <= m - 1)
    BY <1>2, <1>4
  <2>2. PICK f : Iterates(N, S, a, m - 1, f)
    BY <1>1, <2>1, Zenon
  <2> DEFINE last == N[IF m = 1 THEN a ELSE f[m - 1]]
             g == [k \in 1..m |-> IF k = m THEN last ELSE f[k]]
  <2>3. f \in [1..(m - 1) -> S] /\ \A k \in 1..(m - 1) : f[k] = N[IF k = 1 THEN a ELSE f[k - 1]]
    BY <2>2, Zenon DEF Iterates
  <2>4. last \in S
    <3>1. CASE m = 1
      BY <3>1, Zenon
    <3>2. CASE m # 1
      <4>1. m - 1 \in 1..(m - 1)
        BY <1>2, <1>4, <3>2
      <4> QED
        BY <2>3, <3>2, <4>1, Zenon
    <3> QED
      BY <3>1, <3>2, Zenon
  <2> HIDE DEF last
  <2>5. \A k \in 1..m : k # m => k \in 1..(m - 1)
    BY <1>2
  <2>6. g \in [1..m -> S]
    BY <2>3, <2>4, <2>5, Zenon
  <2>7. ASSUME NEW k \in 1..m PROVE g[k] = N[IF k = 1 THEN a ELSE g[k - 1]]
    <3>1. k = 1 \/ (k - 1 \in 1..m /\ k - 1 # m)
      BY <1>2
    <3>2. IF k = 1 THEN TRUE ELSE g[k - 1] = f[k - 1]
      BY <3>1, Zenon
    <3>3. CASE k = m
      <4>1. g[k] = last
        BY <3>3, Zenon
      <4> QED
        BY <3>2, <3>3, <4>1, Zenon DEF last
    <3>4. CASE k # m
      <4>1. g[k] = f[k] /\ f[k] = N[IF k = 1 THEN a ELSE f[k - 1]]
        BY <2>3, <2>5, <3>4, Zenon
      <4> HIDE DEF g
      <4> QED
        BY <3>2, <4>1, Zenon
    <3> QED
      BY <3>3, <3>4, Zenon
  <2> HIDE DEF g
  <2>8. Iterates(N, S, a, m, g)
    BY <2>6, <2>7, Zenon DEF Iterates
  <2> QED
    BY <1>2, <2>8, Zenon
<1> QED
  BY <1>3, <1>4, Zenon

\* The record of a load balancer has its fields, and counts its back ends.
LbShape(l) ==
    /\ l = [ports |-> l.ports, ips |-> l.ips, last |-> l.last, cnt |-> l.cnt]
    /\ l.ips \in [Slots -> Backends \cup {Zero}] /\ l.last \in Slots

\* la is the load balancer l after last_sel_pos was set to a.
LastSet(l, a, la) ==
    la = [l EXCEPT !.last = a]

\* Where the search starts changes nothing else of the record.
LEMMA LastChanged ==
    ASSUME NEW l, LbShape(l), NEW a, NEW la, LastSet(l, a, la)
    PROVE  /\ la.last = a /\ la.cnt = l.cnt /\ Occupied(la) = Occupied(l)
           /\ \A port, proto : Listening(la, port, proto) <=> Listening(l, port, proto)
<1>1. la.ports = l.ports /\ la.ips = l.ips /\ la.last = a /\ la.cnt = l.cnt
  BY Zenon DEF LbShape, LastSet
<1>2. Occupied(la) = Occupied(l)
  BY <1>1, Zenon DEF Occupied
<1>3. \A port, proto : Listening(la, port, proto) <=> Listening(l, port, proto)
  BY <1>1, Zenon DEF Listening
<1> QED
  BY <1>1, <1>2, <1>3, Zenon

\* dp_lb_rr_backend selects the first back end after the last one selected.
LEMMA NextBackend ==
    ASSUME NEW l, LbShape(l), NEW a \in Slots, NEW port, NEW proto, Listening(l, port, proto),
           l.cnt = Cardinality(Occupied(l)), Occupied(l) # {}
    PROVE  FirstAfter(Occupied(l), a, dp_lb_rr_backend([l EXCEPT !.last = a], port, proto))
<1> DEFINE la == [l EXCEPT !.last = a]
           O == Occupied(l)
           order == SearchOrder(la)
           C == Candidates(la)
           m == Min(C)
<1>0. LastSet(l, a, la)
  BY Zenon DEF LastSet
<1> HIDE DEF la
<1>1. la.last = a /\ la.cnt = l.cnt /\ Occupied(la) = O /\ Listening(la, port, proto)
  BY <1>0, LastChanged, Zenon
<1>2. O \in SUBSET Slots
  BY Zenon DEF Occupied
<1>3. C = {i \in DOMAIN order : order[i] \in O}
  BY <1>1, Zenon DEF Candidates
<1>4. C # {} => dp_lb_rr_backend(la, port, proto) = order[m]
  BY <1>1, Zenon DEF dp_lb_rr_backend
<1>5. CASE l.cnt = 1
  <2>1. order = [i \in 1..MaxIps |-> i - 1]
    BY <1>1, <1>5, Zenon DEF SearchOrder
  <2> HIDE DEF order, C, O
  <2>2. PICK o : O = {o}
    BY <1>2, <1>5, SlotSets, FS_Singleton, Zenon DEF O
  <2>3. o \in Nat /\ o < MaxIps /\ MaxIps \in Nat
    BY <1>2, <2>2, SlotNumbers, Zenon
  <2>4. o + 1 \in 1..MaxIps /\ (o + 1) - 1 = o
    BY <2>3
  <2>5. C \in SUBSET Nat /\ C # {}
    <3>1. DOMAIN order = 1..MaxIps /\ order[o + 1] = o
      BY <2>1, <2>4, Zenon
    <3>2. 1..MaxIps \subseteq Nat
      OBVIOUS
    <3> QED
      BY <1>3, <2>2, <2>4, <3>1, <3>2, Zenon
  <2>6. order[m] = o
    BY <1>3, <2>2, <2>5, MinIsLeast, Zenon
  <2>7. Ahead(a, o) <= Ahead(a, o)
    <3>1. Ahead(a, o) \in Nat
      BY <1>2, <2>2, AheadType, Zenon
    <3> QED
      BY <3>1
  <2>8. FirstAfter(O, a, o)
    BY <2>2, <2>7, Zenon DEF FirstAfter
  <2> QED
    BY <1>4, <2>5, <2>6, <2>8, Zenon DEF O, la
<1>6. CASE l.cnt # 1
  <2>1. order = [i \in 1..(MaxIps - 1) |-> (a + i) % MaxIps]
    BY <1>1, <1>6, Zenon DEF SearchOrder
  <2> HIDE DEF order, C, O
  <2>2. PICK y \in O : y # a
    <3>1. O # {a}
      BY <1>6, FS_Singleton, Zenon DEF O
    <3>2. O # {}
      BY Zenon DEF O
    <3> QED
      BY <3>1, <3>2, Zenon
  <2>3. \A x \in O : x # a => Ahead(a, x) \in C
    <3> SUFFICES ASSUME NEW x \in O, x # a PROVE Ahead(a, x) \in C
      BY Zenon
    <3>1. Ahead(a, x) \in 1..(MaxIps - 1) /\ (a + Ahead(a, x)) % MaxIps = x
      BY <1>2, RingPositions, Zenon
    <3> QED
      BY <1>3, <2>1, <3>1, Zenon
  <2>4. C \in SUBSET Nat /\ C # {} /\ C \subseteq 1..(MaxIps - 1)
    <3>1. 1..(MaxIps - 1) \subseteq Nat
      OBVIOUS
    <3>2. C \subseteq 1..(MaxIps - 1)
      BY <1>3, <2>1, Zenon
    <3> QED
      BY <2>2, <2>3, <3>1, <3>2, Zenon
  <2>5. m \in C /\ \A i \in C : m <= i
    BY <2>4, MinIsLeast, Zenon
  <2> HIDE DEF m
  <2>6. order[m] \in O /\ Ahead(a, order[m]) = m
    BY <1>3, <2>1, <2>4, <2>5, RingPositions, Zenon
  <2>7. m <= MaxIps
    <3>1. m \in 1..(MaxIps - 1)
      BY <2>4, <2>5, Zenon
    <3> QED
      BY <3>1, SlotNumbers
  <2>8. FirstAfter(O, a, order[m])
    BY <2>3, <2>5, <2>6, <2>7, RingPositions, Zenon DEF FirstAfter
  <2> QED
    BY <1>4, <2>4, <2>8, Zenon DEF O, la, m
<1> QED
  BY <1>5, <1>6, Zenon

\* As many turns of dp_lb_rr_backend as there are back ends select them all.
LEMMA RoundComplete ==
    ASSUME NEW l, LbShape(l), l.cnt = Cardinality(Occupied(l)), NEW port, NEW proto
    PROVE  NextSelected(l, Cardinality(Occupied(l)), port, proto)
             = IF Listening(l, port, proto) THEN Occupied(l) ELSE {}
<1> DEFINE O == Occupied(l)
           n == Cardinality(O)
           next(last) == dp_lb_rr_backend([l EXCEPT !.last = last], port, proto)
           Turns(f) == [k \in 1..n |-> next(IF k = 1 THEN l.last ELSE f[k - 1])]
           AreTurns(f) == f = Turns(f)
           chosen == CHOOSE f : AreTurns(f)
<1>1. NextSelected(l, n, port, proto) = Range(chosen) \ {-1}
  BY Zenon DEF NextSelected
<1>2. O \in SUBSET Slots /\ n \in Nat
  BY SlotSets, Zenon DEF Occupied
<1>3. ASSUME NEW f, AreTurns(f) PROVE AreTurns(chosen)
  BY <1>3, Zenon
<1> HIDE DEF chosen
<1>4. ASSUME NEW f, AreTurns(f)
      PROVE  DOMAIN f = 1..n /\ \A k \in 1..n : f[k] = next(IF k = 1 THEN l.last ELSE f[k - 1])
  <2>1. f = Turns(f)
    BY <1>4, Zenon
  <2> QED
    BY <2>1, Zenon
<1> HIDE DEF AreTurns
<1>5. CASE ~Listening(l, port, proto)
  <2>1. ASSUME NEW x PROVE next(x) = -1
    <3> DEFINE la == [l EXCEPT !.last = x]
    <3>1. LastSet(l, x, la)
      BY Zenon DEF LastSet
    <3> HIDE DEF la
    <3>2. ~Listening(la, port, proto)
      BY <1>5, <3>1, LastChanged, Zenon
    <3>3. dp_lb_rr_backend(la, port, proto) = -1
      BY <3>2, Zenon DEF dp_lb_rr_backend
    <3> QED
      BY <3>3, Zenon DEF la
  <2> HIDE DEF next
  <2>2. AreTurns([k \in 1..n |-> -1])
    BY <2>1, Zenon DEF AreTurns
  <2>3. AreTurns(chosen)
    BY <1>3, <2>2, Zenon
  <2>4. DOMAIN chosen = 1..n /\ \A k \in 1..n : chosen[k] = -1
    BY <1>4, <2>1, <2>3, Zenon
  <2>5. \A x \in Range(chosen) : x = -1
    BY <2>4, Zenon DEF Range
  <2> QED
    BY <1>1, <1>5, <2>5, Zenon
<1>6. CASE O = {}
  <2>1. n = 0
    BY <1>6, FS_EmptySet, Zenon
  <2>2. 1..0 = {}
    OBVIOUS
  <2> DEFINE none == [k \in 1..n |-> -1]
  <2>3. AreTurns(none)
    BY <2>1, <2>2, Zenon DEF AreTurns
  <2> HIDE DEF none
  <2>4. AreTurns(chosen)
    BY <1>3, <2>3, Zenon
  <2>5. DOMAIN chosen = {}
    BY <1>4, <2>1, <2>2, <2>4, Zenon
  <2>6. Range(chosen) = {}
    BY <2>5, Zenon DEF Range
  <2> QED
    BY <1>1, <1>6, <2>6, Zenon
<1>7. CASE Listening(l, port, proto) /\ O # {}
  <2>1. ASSUME NEW x \in Slots PROVE FirstAfter(O, x, next(x)) /\ next(x) \in Slots
    <3>1. FirstAfter(O, x, next(x))
      BY <1>7, NextBackend, Zenon
    <3> QED
      BY <1>2, <3>1, Zenon DEF FirstAfter
  <2> HIDE DEF next
  <2> DEFINE N == [x \in Slots |-> next(x)]
  <2>2. N \in [Slots -> Slots] /\ l.last \in Slots
    BY <2>1, Zenon DEF LbShape
  <2>3. \A x \in Slots : N[x] = next(x)
    BY Zenon
  <2> HIDE DEF N
  <2>4. PICK f : Iterates(N, Slots, l.last, n, f)
    BY <1>2, <2>2, IterateExists, Zenon
  <2>5. ASSUME NEW k \in 1..n PROVE (IF k = 1 THEN l.last ELSE f[k - 1]) \in Slots
    <3>1. k = 1 \/ k - 1 \in 1..n
      BY <1>2
    <3> QED
      BY <2>2, <2>4, <3>1, Zenon DEF Iterates
  <2>6. AreTurns(f)
    <3>1. f = [k \in 1..n |-> f[k]]
      BY <2>4, Zenon DEF Iterates
    <3>2. \A k \in 1..n : f[k] = next(IF k = 1 THEN l.last ELSE f[k - 1])
      BY <2>3, <2>4, <2>5, Zenon DEF Iterates
    <3> QED
      BY <3>1, <3>2, Zenon DEF AreTurns
  <2>7. /\ DOMAIN chosen = 1..n
        /\ \A k \in 1..n : chosen[k] = next(IF k = 1 THEN l.last ELSE chosen[k - 1])
    BY <1>3, <1>4, <2>6, Zenon
  <2> DEFINE Astray == {k \in 1..n : chosen[k] \notin Slots}
             m == Min(Astray)
  <2>8. Astray = {}
    <3> SUFFICES ASSUME Astray # {} PROVE FALSE
      BY Zenon
    <3>1. Astray \in SUBSET Nat
      OBVIOUS
    <3>2. m \in Astray /\ \A x \in Astray : m <= x
      BY <3>1, MinIsLeast, Zenon
    <3> HIDE DEF m
    <3>3. m \in 1..n /\ chosen[m] \notin Slots
      BY <3>2, Zenon
    <3>4. m = 1 \/ (m - 1 \in 1..n /\ ~(m <= m - 1))
      BY <1>2, <3>3
    <3>5. (IF m = 1 THEN l.last ELSE chosen[m - 1]) \in Slots
      BY <2>2, <3>2, <3>4, Zenon
    <3> QED
      BY <2>1, <2>7, <3>3, <3>5, Zenon
  <2>9. Round(O, l.last, n, chosen)
    <3> SUFFICES ASSUME NEW k \in 1..n
                 PROVE  FirstAfter(O, IF k = 1 THEN l.last ELSE chosen[k - 1], chosen[k])
      BY Zenon DEF Round
    <3> DEFINE x == IF k = 1 THEN l.last ELSE chosen[k - 1]
    <3>1. k = 1 \/ k - 1 \in 1..n
      BY <1>2
    <3>2. x \in Slots
      BY <2>2, <2>8, <3>1, Zenon
    <3>3. chosen[k] = next(x)
      BY <2>7, Zenon
    <3> HIDE DEF x
    <3>4. FirstAfter(O, x, chosen[k])
      BY <2>1, <3>2, <3>3, Zenon
    <3> QED
      BY <3>4, Zenon DEF x
  <2>10. Range(chosen) = O
    BY <1>2, <2>2, <2>7, <2>9, RoundCovers, Zenon
  <2>11. -1 \notin O
    <3>1. -1 \notin Nat
      OBVIOUS
    <3> QED
      BY <1>2, <3>1, SlotNumbers, Zenon
  <2> QED
    BY <1>1, <1>7, <2>10, <2>11, Zenon
<1> QED
  BY <1>5, <1>6, <1>7, Zenon

-----------------------------------------------------------------------------
\* The load balancer's record through every step.

\* A step that leaves the load balancer alone.
LbKept == UNCHANGED <<lb, miscounts>>

\* l2 is l with address ip in slot p and the count n.
SlotSet(l, p, ip, n, l2) == l2 = [l EXCEPT !.ips[p] = ip, !.cnt = n]

SlotWritten(l, p, ip, n, l2) ==
    /\ LbShape(l2) /\ l2.cnt = n
    /\ ip # Zero => \A q : q \in Occupied(l2) <=> q \in Occupied(l) \/ q = p
    /\ ip = Zero => \A q : q \in Occupied(l2) <=> q \in Occupied(l) /\ q # p

\* Writing a slot leaves the other slots in use as they are.
LEMMA SlotChanged ==
    ASSUME NEW l, LbShape(l), NEW p \in Slots, NEW ip \in Backends \cup {Zero}, NEW n, NEW l2,
           SlotSet(l, p, ip, n, l2)
    PROVE  SlotWritten(l, p, ip, n, l2)
<1> DEFINE ips == [l.ips EXCEPT ![p] = ip]
<1>1. l2 = [ports |-> l.ports, ips |-> ips, last |-> l.last, cnt |-> n]
  BY Zenon DEF LbShape, SlotSet
<1>2. ips \in [Slots -> Backends \cup {Zero}]
  BY Zenon DEF LbShape
<1>3. ips[p] = ip /\ \A q \in Slots : q # p => ips[q] = l.ips[q]
  BY Zenon DEF LbShape
<1> HIDE DEF ips
<1>4. l2.ports = l.ports /\ l2.ips = ips /\ l2.last = l.last /\ l2.cnt = n
  BY <1>1, Zenon
<1>5. LbShape(l2)
  BY <1>1, <1>2, <1>4, Zenon DEF LbShape
<1>6. ASSUME NEW q PROVE q \in Occupied(l2) <=> q \in Slots /\ (IF q = p THEN ip # Zero ELSE l.ips[q] # Zero)
  BY <1>3, <1>4, Zenon DEF Occupied
<1> QED
  BY <1>4, <1>5, <1>6, Zenon DEF Occupied, SlotWritten

\* A back end added to a free slot is counted once (dp_add_lb_back_ip).
LEMMA AddCounted ==
    ASSUME LbInv, NEW ip \in Backends, dp_add_lb_back_ip(ip)
    PROVE  LbInv'
<1> DEFINE p == dp_lb_last_free_pos(lb)
           n == (lb.cnt + 1) % (UINT16_MAX + 1)
           O == Occupied(lb)
<1>1. lb # None /\ LbShape(lb) /\ miscounts \in Nat /\ miscounts' = miscounts
  BY Zenon DEF LbInv, LbShape, dp_add_lb_back_ip
<1>2. p \in SlotsWith(lb, Zero)
  <2>1. SlotsWith(lb, Zero) \in SUBSET Nat
    BY SlotNumbers, Zenon DEF SlotsWith
  <2> QED
    BY <2>1, MinIsLeast, Zenon DEF dp_add_lb_back_ip, dp_lb_last_free_pos
<1>3. p \in Slots /\ p \notin O
  BY <1>2, Zenon DEF SlotsWith, Occupied
<1>4. SlotSet(lb, p, ip, n, lb')
  BY Zenon DEF dp_add_lb_back_ip, SlotSet
<1>5. ip # Zero /\ ip \in Backends \cup {Zero}
  BY ConstantsAssumption, Zenon
<1> HIDE DEF p, n
<1>6. /\ LbShape(lb') /\ lb'.cnt = n
      /\ \A q : q \in Occupied(lb') <=> q \in O \/ q = p
  <2>1. SlotWritten(lb, p, ip, n, lb')
    BY <1>1, <1>3, <1>4, <1>5, SlotChanged, Zenon
  <2> QED
    BY <1>5, <2>1, Zenon DEF SlotWritten
<1>7. ASSUME miscounts = 0 PROVE n = Cardinality(Occupied(lb'))
  <2>1. lb.cnt = Cardinality(O)
    BY <1>1, <1>7, Zenon DEF LbInv
  <2>2. O \in SUBSET Slots /\ Occupied(lb') \in SUBSET Slots
    BY Zenon DEF Occupied
  <2> HIDE DEF O
  <2>3. Occupied(lb') = O \cup {p}
    BY <1>6, Zenon
  <2>4. IsFiniteSet(O) /\ Cardinality(O) \in Nat
    BY <2>2, SlotSets, Zenon
  <2>5. Cardinality(O \cup {p}) = Cardinality(O) + 1
    BY <1>3, <2>4, FS_AddElement, Zenon
  <2>6. Cardinality(O \cup {p}) <= MaxIps
    BY <2>2, <2>3, SlotSets, Zenon
  <2> DEFINE k == Cardinality(O)
             j == lb.cnt
  <2>7. k \in Nat /\ k + 1 <= MaxIps /\ j = k
    BY <2>1, <2>4, <2>5, <2>6, Zenon
  <2> HIDE DEF k, j
  <2>8. (j + 1) % (UINT16_MAX + 1) = k + 1
    BY <2>7, SlotNumbers
  <2> QED
    BY <2>3, <2>5, <2>8, Zenon DEF n, j, k
<1> QED
  BY <1>1, <1>6, <1>7, Zenon DEF LbInv, LbShape

\* A back end removed from its slot is no longer counted (dp_del_lb_back_ip).
LEMMA DeleteCounted ==
    ASSUME LbInv, NEW ip \in Backends \cup {Zero}, dp_del_lb_back_ip(ip)
    PROVE  LbInv'
<1> DEFINE p == Min(SlotsWith(lb, ip))
           n == (lb.cnt - 1) % (UINT16_MAX + 1)
           O == Occupied(lb)
<1>1. lb # None /\ LbShape(lb) /\ miscounts \in Nat
  BY Zenon DEF LbInv, LbShape, dp_del_lb_back_ip
<1>2. p \in SlotsWith(lb, ip)
  <2>1. SlotsWith(lb, ip) \in SUBSET Nat
    BY SlotNumbers, Zenon DEF SlotsWith
  <2> QED
    BY <2>1, MinIsLeast, Zenon DEF dp_del_lb_back_ip, dp_lb_is_back_ip_inserted
<1>3. p \in Slots /\ (ip # Zero => p \in O)
  BY <1>2, Zenon DEF SlotsWith, Occupied
<1>4. SlotSet(lb, p, Zero, n, lb')
  BY Zenon DEF dp_del_lb_back_ip, dp_lb_delete_back_ip, SlotSet
<1> HIDE DEF p, n
<1>5. /\ LbShape(lb') /\ lb'.cnt = n
      /\ \A q : q \in Occupied(lb') <=> q \in O /\ q # p
  <2>1. Zero \in Backends \cup {Zero}
    BY Zenon
  <2>2. SlotWritten(lb, p, Zero, n, lb')
    BY <1>1, <1>3, <1>4, <2>1, SlotChanged, Zenon
  <2> QED
    BY <2>2, Zenon DEF SlotWritten
<1>6. /\ miscounts' \in Nat
      /\ miscounts' = 0 => miscounts = 0 /\ ip # Zero
  <2>1. miscounts' = IF ip = Zero THEN miscounts + 1 ELSE miscounts
    BY Zenon DEF dp_del_lb_back_ip
  <2>2. miscounts + 1 \in Nat /\ miscounts + 1 # 0
    BY <1>1
  <2> QED
    BY <1>1, <2>1, <2>2, Zenon
<1>7. ASSUME miscounts = 0, ip # Zero PROVE n = Cardinality(Occupied(lb'))
  <2>1. lb.cnt = Cardinality(O)
    BY <1>1, <1>7, Zenon DEF LbInv
  <2>2. O \in SUBSET Slots /\ p \in O
    BY <1>3, <1>7, Zenon DEF Occupied
  <2>3. Cardinality(O) <= MaxIps
    BY <2>2, SlotSets, Zenon
  <2> HIDE DEF O
  <2>4. Occupied(lb') = O \ {p}
    BY <1>5, Zenon
  <2>5. IsFiniteSet(O) /\ Cardinality(O) \in Nat
    BY <2>2, SlotSets, Zenon
  <2>6. Cardinality(O \ {p}) = Cardinality(O) - 1
    BY <2>2, <2>5, FS_RemoveElement, Zenon
  <2>7. O # {}
    BY <2>2, Zenon
  <2>8. Cardinality(O) # 0
    BY <2>5, <2>7, FS_EmptySet, Zenon
  <2> DEFINE k == Cardinality(O)
             j == lb.cnt
  <2>9. k \in Nat /\ k <= MaxIps /\ k # 0 /\ j = k
    BY <2>1, <2>3, <2>5, <2>8, Zenon
  <2> HIDE DEF k, j
  <2>10. (j - 1) % (UINT16_MAX + 1) = k - 1
    BY <2>9, SlotNumbers
  <2> QED
    BY <2>4, <2>6, <2>10, Zenon DEF n, j, k
<1> QED
  BY <1>1, <1>5, <1>6, <1>7, Zenon DEF LbInv, LbShape

\* A selection moves last_sel_pos to a slot in use (dp_lb_rr_backend).
LEMMA SelectionKeeps ==
    ASSUME LbInv, NEW c \in Conns, LbNode(c)
    PROVE  LbInv'
<1> DEFINE a == Selected(c)
<1>1. lb # None /\ LbShape(lb) /\ miscounts' = miscounts
  BY Zenon DEF LbInv, LbShape, LbNode, ToLb
<1>2. UNCHANGED lb \/ (a # -1 /\ LastSet(lb, a, lb'))
  BY Zenon DEF LbNode, LastSet
<1>3. ASSUME a # -1 PROVE a \in Slots
  <2>1. a = SearchOrder(lb)[Min(Candidates(lb))] /\ Candidates(lb) # {}
    BY <1>3, Zenon DEF Selected, dp_lb_rr_backend
  <2>2. Candidates(lb) \in SUBSET Nat
    BY SlotNumbers DEF Candidates, SearchOrder
  <2>3. Min(Candidates(lb)) \in Candidates(lb)
    BY <2>1, <2>2, MinIsLeast, Zenon
  <2> QED
    BY <2>1, <2>3, Zenon DEF Candidates, Occupied
<1> HIDE DEF a
<1>4. ASSUME a # -1, LastSet(lb, a, lb') PROVE LbInv'
  <2>1. lb' = [ports |-> lb.ports, ips |-> lb.ips, last |-> a, cnt |-> lb.cnt]
    BY <1>1, <1>4, Zenon DEF LbShape, LastSet
  <2>2. lb'.ports = lb.ports /\ lb'.ips = lb.ips /\ lb'.last = a /\ lb'.cnt = lb.cnt
    BY <2>1, Zenon
  <2>3. Occupied(lb') = Occupied(lb)
    BY <2>2, Zenon DEF Occupied
  <2>4. lb' = [ports |-> lb'.ports, ips |-> lb'.ips, last |-> lb'.last, cnt |-> lb'.cnt]
    BY <2>1, <2>2, Zenon
  <2> QED
    BY <1>1, <1>3, <1>4, <2>2, <2>3, <2>4, Zenon DEF LbInv
<1>5. UNCHANGED lb => LbInv'
  BY <1>1, Zenon DEF LbInv, Occupied
<1> QED
  BY <1>2, <1>4, <1>5, Zenon

\* A new load balancer has no back ends and counts none (dp_create_lb).
LEMMA CreatedEmpty ==
    ASSUME LbInv, NEW listen, dp_create_lb(listen)
    PROVE  LbInv'
<1> DEFINE ports == [i \in 1..MaxPorts |-> IF i \in DOMAIN listen THEN listen[i]
                                           ELSE [port |-> 0, proto |-> None]]
           ips == [i \in Slots |-> Zero]
<1>1. lb' = [ports |-> ports, ips |-> ips, last |-> 0, cnt |-> 0] /\ miscounts' = miscounts
  BY Zenon DEF dp_create_lb
<1>2. ips \in [Slots -> Backends \cup {Zero}] /\ \A i \in Slots : ips[i] = Zero
  BY Zenon
<1> HIDE DEF ports, ips
<1>3. lb'.ports = ports /\ lb'.ips = ips /\ lb'.last = 0 /\ lb'.cnt = 0
  BY <1>1, Zenon
<1>4. 0 \in Slots
  BY SlotNumbers
<1>5. Occupied(lb') = {}
  BY <1>2, <1>3, Zenon DEF Occupied
<1>6. Cardinality(Occupied(lb')) = 0
  BY <1>5, FS_EmptySet, Zenon
<1>7. lb' = [ports |-> lb'.ports, ips |-> lb'.ips, last |-> lb'.last, cnt |-> lb'.cnt]
  BY <1>1, <1>3, Zenon
<1> QED
  BY <1>1, <1>2, <1>3, <1>4, <1>6, <1>7, Zenon DEF LbInv

\* The count of back ends is exact throughout.
LEMMA LbInvariant == Spec => []LbInv
<1>1. Init => LbInv
  BY DEF Init, LbInv
<1>2. LbInv /\ [Next]_vars => LbInv'
  <2> SUFFICES ASSUME LbInv, [Next]_vars PROVE LbInv'
    BY Zenon
  <2>1. CASE \E l \in LbRequests : dp_create_lb(l)
    BY <2>1, CreatedEmpty, Zenon
  <2>2. CASE dp_delete_lb
    BY <2>2, Zenon DEF LbInv, dp_delete_lb
  <2>3. CASE \E ip \in Backends : dp_add_lb_back_ip(ip)
    BY <2>3, AddCounted, Zenon
  <2>4. CASE \E ip \in Backends \cup {Zero} : dp_del_lb_back_ip(ip)
    BY <2>4, DeleteCounted, Zenon
  <2>5. CASE \E c \in Conns : LbNode(c)
    BY <2>5, SelectionKeeps, Zenon
  <2>6. CASE LbKept
    BY <2>6, Zenon DEF LbInv, LbKept, Occupied
  <2>7. Step \/ LbKept
    BY Zenon DEF Next, Crash, vars, LbKept
  <2>8. ASSUME NEW vf \in Vfs,
               \/ \E r \in FwRequests : dp_process_create_fwrule(vf, r)
               \/ \E r \in FwRequests : dp_delete_firewall_rule(vf, r.id)
               \/ dp_del_all_firewall_rules(vf)
        PROVE  LbKept
    BY <2>8, Zenon DEF dp_process_create_fwrule, dp_delete_firewall_rule, dp_del_all_firewall_rules, LbKept
  <2>9. ASSUME NEW c \in Conns, FirewallNode(c) \/ Expire(c) PROVE LbKept
    BY <2>9, Zenon DEF FirewallNode, Expire, LbKept
  <2> QED
    BY <2>1, <2>2, <2>3, <2>4, <2>5, <2>6, <2>7, <2>8, <2>9, Zenon DEF Step
<1> QED
  BY <1>1, <1>2, PTL DEF Spec

\* As many new connections as there are back ends reach every one of them,
\* whatever was added, deleted and selected before (dp_lb_rr_backend).
THEOREM BackendsAllServed == Spec => []RoundRobinComplete
<1>1. LbInv => RoundRobinComplete
  <2> SUFFICES ASSUME LbInv, lb # None, miscounts = 0, NEW c \in Conns
               PROVE  NextSelected(lb, Cardinality(Occupied(lb)), Flows[c].dport, Flows[c].l4)
                        = IF Listening(lb, Flows[c].dport, Flows[c].l4) THEN Occupied(lb) ELSE {}
    BY Zenon DEF RoundRobinComplete
  <2>1. LbShape(lb) /\ lb.cnt = Cardinality(Occupied(lb))
    BY Zenon DEF LbInv, LbShape
  <2> QED
    BY <2>1, RoundComplete, Zenon
<1> QED
  BY <1>1, LbInvariant, PTL
=============================================================================
