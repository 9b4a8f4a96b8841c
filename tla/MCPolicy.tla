------------------------------ MODULE MCPolicy ------------------------------
(* Two interfaces, a load balancer and three connections for TLC.           *)
EXTENDS Policy, TLC

CONSTANTS vf1, vf2, balanced, outward, echo, b1, b2, b3

\* The back ends are interchangeable; the slots they are in are not
Symmetry == Permutations({b1, b2, b3})

MCListens == {<<[port |-> 80, proto |-> "TCP"]>>,
              <<[port |-> 0, proto |-> "TCP"], [port |-> 80, proto |-> "TCP"]>>}

MCFlows ==
    (balanced :> [in |-> None, out |-> vf1, l3 |-> 4, l4 |-> "TCP", src |-> 1, dst |-> 0,
                  sport |-> 9, dport |-> 80])
    @@ (outward :> [in |-> vf1, out |-> None, l3 |-> 4, l4 |-> "UDP", src |-> 2, dst |-> 3,
                    sport |-> 9, dport |-> 53])
    @@ (echo :> [in |-> vf2, out |-> vf1, l3 |-> 6, l4 |-> "ICMPV6", src |-> 1, dst |-> 2,
                 sport |-> 7, dport |-> 128 * 256])

Rule(id, dir, proto, l3, srcs, dsts, slo, shi, dlo, dhi) ==
    [id |-> id, dir |-> dir, action |-> "ACCEPT", proto |-> proto, l3src |-> l3, l3dst |-> l3,
     srcs |-> srcs, dsts |-> dsts, slo |-> slo, shi |-> shi, dlo |-> dlo, dhi |-> dhi]

MCRuleSet ==
    {Rule("tcp", "INGRESS", "TCP", 4, {0, 1, 2, 3}, {0}, AnyPort, 0, 80, 81),
     Rule("ping", "INGRESS", "ICMP", 6, {3}, {3}, 128, AnyPort, 0, 0),
     Rule("dns", "EGRESS", "UDP", 4, {2}, {2, 3}, AnyPort, 0, 53, 53),
     Rule("all", "EGRESS", "ANY", 6, {1}, {1}, AnyPort, 0, AnyPort, 0)}
=============================================================================
