------------------------------- MODULE Capture -------------------------------
(***************************************************************************)
(* Packet capture of offloaded ports: CaptureStart, CaptureStop and         *)
(* CaptureStatus (dp_grpc_impl.c) and the hardware rules behind them        *)
(* (dp_rte_flow_capture.c), with interfaces that come and go meanwhile      *)
(* (dp_start_port, dp_stop_port of dp_port.c).                              *)
(*                                                                          *)
(* Every started virtual function has a rule that sends all packets to the  *)
(* group of the virtual network.  To capture the port the rule is replaced  *)
(* by one to the capture group, where a second rule copies each packet to   *)
(* the sink before it sends it on; a physical port has only the second one. *)
(* The driver may refuse any of these operations.  Offloading is enabled.   *)
(***************************************************************************)
EXTENDS Naturals, Sequences, FiniteSets, Functions

CONSTANTS
    Vfs, Pf,        \* virtual functions; the physical port, started at init
    Sinks,          \* addresses and ports that captured packets are sent to
    MaxTargets,     \* bound on the interfaces of one CaptureStart
    None

Ports == Vfs \cup {Pf}

ASSUME ConstantsAssumption == Pf \notin Vfs /\ None \notin Ports /\ MaxTargets \in Nat

\* A handle of struct dp_port.  It is not cleared when its rule is destroyed.
Handles == [to : {"VNET", "CAPTURE"}, live : BOOLEAN]
Samples == [sink : Sinks, live : BOOLEAN]

\* struct dp_port; known: a request can name the port
PortStates == [allocated : BOOLEAN, known : BOOLEAN, captured : BOOLEAN,
               default_jump_flow : Handles \cup {None},
               default_capture_flow : Samples \cup {None}]

VARIABLES
    port,       \* [Ports -> PortStates]
    enabled,    \* capture_enabled
    sink,       \* capture_hdr_config
    watched,    \* history: the ports of the last successful CaptureStart still started
    start       \* history: the answer to the last CaptureStart

vars == <<port, enabled, sink, watched, start>>

Init == /\ port = [p \in Ports |-> [allocated |-> p = Pf, known |-> p = Pf, captured |-> FALSE,
                                    default_jump_flow |-> None, default_capture_flow |-> None]]
        /\ enabled = FALSE
        /\ sink = None
        /\ watched = {}
        /\ start = None

(***************************************************************************)
(* Rules.  An operation is a function of the port's state; f is the driver  *)
(* call that is refused.                                                    *)
(***************************************************************************)
Destroyed(h) == IF h = None THEN None ELSE [h EXCEPT !.live = FALSE]

StaleSample(q) == q.default_capture_flow # None /\ ~q.default_capture_flow.live

\* The driver may refuse a handle that was destroyed before; the jump rule is
\* gone then
DestroyFails(q, f) == \/ f = "destroy" /\ q.default_jump_flow # None
                      \/ f = "stale" /\ StaleSample(q)

dp_destroy_default_flow(q, f) ==
    IF DestroyFails(q, f) /\ f = "destroy" THEN q
    ELSE IF DestroyFails(q, f) THEN [q EXCEPT !.default_jump_flow = Destroyed(@)]
    ELSE [q EXCEPT !.default_jump_flow = Destroyed(@), !.default_capture_flow = Destroyed(@)]

dp_install_jump_rule_in_default_group(q, group) ==
    [q EXCEPT !.default_jump_flow = [to |-> group, live |-> TRUE]]

dp_install_default_rule_in_capture_group(q) ==
    [q EXCEPT !.default_capture_flow = [sink |-> sink', live |-> TRUE]]

EnableFails(q, f) == ~q.allocated \/ q.captured \/ DestroyFails(q, f)
                     \/ f \in {"jump", "sample", "undo", "restore"}

\* A virtual function's jump rule is restored when the second rule is refused
dp_enable_pkt_capture(p, q, f) ==
    LET bare   == dp_destroy_default_flow(q, f)
        jumped == IF p = Pf THEN bare ELSE dp_install_jump_rule_in_default_group(bare, "CAPTURE")
    IN IF ~q.allocated \/ q.captured THEN q
       ELSE IF DestroyFails(q, f) \/ f = "jump" \/ (p = Pf /\ EnableFails(q, f)) THEN bare
       ELSE IF f = "sample" THEN dp_install_jump_rule_in_default_group(bare, "VNET")
       ELSE IF f = "undo" THEN jumped
       ELSE IF f = "restore" THEN dp_destroy_default_flow(jumped, "none")
       ELSE [dp_install_default_rule_in_capture_group(jumped) EXCEPT !.captured = TRUE]

\* Calls dp_enable_pkt_capture, which refuses a port that is captured: it fails
\* with the first such port and changes none
DisableAllFails(s) == \E p \in Ports : s[p].allocated /\ s[p].captured

(***************************************************************************)
(* Ports                                                                    *)
(***************************************************************************)
dp_start_port(q) == [dp_install_jump_rule_in_default_group(q, "VNET") EXCEPT !.allocated = TRUE]

\* The mark of being captured stays
dp_stop_port(q, f) ==
    [dp_destroy_default_flow(q, f) EXCEPT !.allocated = DestroyFails(q, f) \/ f = "port"]

CreateInterface(p) ==
    /\ ~port[p].allocated
    /\ port' = [port EXCEPT ![p] = [dp_start_port(@) EXCEPT !.known = TRUE]]
    /\ UNCHANGED <<enabled, sink, watched, start>>

\* The interface is forgotten even when its port cannot be stopped
DeleteInterface(p, f) ==
    /\ port[p].known
    /\ port' = [port EXCEPT ![p] = [dp_stop_port(@, f) EXCEPT !.known = FALSE]]
    /\ watched' = watched \ {p}
    /\ UNCHANGED <<enabled, sink, start>>

(***************************************************************************)
(* Requests                                                                 *)
(***************************************************************************)
\* CaptureStartCall::FillRequest refuses more interfaces; None is an unknown one
CaptureRequests == UNION {[1..n -> Ports \cup {None}] : n \in 0..MaxTargets}

Known(s, p) == p # None /\ s[p].known

\* One interface after the other, until one fails
EnableNext(t, p, f) ==
    IF ~t.ok THEN t
    ELSE IF ~Known(t.s, p) THEN [t EXCEPT !.ok = FALSE]
    ELSE [s |-> [t.s EXCEPT ![p] = dp_enable_pkt_capture(p, @, f)],
          ok |-> ~EnableFails(t.s[p], f)]

\* Mutant: a capture that is running is not refused
NotEnabledAlways == TRUE

NotEnabled == ~enabled

\* bad is the interface whose rules the driver refuses, in the way f
dp_process_capture_start(targets, to, bad, f) ==
    /\ NotEnabled
    /\ sink' = to
    /\ LET loop[i \in 0..Len(targets)] ==
               IF i = 0 THEN [s |-> port, ok |-> TRUE]
               ELSE EnableNext(loop[i - 1], targets[i], IF targets[i] = bad THEN f ELSE "none")
           done == loop[Len(targets)]
       IN /\ port' = done.s
          /\ IF done.ok THEN enabled' = TRUE /\ start' = "OK" /\ watched' = Range(targets)
             ELSE /\ UNCHANGED <<enabled, watched>>
                  /\ start' = IF DisableAllFails(done.s) THEN "ROLLBACK" ELSE "failed"

dp_process_capture_stop ==
    /\ enabled
    /\ enabled' = DisableAllFails(port)
    /\ watched' = IF enabled' THEN watched ELSE {}
    /\ UNCHANGED <<port, sink, start>>

dp_process_capture_status ==
    IF enabled THEN {p \in Ports : port[p].allocated /\ port[p].captured} ELSE {}

\* What the driver may refuse, one call in a request or the two of a failing undo
Refused == {"none", "destroy", "stale", "jump", "sample", "undo", "restore"}

Next ==
    \/ \E p \in Vfs : CreateInterface(p)
    \/ \E p \in Vfs, f \in {"none", "destroy", "stale", "port"} : DeleteInterface(p, f)
    \/ \E targets \in CaptureRequests, to \in Sinks, bad \in Ports, f \in Refused :
           dp_process_capture_start(targets, to, bad, f)
    \/ dp_process_capture_stop

Spec == Init /\ [][Next]_vars

(***************************************************************************)
(* Properties                                                               *)
(***************************************************************************)
\* The variables hold what their C types allow.
TypeOK == /\ port \in [Ports -> PortStates]
          /\ enabled \in BOOLEAN
          /\ sink \in Sinks \cup {None}
          /\ watched \subseteq Ports
          /\ start \in {"OK", "failed", "ROLLBACK", None}

\* While a capture is active, CaptureStatus lists every interface it was started
\* for that has not been deleted since, the interface's packets do pass the
\* capture group, and they are copied to the sink that CaptureStatus tells,
\* whatever earlier attempts have left behind (dp_process_capture_start).
CaptureInPlace ==
    enabled => \A p \in watched :
        /\ p \in dp_process_capture_status
        /\ p # Pf => port[p].default_jump_flow = [to |-> "CAPTURE", live |-> TRUE]
        /\ port[p].default_capture_flow = [sink |-> sink, live |-> TRUE]

\* A CaptureStart that failed leaves no interface captured ("try to turn off
\* capture on all interfaces if any of them failed to turn on",
\* dp_grpc_impl.c:907).
CaptureRolledBack == start \in {"failed", "ROLLBACK"} => ~DisableAllFails(port)
=============================================================================
