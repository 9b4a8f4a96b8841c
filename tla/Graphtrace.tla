----------------------------- MODULE Graphtrace -----------------------------
(***************************************************************************)
(* Graph tracing: the worker copies packets into a ring shared with another *)
(* process, dpservice-dump (tools/dump/main.c), which starts and stops it   *)
(* with requests that the service's multi-process thread serves             *)
(* (dp_graphtrace.c).                                                       *)
(*                                                                          *)
(* Worker, multi-process thread and client run concurrently.  A client may  *)
(* be interrupted, be killed, or give up waiting for an answer, and the     *)
(* service may end.  Clients come one after the other: the ring has a       *)
(* single consumer.  Which packets match the filters is left open, so the   *)
(* filters, which change under the worker, are not state.                   *)
(***************************************************************************)
EXTENDS Naturals, Sequences

CONSTANTS
    RingBufSize,    \* DP_GRAPHTRACE_RINGBUF_SIZE
    MaxBurst,       \* packets in one call of _dp_graphtrace_send
    MaxClients      \* bound on clients over a run

ASSUME ConstantsAssumption ==
    RingBufSize \in Nat \ {0} /\ MaxBurst \in Nat \ {0} /\ MaxClients \in Nat

\* Mutant: a pool as large as the ring's array
PoolSizeWhole == RingBufSize

\* The second argument of rte_pktmbuf_pool_create
PoolSize == RingBufSize - 1

\* A DPDK ring of 2^n entries holds one less
Capacity == RingBufSize - 1

Phases == {"off", "start", "drain", "dump", "stop"}

\* A burst half way through the worker's function, and struct dp_graphtrace_mp_request
Bursts == [left : 0..MaxBurst, dups : 0..MaxBurst]
Requests == [action : {"START", "STOP"}, by : 0..MaxClients]

VARIABLES
    alive,      \* the service runs
    enabled,    \* _dp_graphtrace_enabled
    ring,       \* the trace ring; for each copy, the START requests served before it
    free,       \* copies left in the pool
    worker,     \* [left, dups]: packets of the burst still to copy, copies made
    requests,   \* requests sent and not served: [action, by]
    client,     \* the client's phase
    interrupt, primary_alive,   \* its flags
    held,       \* copies it has taken from the ring and not returned
    clients,    \* clients so far: the number of the running one
    served,     \* history: START requests served
    since,      \* history: the value of served when this client's START was
    full        \* history: the ring was ever full

service == <<alive, enabled, ring, free, worker, served, full>>
dump == <<client, interrupt, primary_alive, held, clients, since>>
vars == <<service, dump, requests>>

Idle == [left |-> 0, dups |-> 0]

\* dp_graphtrace_init_memory
Init == /\ alive = TRUE /\ enabled = FALSE /\ ring = <<>> /\ free = PoolSize
        /\ worker = Idle /\ served = 0 /\ full = FALSE
        /\ client = "off" /\ interrupt = FALSE /\ primary_alive = FALSE
        /\ held = <<>> /\ clients = 0 /\ since = 0
        /\ requests = <<>>

(***************************************************************************)
(* The worker                                                               *)
(***************************************************************************)
\* A node hands over a burst; the flags choose which nodes do
dp_graphtrace_next_burst ==
    /\ alive /\ enabled /\ worker = Idle
    /\ \E n \in 1..MaxBurst : worker' = [left |-> n, dups |-> 0]
    /\ UNCHANGED <<alive, enabled, ring, free, served, full, dump, requests>>

\* The packet does not match, is copied, or finds the pool empty
CopyPacket ==
    /\ alive /\ worker.left > 0
    /\ \/ worker' = [worker EXCEPT !.left = @ - 1] /\ UNCHANGED free
       \/ /\ free > 0
          /\ worker' = [left |-> worker.left - 1, dups |-> worker.dups + 1]
          /\ free' = free - 1
       \/ free = 0 /\ worker' = [worker EXCEPT !.left = 0] /\ UNCHANGED free
    /\ UNCHANGED <<alive, enabled, ring, served, full, dump, requests>>

dp_graphtrace_send ==
    /\ alive /\ worker.left = 0 /\ worker.dups > 0
    /\ LET room == Capacity - Len(ring)
           sent == IF worker.dups < room THEN worker.dups ELSE room
       IN /\ ring' = ring \o [i \in 1..sent |-> served]
          /\ free' = free + (worker.dups - sent)
          /\ full' = (full \/ sent < worker.dups)
    /\ worker' = Idle
    /\ UNCHANGED <<alive, enabled, served, dump, requests>>

(***************************************************************************)
(* The multi-process thread                                                 *)
(***************************************************************************)
Answered(phase) == /\ client = phase /\ Head(requests).by = clients

\* A filter that does not compile leaves tracing as it was
dp_handle_graphtrace_start ==
    /\ alive /\ requests # <<>> /\ Head(requests).action = "START"
    /\ requests' = Tail(requests)
    /\ \E ok \in BOOLEAN :
          /\ enabled' = (enabled \/ ok)
          /\ served' = IF ok THEN served + 1 ELSE served
          /\ IF Answered("start")
             THEN /\ client' = IF ok THEN "drain" ELSE "off"
                  /\ primary_alive' = ok
                  /\ since' = served'
             ELSE UNCHANGED <<client, primary_alive, since>>
    /\ UNCHANGED <<alive, ring, free, worker, full, interrupt, held, clients>>

dp_handle_graphtrace_stop ==
    /\ alive /\ requests # <<>> /\ Head(requests).action = "STOP"
    /\ requests' = Tail(requests)
    /\ enabled' = FALSE
    /\ client' = IF Answered("stop") THEN "off" ELSE client
    /\ UNCHANGED <<alive, ring, free, worker, served, full>>
    /\ UNCHANGED <<interrupt, primary_alive, held, clients, since>>

\* The service ends, whatever the client does
Exit == /\ alive /\ alive' = FALSE
        /\ UNCHANGED <<enabled, ring, free, worker, served, full, dump, requests>>

(***************************************************************************)
(* The client                                                               *)
(***************************************************************************)
Request(action) == requests' = Append(requests, [action |-> action, by |-> clients'])

\* A new client: dp_graphtrace_connect, then the START request
dp_graphtrace_start ==
    /\ client = "off" /\ alive /\ clients < MaxClients
    /\ clients' = clients + 1
    /\ client' = "start" /\ interrupt' = FALSE /\ primary_alive' = FALSE /\ held' = <<>>
    /\ Request("START")
    /\ UNCHANGED <<service, since>>

\* dpservice-dump --stop
stop_graphtrace ==
    /\ client = "off" /\ alive /\ clients < MaxClients
    /\ clients' = clients + 1
    /\ client' = "stop" /\ interrupt' = FALSE /\ primary_alive' = TRUE /\ held' = <<>>
    /\ Request("STOP")
    /\ UNCHANGED <<service, since>>

\* rte_mp_request_sync gives up; the request may still be served
RequestTimesOut ==
    /\ client \in {"start", "stop"}
    /\ client' = "off"
    /\ UNCHANGED <<service, interrupt, primary_alive, held, clients, since, requests>>

\* Mutant: what an earlier client has left is not thrown away
DrainNot == UNCHANGED <<ring, free>>

Drain == ring' = <<>> /\ free' = free + Len(ring)

\* What the ring already holds goes back to the pool
DrainStale ==
    /\ client = "drain" /\ client' = "dump"
    /\ Drain
    /\ UNCHANGED <<alive, enabled, worker, served, full>>
    /\ UNCHANGED <<interrupt, primary_alive, held, clients, since, requests>>

TakeBurst ==
    /\ client = "dump" /\ ~interrupt /\ held = <<>>
    /\ held' = ring /\ ring' = <<>>
    /\ UNCHANGED <<alive, enabled, free, worker, served, full>>
    /\ UNCHANGED <<client, interrupt, primary_alive, clients, since, requests>>

\* The copies are shown and returned
dump_func ==
    /\ client = "dump" /\ held # <<>>
    /\ free' = free + Len(held) /\ held' = <<>>
    /\ UNCHANGED <<alive, enabled, ring, worker, served, full>>
    /\ UNCHANGED <<client, interrupt, primary_alive, clients, since, requests>>

dp_graphtrace_stop ==
    /\ client = "dump" /\ interrupt /\ held = <<>>
    /\ UNCHANGED clients
    /\ IF primary_alive THEN client' = "stop" /\ Request("STOP")
       ELSE client' = "off" /\ UNCHANGED requests
    /\ UNCHANGED <<service, interrupt, primary_alive, held, since>>

signal_handler ==
    /\ client \in {"start", "drain", "dump", "stop"} /\ interrupt' = TRUE
    /\ UNCHANGED <<service, client, primary_alive, held, clients, since, requests>>

\* Killed; copies it held stay lost
Kill ==
    /\ client # "off" /\ client' = "off"
    /\ UNCHANGED <<service, interrupt, primary_alive, held, clients, since, requests>>

\* Mutant: the client learns that the service ended, and goes on
MonitorKeepsGoing == primary_alive' = FALSE /\ UNCHANGED interrupt

PrimaryGone == primary_alive' = FALSE /\ interrupt' = TRUE

dp_graphtrace_monitor_primary ==
    /\ client \in {"drain", "dump"} /\ ~interrupt /\ ~alive
    /\ PrimaryGone
    /\ UNCHANGED <<service, client, held, clients, since, requests>>

Client == \/ RequestTimesOut \/ DrainStale \/ TakeBurst \/ dump_func
          \/ dp_graphtrace_stop \/ dp_graphtrace_monitor_primary

Next == \/ dp_graphtrace_next_burst \/ CopyPacket \/ dp_graphtrace_send
        \/ dp_handle_graphtrace_start \/ dp_handle_graphtrace_stop \/ Exit
        \/ dp_graphtrace_start \/ stop_graphtrace \/ Client \/ signal_handler \/ Kill

\* The client's own loop, the limit of its waits and its alarm
Fairness == /\ WF_vars(RequestTimesOut) /\ WF_vars(DrainStale) /\ WF_vars(dump_func)
            /\ WF_vars(dp_graphtrace_stop) /\ WF_vars(dp_graphtrace_monitor_primary)

Spec == Init /\ [][Next]_vars /\ Fairness

(***************************************************************************)
(* Properties                                                               *)
(***************************************************************************)
\* The variables hold what their C types allow.
TypeOK == /\ alive \in BOOLEAN /\ enabled \in BOOLEAN /\ full \in BOOLEAN
          /\ interrupt \in BOOLEAN /\ primary_alive \in BOOLEAN
          /\ ring \in Seq(Nat) /\ held \in Seq(Nat)
          /\ free \in 0..PoolSize
          /\ worker \in Bursts
          /\ requests \in Seq(Requests)
          /\ client \in Phases
          /\ clients \in 0..MaxClients
          /\ served \in Nat /\ since \in Nat

\* The ring takes every copy that could be made, whatever clients have left in it
\* or taken to their grave: "Due to the mempool size being smaller than ring size,
\* this should never happen" (_dp_graphtrace_send).
RingNeverFull == ~full

\* A client shows only packets that entered the ring after its own START was
\* served, not what a client before it has left, even when that one was killed or
\* gave up and its requests were served late (dp_graphtrace_dump).
OnlyOwnPackets == client = "dump" => \A i \in 1..Len(held) : held[i] >= since

\* A client ends once the service has ended, whether it is waiting for an answer
\* or reading packets (dp_graphtrace_monitor_primary, rte_mp_request_sync).
ClientEnds == ~alive ~> client = "off"
=============================================================================
