-------------------------------- MODULE Rings --------------------------------
(***************************************************************************)
(* The threads of dpservice and the rings between them: the gRPC thread    *)
(* (dp_async_grpc.cpp, dp_grpc_service.cpp) hands requests to the graph    *)
(* worker and reads its replies, the main thread (dp_timers.c, dp_event.c, *)
(* dp_periodic_msg.c) hands it events and periodic packets, and the worker *)
(* (rx_periodic_node.c, dp_grpc_responder.c) drains the rings between      *)
(* packets.  A reply to a list is a chain of mbufs.                        *)
(*                                                                         *)
(* What a request does to the tables is the business of other modules; it  *)
(* is here an error code and, for a list, a number of items.               *)
(***************************************************************************)
EXTENDS Naturals, Sequences

CONSTANTS
    Calls,          \* calls clients may make, each at most once
    call_type,      \* of each call: one of Types
    QSize,          \* DP_GRPC_Q_SIZE
    EventQSize,     \* DP_INTERNAL_Q_SIZE
    PeriodicQSize,  \* DP_PERIODIC_Q_SIZE
    BurstSize,      \* RTE_GRAPH_BURST_SIZE
    Vfs,            \* how many interface ports there are
    MsgCap,         \* messages that fit one reply
    MaxItems,       \* bound on the length of a list
    Cycles,         \* TIMER_DP_MAINTENANCE_STARTUP_CYCLES
    None

\* Get stands for every other call with one reply, List for every call with a chain
Types == {"Initialize", "CheckInitialized", "Get", "List"}
\* err_code: success, an error of the handler, dp_grpc_add_reply() without memory
Ok == "OK"
OutOfMemory == "OUT_OF_MEMORY"
ErrCodes == {Ok, "ERROR", OutOfMemory}
\* Mutant: an array of replies as long as the ring
RepMaxWhole == QSize
\* DP_GRPC_REPLY_ARR_SIZE
RepMax == (QSize \div 4) * 3
\* rte_ring: a ring of n slots holds n - 1 elements
Capacity(size) == size - 1

ASSUME ConstantsAssumption ==
    /\ call_type \in [Calls -> Types]
    /\ QSize \in Nat /\ QSize >= 4
    /\ EventQSize \in Nat \ {0} /\ PeriodicQSize \in Nat \ {0}
    /\ BurstSize \in Nat \ {0}
    /\ Vfs \in Nat
    /\ MsgCap \in Nat \ {0} /\ MaxItems \in Nat
    /\ Cycles \in Nat \ {0}
    /\ None \notin [err : ErrCodes, items : SUBSET (1 .. MaxItems)]

\* what a request results in, and what a client is told of it
Results == [err : ErrCodes, items : SUBSET (1 .. MaxItems)]
CallStates == {"none", "REQUEST", "AWAIT_MSG", "FINISH", "deleted"}
Statuses == {"none", "OK", "ABORTED", "INVALID_ARGUMENT", "INTERNAL"}
\* struct dpgrpc_reply; call is a history field: whose request it answers
Replies == [call : Calls, items : SUBSET (1 .. MaxItems), is_chained : BOOLEAN, err_code : ErrCodes]

VARIABLES
    call_state,     \* of each call: "none" before the client makes it
    status,         \* of each call: the grpc::Status it finished with
    reply,          \* of each call: reply_, the error code and the items parsed so far
    result,         \* history, of each call: what the worker made of it, or None
    initialized,    \* GRPCService::initialized, and dp_maintenance_interval with it
    tx,             \* grpc_tx_queue: calls whose request is in the ring
    rx,             \* grpc_rx_queue: replies
    events,         \* monitoring_rx_queue: how many flow aging messages
    periodic,       \* periodic_msg_queue: how many packets
    counter,        \* dp_maintenance_startup_timer_cb: counter
    timer_cb,       \* the callback of dp_maintenance_timer
    mbufs,          \* mbufs that were allocated and not freed
    force_quit,
    grpc_thread_started

callVars == <<call_state, status, reply>>
ringVars == <<tx, rx>>
timerVars == <<events, periodic, counter, timer_cb>>
vars == <<call_state, status, reply, result, initialized, tx, rx, events, periodic,
          counter, timer_cb, mbufs, force_quit, grpc_thread_started>>

Init ==
    /\ call_state = [c \in Calls |-> "none"]
    /\ status = [c \in Calls |-> "none"]
    /\ reply = [c \in Calls |-> [err |-> Ok, items |-> {}]]
    /\ result = [c \in Calls |-> None]
    /\ initialized = FALSE
    /\ tx = <<>> /\ rx = <<>>
    /\ events = 0 /\ periodic = 0
    /\ counter = 0 /\ timer_cb = "startup"
    /\ mbufs = 0
    /\ force_quit = FALSE
    /\ grpc_thread_started = TRUE

-----------------------------------------------------------------------------
\* The gRPC thread

\* a client makes a call; the library puts it on the completion queue
Issue(c) ==
    /\ call_state[c] = "none"
    /\ call_state' = [call_state EXCEPT ![c] = "REQUEST"]
    /\ UNCHANGED <<status, reply, result, initialized, ringVars, timerVars, mbufs,
                   force_quit, grpc_thread_started>>

\* Mutant: HandleRpcs() does not wait for the worker
WaitingNot == FALSE

\* HandleRpcs() takes the next call only when it has left the wait for the previous one
Waiting == \E c \in Calls : call_state[c] = "AWAIT_MSG"

NeedsInit(c) == call_type[c] # "Initialize" /\ ~initialized

\* FillRequest() of these two checks nothing
MayBeInvalid(c) == call_type[c] \in {"Get", "List"}

Finish(c, s) ==
    /\ call_state' = [call_state EXCEPT ![c] = "FINISH"]
    /\ status' = [status EXCEPT ![c] = s]

\* HandleRpc in state REQUEST ends without the worker
Refuse(c, s) ==
    /\ Finish(c, s)
    /\ UNCHANGED <<reply, tx, mbufs>>

\* WriteRequest: the allocation fails, the ring is full, or the request is queued
WriteRequest(c) ==
    \/ Refuse(c, "INTERNAL")
    \/ /\ Len(tx) < Capacity(QSize)
       /\ tx' = Append(tx, c)
       /\ mbufs' = mbufs + 1
       /\ call_state' = [call_state EXCEPT ![c] = "AWAIT_MSG"]
       /\ UNCHANGED <<status, reply>>

\* NoIpcCall::WriteRequest
NoWriteRequest(c) ==
    /\ call_state' = [call_state EXCEPT ![c] = "AWAIT_MSG"]
    /\ UNCHANGED <<status, reply, tx, mbufs>>

\* BaseCall::HandleRpc, case REQUEST
HandleRequest(c) ==
    /\ grpc_thread_started /\ ~Waiting
    /\ call_state[c] = "REQUEST"
    /\ \/ NeedsInit(c) /\ Refuse(c, "ABORTED")
       \/ ~NeedsInit(c) /\ MayBeInvalid(c) /\ Refuse(c, "INVALID_ARGUMENT")
       \/ ~NeedsInit(c) /\ call_type[c] = "CheckInitialized" /\ NoWriteRequest(c)
       \/ ~NeedsInit(c) /\ call_type[c] # "CheckInitialized" /\ WriteRequest(c)
    /\ UNCHANGED <<result, initialized, rx, timerVars, force_quit, grpc_thread_started>>

\* SetStatus() and, on success, ParseReply(), which collects the items
Parse(c, r) ==
    reply' = [reply EXCEPT ![c] = [err |-> r.err_code,
                                   items |-> IF r.err_code = Ok THEN @.items \cup r.items
                                                                ELSE @.items]]

\* the types differ, or SingleReplyCall got a chain or messages
BadReply(c, r) ==
    \/ call_type[r.call] # call_type[c]
    \/ call_type[c] # "List" /\ (r.is_chained \/ r.items # {})

\* HandleRpc, case AWAIT_MSG, and HandleReply() of SingleReplyCall and MultiReplyCall: one
\* reply of the chain per step.  On an empty ring it returns DP_GRPC_REPLY_NOT_READY and is
\* called again.  The reply to Initialize() sets the init status and signals the timers.
HandleReply(c) ==
    /\ grpc_thread_started
    /\ call_state[c] = "AWAIT_MSG"
    /\ call_type[c] # "CheckInitialized"
    /\ rx # <<>>
    /\ LET r == Head(rx) IN
          IF BadReply(c, r)
          THEN /\ Finish(c, "INTERNAL")
               /\ UNCHANGED <<reply, initialized>>
          ELSE /\ Parse(c, r)
               /\ initialized' = (initialized \/ (call_type[c] = "Initialize" /\ r.err_code = Ok))
               /\ IF r.is_chained THEN UNCHANGED <<call_state, status>> ELSE Finish(c, "OK")
    /\ rx' = Tail(rx)
    /\ mbufs' = mbufs - 1
    /\ UNCHANGED <<result, tx, timerVars, force_quit, grpc_thread_started>>

\* NoIpcCall::HandleReply
HandleNoIpc(c) ==
    /\ grpc_thread_started
    /\ call_state[c] = "AWAIT_MSG"
    /\ call_type[c] = "CheckInitialized"
    /\ Finish(c, "OK")
    /\ reply' = [reply EXCEPT ![c] = [err |-> Ok, items |-> @.items]]
    /\ UNCHANGED <<result, initialized, ringVars, timerVars, mbufs, force_quit,
                   grpc_thread_started>>

\* HandleRpc, case FINISH
DeleteCall(c) ==
    /\ grpc_thread_started /\ ~Waiting
    /\ call_state[c] = "FINISH"
    /\ call_state' = [call_state EXCEPT ![c] = "deleted"]
    /\ UNCHANGED <<status, reply, result, initialized, ringVars, timerVars, mbufs,
                   force_quit, grpc_thread_started>>

GrpcThread ==
    \E c \in Calls : HandleRequest(c) \/ HandleReply(c) \/ HandleNoIpc(c) \/ DeleteCall(c)

-----------------------------------------------------------------------------
\* The worker

Min2(a, b) == IF a < b THEN a ELSE b

\* the reply that holds item j of a list, counted from 0
Slot(j) == (j - 1) \div MsgCap

\* dp_grpc_init_responder and dp_grpc_add_reply: k replies that hold the first items of n;
\* only the first one has the error code
Chain(c, k, n, err) ==
    [i \in 1 .. k |->
        [call |-> c,
         items |-> {j \in 1 .. n : Slot(j) = i - 1},
         is_chained |-> i < k,
         err_code |-> IF i = 1 THEN err ELSE Ok]]

\* rte_ring_sp_enqueue_burst: as many as fit
EnqueueBurst(q, msgs) == q \o SubSeq(msgs, 1, Min2(Len(msgs), Capacity(QSize) - Len(q)))

\* Mutant: the request's mbuf is not used for the first reply
SendResponseLeak(replies) ==
    /\ rx' = EnqueueBurst(rx, replies)
    /\ mbufs' = mbufs + Len(rx') - Len(rx)

\* dp_grpc_send_response: the replies that do not fit are freed; the first one is the
\* request's own mbuf
dp_grpc_send_response(replies) ==
    /\ rx' = EnqueueBurst(rx, replies)
    /\ mbufs' = mbufs + Len(rx') - Len(rx) - 1

\* a list of n items ends up in k replies: all of them, or as many as the array of replies
\* and the memory allow
Fits(k, n) == \A j \in 1 .. n : Slot(j) < k
AllocatedReplies(n) == {k \in 1 .. RepMax : k = 1 \/ \E j \in 1 .. n : Slot(j) = k - 1}

\* dp_process_request of a list: an error before the first item, or the items
ProcessList(c) ==
    \/ /\ dp_grpc_send_response(Chain(c, 1, 0, "ERROR"))
       /\ result' = [result EXCEPT ![c] = [err |-> "ERROR", items |-> {}]]
    \/ \E n \in 0 .. MaxItems : \E k \in AllocatedReplies(n) :
          LET err == IF Fits(k, n) THEN Ok ELSE OutOfMemory IN
             /\ dp_grpc_send_response(Chain(c, k, n, err))
             /\ result' = [result EXCEPT ![c] =
                              [err |-> err, items |-> {j \in 1 .. n : Slot(j) < k}]]

\* dp_process_request of anything else
ProcessSingle(c) ==
    \E err \in {Ok, "ERROR"} :
        /\ dp_grpc_send_response(Chain(c, 1, 0, err))
        /\ result' = [result EXCEPT ![c] = [err |-> err, items |-> {}]]

\* handle_nongraph_queues: a request from grpc_tx_queue
ProcessRequest ==
    /\ ~force_quit
    /\ tx # <<>>
    /\ tx' = Tail(tx)
    /\ IF call_type[Head(tx)] = "List" THEN ProcessList(Head(tx)) ELSE ProcessSingle(Head(tx))
    /\ UNCHANGED <<callVars, initialized, timerVars, force_quit, grpc_thread_started>>

\* handle_nongraph_queues: everything in monitoring_rx_queue
ProcessEvents ==
    /\ ~force_quit
    /\ events > 0
    /\ events' = 0
    /\ mbufs' = mbufs - events
    /\ UNCHANGED <<callVars, result, initialized, ringVars, periodic, counter, timer_cb,
                   force_quit, grpc_thread_started>>

\* rx_periodic_node_process: a burst of periodic packets goes to the transmitting nodes
SendPeriodic ==
    /\ ~force_quit
    /\ periodic > 0
    /\ periodic' = periodic - Min2(periodic, BurstSize)
    /\ mbufs' = mbufs - Min2(periodic, BurstSize)
    /\ UNCHANGED <<callVars, result, initialized, ringVars, events, counter, timer_cb,
                   force_quit, grpc_thread_started>>

Worker == ProcessRequest \/ ProcessEvents \/ SendPeriodic

-----------------------------------------------------------------------------
\* The main thread

\* dp_flow_aging_timer_cb, dp_send_event_msg: no mbuf, or no room in the ring, and there is
\* no message
dp_flow_aging_timer_cb ==
    /\ ~force_quit
    /\ \/ events < Capacity(EventQSize) /\ events' = events + 1 /\ mbufs' = mbufs + 1
       \/ UNCHANGED <<events, mbufs>>
    /\ UNCHANGED <<callVars, result, initialized, ringVars, periodic, counter, timer_cb,
                   force_quit, grpc_thread_started>>

\* send_to_all_vfs for each of the three packets: a copy for each allocated interface port
\* that has an address, as far as memory and the ring allow; the original is freed
send_to_all_vfs ==
    \E n \in 0 .. 3 * Vfs :
        /\ periodic + n <= Capacity(PeriodicQSize)
        /\ periodic' = periodic + n
        /\ mbufs' = mbufs + n

\* Mutant: the counter stops before it has the value it is compared with
StartupTooLate ==
    /\ ~force_quit
    /\ timer_cb = "startup"
    /\ send_to_all_vfs
    /\ counter' = IF initialized /\ counter <= Cycles THEN counter + 1 ELSE counter
    /\ timer_cb' = IF counter' # counter /\ counter' = Cycles + 2 THEN "maintenance" ELSE timer_cb
    /\ UNCHANGED <<callVars, result, initialized, ringVars, events, force_quit,
                   grpc_thread_started>>

\* dp_maintenance_startup_timer_cb: backs off once the service is initialized
dp_maintenance_startup_timer_cb ==
    /\ ~force_quit
    /\ timer_cb = "startup"
    /\ send_to_all_vfs
    /\ counter' = IF initialized /\ counter <= Cycles THEN counter + 1 ELSE counter
    /\ timer_cb' = IF counter' # counter /\ counter' = Cycles THEN "maintenance" ELSE timer_cb
    /\ UNCHANGED <<callVars, result, initialized, ringVars, events, force_quit,
                   grpc_thread_started>>

dp_maintenance_timer_cb ==
    /\ ~force_quit
    /\ timer_cb = "maintenance"
    /\ send_to_all_vfs
    /\ UNCHANGED <<callVars, result, initialized, ringVars, events, counter, timer_cb,
                   force_quit, grpc_thread_started>>

MaintenanceTimer == dp_maintenance_startup_timer_cb \/ dp_maintenance_timer_cb

\* signal_handler, or a failure of the timers
dp_force_quit ==
    /\ ~force_quit
    /\ force_quit' = TRUE
    /\ UNCHANGED <<callVars, result, initialized, ringVars, timerVars, mbufs,
                   grpc_thread_started>>

\* the main loop has ended: the gRPC thread is cancelled, whatever it waits for
dp_grpc_thread_cancel ==
    /\ force_quit /\ grpc_thread_started
    /\ grpc_thread_started' = FALSE
    /\ UNCHANGED <<callVars, result, initialized, ringVars, timerVars, mbufs, force_quit>>

-----------------------------------------------------------------------------
Next ==
    \/ \E c \in Calls : Issue(c)
    \/ GrpcThread
    \/ Worker
    \/ dp_flow_aging_timer_cb
    \/ MaintenanceTimer
    \/ dp_force_quit
    \/ dp_grpc_thread_cancel

\* Each thread runs on: the gRPC thread is a loop that never sleeps while a call waits, every
\* walk of the graph drains all three rings, and the timer expires again and again.
Fairness ==
    /\ WF_vars(GrpcThread)
    /\ WF_vars(ProcessRequest) /\ WF_vars(ProcessEvents) /\ WF_vars(SendPeriodic)
    /\ WF_vars(MaintenanceTimer)

Spec == Init /\ [][Next]_vars /\ Fairness

-----------------------------------------------------------------------------
\* Every variable has its type, and the rings keep to their sizes.
TypeOK ==
    /\ call_state \in [Calls -> CallStates]
    /\ status \in [Calls -> Statuses]
    /\ reply \in [Calls -> Results]
    /\ result \in [Calls -> Results \cup {None}]
    /\ initialized \in BOOLEAN
    /\ tx \in Seq(Calls) /\ Len(tx) <= Capacity(QSize)
    /\ rx \in Seq(Replies) /\ Len(rx) <= Capacity(QSize)
    /\ events \in 0 .. Capacity(EventQSize)
    /\ periodic \in 0 .. Capacity(PeriodicQSize)
    /\ counter \in 0 .. Cycles
    /\ timer_cb \in {"startup", "maintenance"}
    /\ mbufs \in Nat
    /\ force_quit \in BOOLEAN /\ grpc_thread_started \in BOOLEAN

\* A reply is only ever read by the call that asked for it: the two gRPC rings hold messages
\* of the call the gRPC thread waits for and of no other, the request and the replies are
\* never in the rings together, and the chain of replies in the ring is whole to its end
\* (HandleRpcs, HandleReply, dp_grpc_send_response: the array of replies fits the ring).
RepliesMatch ==
    /\ \A i \in 1 .. Len(tx) : call_state[tx[i]] = "AWAIT_MSG"
    /\ \A i \in 1 .. Len(rx) : call_state[rx[i].call] = "AWAIT_MSG"
    /\ Len(tx) <= 1 /\ (tx # <<>> => rx = <<>>)
    /\ \A i, j \in 1 .. Len(rx) : rx[i].call = rx[j].call
    /\ \A i \in 1 .. Len(rx) : rx[i].is_chained = (i < Len(rx))

\* Every mbuf that was allocated for a message is in one of the rings, on every path of
\* senders and receivers: none leaks and none is freed twice.
NoMbufLeak == mbufs = Len(tx) + Len(rx) + events + periodic

\* The call's state as a client and the tables see it
Phase(c) ==
    IF status[c] = "OK" THEN "answered"
    ELSE IF status[c] # "none" THEN "refused"
    ELSE IF result[c] # None THEN "executed"
    ELSE IF call_state[c] = "none" THEN "idle" ELSE "issued"

\* CheckInitialized is answered by the gRPC thread alone and is not part of it
RpcCalls == {c \in Calls : call_type[c] # "CheckInitialized"}

RpcPhase == [c \in RpcCalls |-> Phase(c)]
RpcResult == [c \in RpcCalls |-> result[c]]
RpcAnswer == [c \in RpcCalls |-> IF status[c] = "OK" THEN reply[c] ELSE None]

Rpc == INSTANCE RpcService WITH
    Calls <- RpcCalls, CutShort <- OutOfMemory,
    phase <- RpcPhase, result <- RpcResult, answer <- RpcAnswer

\* The gRPC service implements RpcService: a call that reaches the worker is executed at most
\* once, never after it was refused or answered, and its answer is what the execution
\* resulted in, whatever other calls are made meanwhile (HandleRpc, HandleReply,
\* dp_process_request).
CallsLinearized == Rpc!Spec

\* Every call a client makes is answered, however long its list and whatever fails on the way,
\* unless the service is being stopped (HandleRpcs waits for the worker without a timeout).
EveryCallAnswered ==
    \A c \in Calls : (call_state[c] = "REQUEST") ~> (status[c] # "none" \/ force_quit)

\* Once Initialize() has succeeded, the maintenance timer slows down to its normal interval
\* (dp_maintenance_startup_timer_cb reads what the gRPC thread wrote).
TimerBacksOff == initialized ~> (timer_cb = "maintenance" \/ force_quit)
=============================================================================
