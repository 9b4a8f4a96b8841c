---------------------------- MODULE RingsProofs ----------------------------
(***************************************************************************)
(* Proofs about Rings, for any set of calls, any sizes of rings and        *)
(* replies and lists of any length: every mbuf is accounted for, a reply   *)
(* is only read by the call that asked for it, and the gRPC service        *)
(* implements RpcService.                                                  *)
(***************************************************************************)
EXTENDS Rings, SequenceTheorems, TLAPS

\* The call waits for the worker.
Awaits(c) == call_state[c] = "AWAIT_MSG"

\* The state of each call is of its type.
CallInv ==
    /\ call_state \in [Calls -> CallStates]
    /\ status \in [Calls -> Statuses]
    /\ reply \in [Calls -> Results]
    /\ result \in [Calls -> Results \cup {None}]

\* One call at a time waits; a call has a status once it is finished; the worker has
\* executed only calls that wait or are finished, and nothing was parsed for the others.
PhaseInv ==
    /\ \A c, d \in Calls : Awaits(c) /\ Awaits(d) => c = d
    /\ \A c \in Calls : status[c] = "none" <=> call_state[c] \in {"none", "REQUEST", "AWAIT_MSG"}
    /\ \A c \in Calls : result[c] # None => call_state[c] \in {"AWAIT_MSG", "FINISH", "deleted"}
    /\ \A c \in Calls : result[c] = None => reply[c] = [err |-> Ok, items |-> {}]

\* The requests in the ring: at most one, of a call that waits and was not executed.
TxInv ==
    /\ tx \in Seq(Calls) /\ Len(tx) <= 1
    /\ tx # <<>> => /\ rx = <<>> /\ Awaits(tx[1]) /\ result[tx[1]] = None
                    /\ call_type[tx[1]] # "CheckInitialized"

\* A reply in the ring: its call waits and was executed.
ReplyOK(i) ==
    /\ Awaits(rx[i].call) /\ result[rx[i].call] # None
    /\ call_type[rx[i].call] # "CheckInitialized"
    /\ rx[i].is_chained = (i < Len(rx))
    /\ call_type[rx[i].call] # "List" => ~rx[i].is_chained /\ rx[i].items = {}

\* What the call has parsed and what is still in the ring make up the result.
ChainOK(c) ==
    /\ result[c].err = Ok =>
         /\ reply[c].err = Ok
         /\ \A i \in 1..Len(rx) : rx[i].err_code = Ok
         /\ reply[c].items \cup UNION {rx[i].items : i \in 1..Len(rx)} = result[c].items
    /\ result[c].err = "ERROR" =>
         /\ Len(rx) = 1 /\ rx[1].err_code = "ERROR" /\ reply[c].items = {}

RxInv ==
    /\ rx \in Seq(Replies)
    /\ \A i \in 1..Len(rx) : ReplyOK(i) /\ ChainOK(rx[i].call)

\* The inductive invariant.
RingsInv == CallInv /\ PhaseInv /\ TxInv /\ RxInv

\* The inductive invariant of the mbufs; it needs only that the rings are sequences.
MbufInv ==
    /\ tx \in Seq(Calls) /\ rx \in Seq(Replies)
    /\ events \in Nat /\ periodic \in Nat
    /\ NoMbufLeak

-----------------------------------------------------------------------------
\* Replies.

\* The array of replies fits the ring.
LEMMA RepliesFit == RepMax \in Nat /\ RepMax <= Capacity(QSize) /\ 1 <= RepMax
  BY ConstantsAssumption DEF RepMax, Capacity

\* An item has a slot.
LEMMA SlotType == \A j \in Nat \ {0} : Slot(j) \in Nat
<1> TAKE j \in Nat \ {0}
<1>1. MsgCap \in Nat /\ MsgCap > 0 /\ j - 1 \in Nat
  BY ConstantsAssumption
<1> QED
  BY <1>1 DEF Slot

\* A chain is a sequence of replies.
LEMMA ChainType ==
    ASSUME NEW c \in Calls, NEW k \in Nat, NEW n \in 0..MaxItems, NEW err \in ErrCodes
    PROVE  /\ Chain(c, k, n, err) \in Seq(Replies)
           /\ Len(Chain(c, k, n, err)) = k
           /\ \A i \in 1..k : Chain(c, k, n, err)[i] =
                 [call |-> c, items |-> {j \in 1..n : Slot(j) = i - 1},
                  is_chained |-> i < k, err_code |-> IF i = 1 THEN err ELSE Ok]
<1>1. \A i \in 1..k : [call |-> c, items |-> {j \in 1..n : Slot(j) = i - 1},
                       is_chained |-> i < k, err_code |-> IF i = 1 THEN err ELSE Ok] \in Replies
  BY ConstantsAssumption DEF Replies, ErrCodes, Ok
<1> QED
  BY <1>1 DEF Chain

\* What rte_ring_sp_enqueue_burst appends are replies.
LEMMA BurstType ==
    ASSUME NEW q \in Seq(Replies), NEW msgs \in Seq(Replies)
    PROVE  EnqueueBurst(q, msgs) \in Seq(Replies)
<1> DEFINE m == Min2(Len(msgs), Capacity(QSize) - Len(q))
<1>1. m \in Int /\ m <= Len(msgs)
  BY ConstantsAssumption DEF Min2, Capacity
<1> HIDE DEF m
<1>2. SubSeq(msgs, 1, m) \in Seq(Replies)
  BY <1>1
<1> QED
  BY <1>2 DEF EnqueueBurst, m

\* A chain that is no longer than the array goes into an empty ring whole.
LEMMA WholeChain ==
    ASSUME NEW msgs \in Seq(Replies), Len(msgs) <= RepMax
    PROVE  EnqueueBurst(<<>>, msgs) = msgs
<1>1. Min2(Len(msgs), Capacity(QSize) - Len(<<>>)) = Len(msgs)
  BY RepliesFit, ConstantsAssumption DEF Min2, Capacity
<1>2. SubSeq(msgs, 1, Len(msgs)) = msgs
  OBVIOUS
<1> QED
  BY <1>1, <1>2 DEF EnqueueBurst

-----------------------------------------------------------------------------
\* The worker's response.

\* The outcomes of dp_process_request: a chain of k replies, and the result.
Response(c, k, n, err) ==
    /\ dp_grpc_send_response(Chain(c, k, n, err))
    /\ result' = [result EXCEPT ![c] = [err |-> err, items |-> {j \in 1..n : Slot(j) < k}]]

\* Every request is answered with a chain that fits the array: all items, a chain that
\* was cut short, or one reply with an error.
LEMMA EveryResponse ==
    ASSUME ProcessRequest, tx \in Seq(Calls)
    PROVE  \E k \in 1..RepMax, n \in 0..MaxItems, err \in ErrCodes :
              /\ Response(Head(tx), k, n, err)
              /\ call_type[Head(tx)] # "List" => k = 1 /\ n = 0
              /\ err = "ERROR" => k = 1 /\ n = 0
<1> DEFINE c == Head(tx)
<1>0. 1 \in 1..RepMax /\ 0 \in 0..MaxItems
  BY RepliesFit, ConstantsAssumption
<1>1. \A k : {j \in 1..0 : Slot(j) < k} = {}
  OBVIOUS
<1>3. CASE call_type[c] = "List"
  <2>1. ProcessList(c)
    BY <1>3, Zenon DEF ProcessRequest
  <2>2. CASE /\ dp_grpc_send_response(Chain(c, 1, 0, "ERROR"))
             /\ result' = [result EXCEPT ![c] = [err |-> "ERROR", items |-> {}]]
    <3>1. Response(c, 1, 0, "ERROR") /\ "ERROR" \in ErrCodes
      BY <1>1, <2>2, Zenon DEF Response, ErrCodes
    <3> QED
      BY <1>0, <3>1, Zenon
  <2>3. CASE ~(/\ dp_grpc_send_response(Chain(c, 1, 0, "ERROR"))
               /\ result' = [result EXCEPT ![c] = [err |-> "ERROR", items |-> {}]])
    <3>0. PICK n \in 0..MaxItems : \E k \in AllocatedReplies(n) :
             LET err == IF Fits(k, n) THEN Ok ELSE OutOfMemory IN
             /\ dp_grpc_send_response(Chain(c, k, n, err))
             /\ result' = [result EXCEPT ![c] =
                              [err |-> err, items |-> {j \in 1 .. n : Slot(j) < k}]]
      BY <2>1, <2>3, Zenon DEF ProcessList
    <3>1. PICK k \in AllocatedReplies(n) :
             LET err == IF Fits(k, n) THEN Ok ELSE OutOfMemory IN
             /\ dp_grpc_send_response(Chain(c, k, n, err))
             /\ result' = [result EXCEPT ![c] =
                              [err |-> err, items |-> {j \in 1 .. n : Slot(j) < k}]]
      BY <3>0, Zenon
    <3> DEFINE err == IF Fits(k, n) THEN Ok ELSE OutOfMemory
    <3>2. k \in 1..RepMax /\ err \in ErrCodes /\ err # "ERROR"
      BY Zenon DEF AllocatedReplies, ErrCodes, Ok, OutOfMemory
    <3>3. Response(c, k, n, err)
      BY <3>1, Zenon DEF Response
    <3> HIDE DEF err
    <3> QED
      BY <1>3, <3>2, <3>3, Zenon
  <2> QED
    BY <2>2, <2>3, Zenon
<1>4. CASE call_type[c] # "List"
  <2>1. PICK err \in {Ok, "ERROR"} :
           /\ dp_grpc_send_response(Chain(c, 1, 0, err))
           /\ result' = [result EXCEPT ![c] = [err |-> err, items |-> {}]]
    BY <1>4, Zenon DEF ProcessRequest, ProcessSingle
  <2>2. Response(c, 1, 0, err) /\ err \in ErrCodes
    BY <1>1, <2>1, Zenon DEF Response, ErrCodes
  <2> QED
    BY <1>0, <1>4, <2>2, Zenon
<1> QED
  BY <1>3, <1>4, Zenon

-----------------------------------------------------------------------------
\* Mbufs.

\* Every step accounts for the mbufs it allocates and frees.
LEMMA MbufStep ==
    ASSUME MbufInv, [Next]_vars
    PROVE  MbufInv'
<1> tx \in Seq(Calls) /\ rx \in Seq(Replies) /\ events \in Nat /\ periodic \in Nat
  BY Zenon DEF MbufInv
<1>0. mbufs = Len(tx) + Len(rx) + events + periodic
  BY Zenon DEF MbufInv, NoMbufLeak
<1>1. CASE UNCHANGED <<tx, rx, events, periodic, mbufs>>
  BY <1>1, Zenon DEF MbufInv, NoMbufLeak
<1>2. ASSUME NEW c \in Calls, HandleRequest(c) PROVE MbufInv'
  <2>1. UNCHANGED <<rx, events, periodic>>
    BY <1>2, Zenon DEF HandleRequest, timerVars
  <2>2. UNCHANGED <<tx, mbufs>> \/ (tx' = Append(tx, c) /\ mbufs' = mbufs + 1)
    BY <1>2, Zenon DEF HandleRequest, Refuse, WriteRequest, NoWriteRequest
  <2>3. CASE UNCHANGED <<tx, mbufs>>
    BY <1>1, <2>1, <2>3, Zenon
  <2>4. CASE tx' = Append(tx, c) /\ mbufs' = mbufs + 1
    BY <1>0, <2>1, <2>4 DEF MbufInv, NoMbufLeak
  <2> QED
    BY <2>2, <2>3, <2>4, Zenon
<1>3. ASSUME NEW c \in Calls, HandleReply(c) PROVE MbufInv'
  <2>1. UNCHANGED <<tx, events, periodic>> /\ rx # <<>> /\ rx' = Tail(rx) /\ mbufs' = mbufs - 1
    BY <1>3, Zenon DEF HandleReply, timerVars
  <2>2. rx' \in Seq(Replies) /\ Len(rx') = Len(rx) - 1
    BY <2>1
  <2> QED
    BY <1>0, <2>1, <2>2 DEF MbufInv, NoMbufLeak
<1>4. CASE ProcessRequest
  <2>1. PICK k \in 1..RepMax, n \in 0..MaxItems, err \in ErrCodes : Response(Head(tx), k, n, err)
    BY <1>4, EveryResponse, Zenon
  <2>2. tx # <<>> /\ tx' = Tail(tx) /\ UNCHANGED <<events, periodic>>
    BY <1>4, Zenon DEF ProcessRequest, timerVars
  <2>3. tx' \in Seq(Calls) /\ Len(tx') = Len(tx) - 1 /\ Head(tx) \in Calls
    BY <2>2
  <2>4. Chain(Head(tx), k, n, err) \in Seq(Replies)
    BY <2>3, ChainType, RepliesFit
  <2>5. /\ rx' = EnqueueBurst(rx, Chain(Head(tx), k, n, err))
        /\ mbufs' = mbufs + Len(rx') - Len(rx) - 1
    BY <2>1, Zenon DEF Response, dp_grpc_send_response
  <2>6. rx' \in Seq(Replies)
    BY <2>4, <2>5, BurstType, Zenon
  <2>7. Len(rx') \in Nat /\ Len(rx) \in Nat /\ Len(tx) \in Nat
    BY <2>6
  <2>8. mbufs' = Len(tx') + Len(rx') + events' + periodic'
    <3> DEFINE a == Len(rx')
               b == Len(rx)
               t == Len(tx)
    <3>1. a \in Nat /\ b \in Nat /\ t \in Nat
      BY <2>7, Zenon
    <3>2. /\ mbufs = t + b + events + periodic /\ mbufs' = mbufs + a - b - 1
          /\ Len(tx') = t - 1 /\ events' = events /\ periodic' = periodic
      BY <1>0, <2>2, <2>3, <2>5, Zenon
    <3> HIDE DEF a, b, t
    <3>3. mbufs' = (t - 1) + a + events' + periodic'
      BY <3>1, <3>2
    <3> QED
      BY <3>2, <3>3, Zenon DEF a
  <2> QED
    BY <2>2, <2>3, <2>6, <2>8, Zenon DEF MbufInv, NoMbufLeak
<1>5. CASE ProcessEvents
  BY <1>0, <1>5 DEF ProcessEvents, ringVars, MbufInv, NoMbufLeak
<1>6. CASE SendPeriodic
  <2>1. Min2(periodic, BurstSize) \in 0..periodic
    BY ConstantsAssumption DEF Min2
  <2> DEFINE m == Min2(periodic, BurstSize)
             a == Len(tx) + Len(rx)
  <2>2. /\ periodic' = periodic - m /\ mbufs' = mbufs - m
        /\ tx' = tx /\ rx' = rx /\ events' = events
    BY <1>6, Zenon DEF SendPeriodic, ringVars
  <2>3. a \in Nat
    BY <1>0
  <2>4. mbufs = a + events + periodic
    BY <1>0, Zenon
  <2> HIDE DEF m, a
  <2>5. m \in 0..periodic
    BY <2>1, Zenon DEF m
  <2>6. periodic' \in Nat /\ mbufs' = a + events' + periodic'
    BY <1>0, <2>2, <2>3, <2>4, <2>5
  <2> QED
    BY <1>0, <2>2, <2>6, Zenon DEF MbufInv, NoMbufLeak, a
<1>7. CASE dp_flow_aging_timer_cb
  BY <1>0, <1>7 DEF dp_flow_aging_timer_cb, ringVars, MbufInv, NoMbufLeak
<1>8. CASE MaintenanceTimer
  <2>1. UNCHANGED <<tx, rx, events>> /\ send_to_all_vfs
    BY <1>8, Zenon DEF MaintenanceTimer, dp_maintenance_startup_timer_cb, dp_maintenance_timer_cb,
                ringVars
  <2>2. PICK m \in 0..3 * Vfs : periodic' = periodic + m /\ mbufs' = mbufs + m
    BY <2>1, Zenon DEF send_to_all_vfs
  <2>3. m \in Nat
    BY ConstantsAssumption
  <2> QED
    BY <1>0, <2>1, <2>2, <2>3 DEF MbufInv, NoMbufLeak
<1>9. ASSUME NEW c \in Calls, Issue(c) \/ HandleNoIpc(c) \/ DeleteCall(c) PROVE MbufInv'
  BY <1>1, <1>9, Zenon DEF Issue, HandleNoIpc, DeleteCall, ringVars, timerVars
<1>10. CASE dp_force_quit \/ dp_grpc_thread_cancel
  BY <1>1, <1>10, Zenon DEF dp_force_quit, dp_grpc_thread_cancel, ringVars, timerVars
<1>11. CASE UNCHANGED vars
  BY <1>1, <1>11, Zenon DEF vars
<1> QED
  BY <1>2, <1>3, <1>4, <1>5, <1>6, <1>7, <1>8, <1>9, <1>10, <1>11, Zenon DEF Next, GrpcThread, Worker

\* Every mbuf allocated for a message is in one of the rings (dp_grpc_responder.c,
\* dp_async_grpc.cpp, dp_event.c, dp_periodic_msg.c, rx_periodic_node.c).
THEOREM MbufsAccounted == Spec => []NoMbufLeak
<1>1. Init => MbufInv
  BY DEF Init, MbufInv, NoMbufLeak
<1>2. MbufInv /\ [Next]_vars => MbufInv'
  BY MbufStep, Zenon
<1>3. MbufInv => NoMbufLeak
  BY Zenon DEF MbufInv
<1> QED
  BY <1>1, <1>2, <1>3, PTL DEF Spec

-----------------------------------------------------------------------------
\* Calls.

\* While no call waits, or the one that does is answered without the worker, both gRPC
\* rings are empty.
LEMMA RingsEmpty ==
    ASSUME RingsInv, ~Waiting \/ \E c \in Calls : Awaits(c) /\ call_type[c] = "CheckInitialized"
    PROVE  tx = <<>> /\ rx = <<>>
<1>1. ASSUME tx # <<>> PROVE FALSE
  <2>1. tx[1] \in Calls /\ Awaits(tx[1]) /\ call_type[tx[1]] # "CheckInitialized"
    BY <1>1 DEF RingsInv, TxInv
  <2> QED
    BY <2>1, Zenon DEF RingsInv, PhaseInv, Waiting, Awaits
<1>2. ASSUME rx # <<>> PROVE FALSE
  <2>1. rx \in Seq(Replies) /\ 1 \in 1..Len(rx) /\ rx[1] \in Replies
    BY <1>2 DEF RingsInv, RxInv
  <2>2. ReplyOK(1)
    BY <2>1, Zenon DEF RingsInv, RxInv
  <2>3. rx[1].call \in Calls
    BY <2>1, Zenon DEF Replies
  <2> QED
    BY <2>2, <2>3, Zenon DEF ReplyOK, RingsInv, PhaseInv, Waiting, Awaits
<1> QED
  BY <1>1, <1>2, Zenon

\* A step that leaves the rings and the call that waits alone.
LEMMA RingsKept ==
    ASSUME RingsInv, CallInv', PhaseInv', UNCHANGED <<tx, rx, reply, result>>,
           \A c \in Calls : Awaits(c)' <=> Awaits(c)
    PROVE  RingsInv'
<1>1. TxInv'
  <2>1. tx # <<>> => tx[1] \in Calls
    BY DEF RingsInv, TxInv
  <2> QED
    BY <2>1, Zenon DEF RingsInv, TxInv
<1>2. RxInv'
  <2>1. ASSUME NEW i \in 1..Len(rx) PROVE ReplyOK(i)' /\ ChainOK(rx[i].call)'
    <3>1. rx[i] \in Replies /\ ReplyOK(i) /\ ChainOK(rx[i].call)
      BY DEF RingsInv, RxInv
    <3>2. rx[i].call \in Calls
      BY <3>1, Zenon DEF Replies
    <3>3. ReplyOK(i)'
      BY <3>1, <3>2, Zenon DEF ReplyOK
    <3>4. ChainOK(rx[i].call)'
      BY <3>1 DEF ChainOK
    <3> QED
      BY <3>3, <3>4, Zenon
  <2> QED
    BY <2>1, Zenon DEF RingsInv, RxInv
<1> QED
  BY <1>1, <1>2, Zenon DEF RingsInv

\* A client's new call, or the end of an old one, does not concern the rings.
LEMMA OtherCall ==
    ASSUME RingsInv, NEW c \in Calls, Issue(c) \/ DeleteCall(c)
    PROVE  RingsInv'
<1>1. PICK s \in CallStates : /\ call_state' = [call_state EXCEPT ![c] = s]
                              /\ \/ call_state[c] = "none" /\ s = "REQUEST"
                                 \/ call_state[c] = "FINISH" /\ s = "deleted"
  BY Zenon DEF Issue, DeleteCall, CallStates
<1>2. UNCHANGED <<status, reply, result, tx, rx>>
  BY Zenon DEF Issue, DeleteCall, ringVars
<1>3. CallInv'
  BY <1>1, <1>2, Zenon DEF RingsInv, CallInv
<1>4. \A d \in Calls : Awaits(d)' <=> Awaits(d)
  BY <1>1, Zenon DEF RingsInv, CallInv, Awaits
<1>5. PhaseInv'
  BY <1>1, <1>2, <1>4, Zenon DEF RingsInv, CallInv, PhaseInv
<1> QED
  BY <1>2, <1>3, <1>4, <1>5, RingsKept, Zenon

\* A call is refused, sent to the worker or, for CheckInitialized, answered next.
LEMMA RequestStep ==
    ASSUME RingsInv, NEW c \in Calls, HandleRequest(c)
    PROVE  RingsInv'
<1>1. call_state[c] = "REQUEST" /\ ~Waiting /\ UNCHANGED <<result, rx, reply>>
  BY Zenon DEF HandleRequest, Refuse, WriteRequest, NoWriteRequest
<1>2. tx = <<>> /\ rx = <<>>
  BY <1>1, RingsEmpty, Zenon
<1>3. result[c] = None
  BY <1>1, Zenon DEF RingsInv, PhaseInv
<1>4. RxInv'
  BY <1>1, <1>2 DEF RxInv
<1>5. ASSUME NEW s \in Statuses \ {"none"}, Refuse(c, s) PROVE RingsInv'
  <2>1. /\ call_state' = [call_state EXCEPT ![c] = "FINISH"]
        /\ status' = [status EXCEPT ![c] = s] /\ tx' = tx
    BY <1>5, Zenon DEF Refuse, Finish
  <2>2. CallInv'
    BY <1>1, <2>1, Zenon DEF RingsInv, CallInv, CallStates
  <2>3. PhaseInv'
    BY <1>1, <2>1, Zenon DEF RingsInv, CallInv, PhaseInv, Awaits
  <2>4. TxInv'
    BY <1>2, <2>1 DEF TxInv
  <2> QED
    BY <1>4, <2>2, <2>3, <2>4, Zenon DEF RingsInv
<1>6. ASSUME call_state' = [call_state EXCEPT ![c] = "AWAIT_MSG"], UNCHANGED status,
             \/ tx' = tx
             \/ tx' = Append(tx, c) /\ call_type[c] # "CheckInitialized"
      PROVE  RingsInv'
  <2>1. CallInv'
    BY <1>1, <1>6, Zenon DEF RingsInv, CallInv, CallStates
  <2>2. \A d \in Calls : Awaits(d)' <=> d = c
    BY <1>1, <1>6, Zenon DEF RingsInv, CallInv, Awaits, Waiting
  <2>3. PhaseInv'
    BY <1>1, <1>6, <2>2, Zenon DEF RingsInv, CallInv, PhaseInv
  <2>4. TxInv'
    <3>1. CASE tx' = tx
      BY <1>2, <3>1 DEF TxInv
    <3>2. CASE tx' = Append(tx, c) /\ call_type[c] # "CheckInitialized"
      <4>1. tx' = <<c>>
        BY <1>2, <3>2
      <4>2. tx' \in Seq(Calls) /\ Len(tx') = 1 /\ tx'[1] = c
        BY <4>1
      <4>3. Awaits(c)' /\ result'[c] = None /\ rx' = <<>>
        BY <1>1, <1>2, <1>3, <2>2, Zenon
      <4> QED
        BY <3>2, <4>2, <4>3 DEF TxInv, Awaits
    <3> QED
      BY <1>6, <3>1, <3>2, Zenon
  <2> QED
    BY <1>4, <2>1, <2>3, <2>4, Zenon DEF RingsInv
<1>7. \/ \E s \in Statuses \ {"none"} : Refuse(c, s)
      \/ /\ call_state' = [call_state EXCEPT ![c] = "AWAIT_MSG"] /\ UNCHANGED status
         /\ tx' = tx \/ (tx' = Append(tx, c) /\ call_type[c] # "CheckInitialized")
  BY Zenon DEF HandleRequest, WriteRequest, NoWriteRequest, Statuses
<1> QED
  BY <1>5, <1>6, <1>7, Zenon

\* CheckInitialized is answered without the worker.
LEMMA NoIpcStep ==
    ASSUME RingsInv, NEW c \in Calls, HandleNoIpc(c)
    PROVE  RingsInv'
<1>1. /\ Awaits(c) /\ call_type[c] = "CheckInitialized" /\ UNCHANGED <<result, tx, rx>>
      /\ call_state' = [call_state EXCEPT ![c] = "FINISH"]
      /\ status' = [status EXCEPT ![c] = "OK"]
      /\ reply' = [reply EXCEPT ![c] = [err |-> Ok, items |-> reply[c].items]]
  BY Zenon DEF HandleNoIpc, Finish, ringVars, Awaits
<1>2. tx = <<>> /\ rx = <<>>
  BY <1>1, RingsEmpty, Zenon
<1>3. CallInv'
  <2>1. reply[c] \in Results
    BY Zenon DEF RingsInv, CallInv
  <2>2. [err |-> Ok, items |-> reply[c].items] \in Results
    BY <2>1, Zenon DEF Results, ErrCodes
  <2> QED
    BY <1>1, <2>2, Zenon DEF RingsInv, CallInv, CallStates, Statuses
<1>4. PhaseInv'
  <2>1. /\ call_state \in [Calls -> CallStates] /\ status \in [Calls -> Statuses]
        /\ reply \in [Calls -> Results]
    BY Zenon DEF RingsInv, CallInv
  <2>2. \A d \in Calls \ {c} : /\ call_state'[d] = call_state[d] /\ status'[d] = status[d]
                               /\ reply'[d] = reply[d]
    BY <1>1, <2>1, Zenon
  <2>3. /\ call_state'[c] = "FINISH" /\ status'[c] = "OK"
        /\ reply'[c] = [err |-> Ok, items |-> reply[c].items]
    BY <1>1, <2>1, Zenon
  <2>4. ASSUME NEW d \in Calls, result'[d] = None
        PROVE  reply'[d] = [err |-> Ok, items |-> {}]
    <3>1. reply[d] = [err |-> Ok, items |-> {}]
      BY <1>1, <2>4, Zenon DEF RingsInv, PhaseInv
    <3>2. CASE d = c
      BY <2>3, <3>1, <3>2
    <3>3. CASE d # c
      BY <2>2, <3>1, <3>3, Zenon
    <3> QED
      BY <3>2, <3>3, Zenon
  <2>5. \A d \in Calls : Awaits(d)' => Awaits(d) /\ d # c
    BY <2>2, <2>3, Zenon DEF Awaits
  <2>6. \A d \in Calls : status'[d] = "none" <=> call_state'[d] \in {"none", "REQUEST", "AWAIT_MSG"}
    BY <2>2, <2>3, Zenon DEF RingsInv, PhaseInv
  <2>7. \A d \in Calls : result'[d] # None => call_state'[d] \in {"AWAIT_MSG", "FINISH", "deleted"}
    BY <1>1, <2>2, <2>3, Zenon DEF RingsInv, PhaseInv
  <2>8. \A d, e \in Calls : Awaits(d)' /\ Awaits(e)' => d = e
    BY <2>5, Zenon DEF RingsInv, PhaseInv
  <2> QED
    BY <2>4, <2>6, <2>7, <2>8, Zenon DEF PhaseInv
<1>5. TxInv' /\ RxInv'
  BY <1>1, <1>2 DEF TxInv, RxInv
<1> QED
  BY <1>3, <1>4, <1>5, Zenon DEF RingsInv

\* The first reply in the ring, to the call that waits.
LEMMA ReplyOfCall ==
    ASSUME RingsInv, NEW c \in Calls, Awaits(c), rx # <<>>
    PROVE  /\ tx = <<>> /\ result[c] # None /\ ChainOK(c)
           /\ \A i \in 1..Len(rx) : rx[i] \in Replies /\ rx[i].call = c /\ ReplyOK(i)
           /\ ~BadReply(c, rx[1])
<1>1. tx = <<>>
  BY Zenon DEF RingsInv, TxInv
<1>2. rx \in Seq(Replies) /\ Len(rx) >= 1
  BY DEF RingsInv, RxInv
<1>3. ASSUME NEW i \in 1..Len(rx)
      PROVE  rx[i] \in Replies /\ rx[i].call = c /\ ReplyOK(i) /\ ChainOK(rx[i].call)
  <2>1. rx[i] \in Replies /\ ReplyOK(i) /\ ChainOK(rx[i].call)
    BY <1>2 DEF RingsInv, RxInv
  <2>2. rx[i].call \in Calls
    BY <2>1, Zenon DEF Replies
  <2> QED
    BY <2>1, <2>2, Zenon DEF ReplyOK, RingsInv, PhaseInv
<1>4. ReplyOK(1) /\ rx[1].call = c /\ ChainOK(c)
  BY <1>2, <1>3
<1> QED
  BY <1>1, <1>3, <1>4, Zenon DEF ReplyOK, BadReply

\* What the call knows after the first reply in the ring.
Parsed(c) == [err |-> rx[1].err_code,
              items |-> IF rx[1].err_code = Ok THEN reply[c].items \cup rx[1].items
                                               ELSE reply[c].items]

\* A reply is parsed; the last one of the chain ends the call.
LEMMA ReplyEffect ==
    ASSUME RingsInv, NEW c \in Calls, HandleReply(c)
    PROVE  /\ Awaits(c) /\ rx # <<>> /\ rx' = Tail(rx) /\ UNCHANGED <<tx, result>>
           /\ reply' = [reply EXCEPT ![c] = Parsed(c)] /\ Parsed(c) \in Results
           /\ \/ Len(rx) > 1 /\ UNCHANGED <<call_state, status>>
              \/ Len(rx) = 1 /\ Finish(c, "OK")
<1>1. Awaits(c) /\ rx # <<>> /\ rx' = Tail(rx) /\ UNCHANGED <<tx, result>>
  BY Zenon DEF HandleReply, Awaits
<1>2. rx \in Seq(Replies) /\ Head(rx) = rx[1] /\ Len(rx) >= 1
  BY <1>1 DEF RingsInv, RxInv
<1>3. rx[1] \in Replies /\ ReplyOK(1) /\ ~BadReply(c, rx[1])
  BY <1>1, <1>2, ReplyOfCall
<1>4. Parse(c, rx[1]) /\ IF rx[1].is_chained THEN UNCHANGED <<call_state, status>> ELSE Finish(c, "OK")
  BY <1>2, <1>3, Zenon DEF HandleReply
<1>5. reply' = [reply EXCEPT ![c] = Parsed(c)]
  BY <1>4, Zenon DEF Parse, Parsed
<1>6. Parsed(c) \in Results
  <2>1. reply[c] \in Results
    BY Zenon DEF RingsInv, CallInv
  <2> QED
    BY <1>3, <2>1, Zenon DEF Parsed, Results, Replies
<1>7. rx[1].is_chained = (1 < Len(rx))
  BY <1>3, Zenon DEF ReplyOK
<1>8. rx[1].is_chained \in BOOLEAN
  BY <1>3, Zenon DEF Replies
<1>9. CASE rx[1].is_chained
  BY <1>1, <1>2, <1>4, <1>5, <1>6, <1>7, <1>9, Zenon
<1>10. CASE ~rx[1].is_chained
  <2>0. ~(1 < Len(rx))
    BY <1>7, <1>10, Zenon
  <2> DEFINE n == Len(rx)
  <2>1. n \in Nat /\ n >= 1 /\ ~(1 < n)
    BY <1>2, <2>0
  <2> HIDE DEF n
  <2>2. n = 1
    BY <2>1
  <2>3. Finish(c, "OK")
    BY <1>4, <1>10, Zenon
  <2> QED
    BY <1>1, <1>5, <1>6, <2>2, <2>3, Zenon DEF n
<1> QED
  BY <1>8, <1>9, <1>10, Zenon

\* The parsed chain is the result of the execution, unless the list was cut short.
LEMMA LastReply ==
    ASSUME RingsInv, NEW c \in Calls, Awaits(c), rx # <<>>, Len(rx) = 1
    PROVE  /\ result[c].err = Ok => Parsed(c) = result[c]
           /\ result[c].err = "ERROR" => Parsed(c) = [err |-> "ERROR", items |-> {}]
<1>1. result[c] # None /\ ChainOK(c)
  BY ReplyOfCall, Zenon
<1>2. result[c] \in Results
  BY <1>1, Zenon DEF RingsInv, CallInv
<1>3. result[c] = [err |-> result[c].err, items |-> result[c].items]
  BY <1>2, Zenon DEF Results
<1>4. ASSUME result[c].err = Ok PROVE Parsed(c) = result[c]
  <2>1. /\ rx[1].err_code = Ok
        /\ reply[c].items \cup UNION {rx[i].items : i \in 1..1} = result[c].items
    BY <1>1, <1>4 DEF ChainOK
  <2>2. UNION {rx[i].items : i \in 1..1} = rx[1].items
    OBVIOUS
  <2> QED
    BY <1>3, <1>4, <2>1, <2>2, Zenon DEF Parsed
<1>5. ASSUME result[c].err = "ERROR" PROVE Parsed(c) = [err |-> "ERROR", items |-> {}]
  <2>1. rx[1].err_code = "ERROR" /\ reply[c].items = {} /\ rx[1].err_code # Ok
    BY <1>1, <1>5, Zenon DEF ChainOK, Ok
  <2> QED
    BY <2>1, Zenon DEF Parsed
<1> QED
  BY <1>4, <1>5, Zenon

\* The call goes on or ends, and what it has parsed stays in step with the ring.
LEMMA ReplyStep ==
    ASSUME RingsInv, NEW c \in Calls, HandleReply(c)
    PROVE  RingsInv'
<1>1. /\ Awaits(c) /\ rx # <<>> /\ rx' = Tail(rx) /\ UNCHANGED <<tx, result>>
      /\ reply' = [reply EXCEPT ![c] = Parsed(c)] /\ Parsed(c) \in Results
      /\ \/ Len(rx) > 1 /\ UNCHANGED <<call_state, status>>
         \/ Len(rx) = 1 /\ Finish(c, "OK")
  BY ReplyEffect, Zenon
<1>2. /\ tx = <<>> /\ result[c] # None /\ ChainOK(c)
      /\ \A i \in 1..Len(rx) : rx[i] \in Replies /\ rx[i].call = c /\ ReplyOK(i)
  BY <1>1, ReplyOfCall, Zenon
<1>3. /\ rx \in Seq(Replies) /\ rx' \in Seq(Replies) /\ Len(rx') = Len(rx) - 1
      /\ \A i \in 1..Len(rx') : rx'[i] = rx[i + 1]
  BY <1>1 DEF RingsInv, RxInv
<1>4. \A d \in Calls \ {c} : reply'[d] = reply[d]
  BY <1>1, Zenon DEF RingsInv, CallInv
<1>5. reply'[c] = Parsed(c)
  BY <1>1, Zenon DEF RingsInv, CallInv
<1>6. \A d \in Calls : result'[d] = None => reply'[d] = [err |-> Ok, items |-> {}]
  BY <1>1, <1>2, <1>4, Zenon DEF RingsInv, PhaseInv
<1>7. TxInv'
  BY <1>1, <1>2 DEF TxInv
<1>8. CASE Len(rx) > 1 /\ UNCHANGED <<call_state, status>>
  <2>1. CallInv'
    BY <1>1, <1>8, Zenon DEF RingsInv, CallInv
  <2>2. \A d \in Calls : Awaits(d)' <=> Awaits(d)
    BY <1>8, Zenon DEF Awaits
  <2>3. PhaseInv'
    BY <1>1, <1>6, <1>8, <2>2, Zenon DEF RingsInv, PhaseInv
  <2>4. ChainOK(c)'
    <3>1. ASSUME result[c].err = Ok
          PROVE  /\ reply'[c].err = Ok
                 /\ \A i \in 1..Len(rx') : rx'[i].err_code = Ok
                 /\ reply'[c].items \cup UNION {rx'[i].items : i \in 1..Len(rx')} = result[c].items
      <4>1. /\ reply[c].err = Ok
            /\ \A i \in 1..Len(rx) : rx[i].err_code = Ok
            /\ reply[c].items \cup UNION {rx[i].items : i \in 1..Len(rx)} = result[c].items
        BY <1>2, <3>1, Zenon DEF ChainOK
      <4>2. Parsed(c).err = Ok /\ Parsed(c).items = reply[c].items \cup rx[1].items
        BY <1>8, <4>1 DEF Parsed
      <4>3. UNION {rx[i].items : i \in 1..Len(rx)}
            = rx[1].items \cup UNION {rx'[i].items : i \in 1..Len(rx')}
        <5>1. ASSUME NEW i \in 1..Len(rx), i # 1
              PROVE  i - 1 \in 1..Len(rx') /\ rx'[i - 1].items = rx[i].items
          BY <1>3, <5>1
        <5>2. ASSUME NEW i \in 1..Len(rx')
              PROVE  i + 1 \in 1..Len(rx) /\ rx'[i].items = rx[i + 1].items
          BY <1>3
        <5>3. 1 \in 1..Len(rx)
          BY <1>3, <1>8
        <5>4. ASSUME NEW x
              PROVE  (\E i \in 1..Len(rx) : x \in rx[i].items)
                     <=> (x \in rx[1].items \/ \E i \in 1..Len(rx') : x \in rx'[i].items)
          BY <5>1, <5>2, <5>3, Zenon
        <5> QED
          BY <5>4, Zenon
      <4>4. reply'[c].err = Ok /\ reply'[c].items = reply[c].items \cup rx[1].items
        BY <1>5, <4>2, Zenon
      <4>5. ASSUME NEW i \in 1..Len(rx') PROVE rx'[i].err_code = Ok
        <5>1. i + 1 \in 1..Len(rx) /\ rx'[i] = rx[i + 1]
          BY <1>3
        <5> QED
          BY <4>1, <5>1, Zenon
      <4> DEFINE before == UNION {rx[i].items : i \in 1..Len(rx)}
                 after == UNION {rx'[i].items : i \in 1..Len(rx')}
      <4>6. before = rx[1].items \cup after /\ reply[c].items \cup before = result[c].items
        BY <4>1, <4>3, Zenon
      <4> HIDE DEF before, after
      <4>7. reply'[c].items \cup after = result[c].items
        BY <4>4, <4>6, Zenon
      <4> QED
        BY <4>4, <4>5, <4>7, Zenon DEF after
    <3>2. result[c].err # "ERROR"
      <4>1. Len(rx) # 1
        BY <1>3, <1>8
      <4> QED
        BY <1>2, <4>1, Zenon DEF ChainOK
    <3> QED
      BY <1>1, <3>1, <3>2, Zenon DEF ChainOK
  <2>5. ASSUME NEW i \in 1..Len(rx') PROVE ReplyOK(i)' /\ rx'[i].call = c
    <3>1. i + 1 \in 1..Len(rx) /\ rx'[i] = rx[i + 1]
      BY <1>3
    <3>2. ReplyOK(i + 1) /\ rx[i + 1].call = c
      BY <1>2, <3>1, Zenon
    <3>3. rx'[i].is_chained = (i < Len(rx'))
      <4>1. (i + 1 < Len(rx)) = (i < Len(rx'))
        BY <1>3
      <4> QED
        BY <3>1, <3>2, <4>1, Zenon DEF ReplyOK
    <3> QED
      BY <1>1, <2>2, <3>1, <3>2, <3>3, Zenon DEF ReplyOK
  <2>6. RxInv'
    BY <1>3, <2>4, <2>5, Zenon DEF RxInv
  <2> QED
    BY <1>7, <2>1, <2>3, <2>6, Zenon DEF RingsInv
<1>9. CASE Len(rx) = 1 /\ Finish(c, "OK")
  <2>1. /\ call_state' = [call_state EXCEPT ![c] = "FINISH"]
        /\ status' = [status EXCEPT ![c] = "OK"]
    BY <1>9, Zenon DEF Finish
  <2>2. CallInv'
    BY <1>1, <2>1, Zenon DEF RingsInv, CallInv, CallStates, Statuses
  <2>3. PhaseInv'
    <3>1. \A d \in Calls \ {c} : call_state'[d] = call_state[d] /\ status'[d] = status[d]
      BY <2>1, Zenon DEF RingsInv, CallInv
    <3>2. call_state'[c] = "FINISH" /\ status'[c] = "OK"
      BY <2>1, Zenon DEF RingsInv, CallInv
    <3>3. \A d \in Calls : Awaits(d)' => Awaits(d)
      BY <3>1, <3>2, Zenon DEF Awaits
    <3>4. \A d \in Calls : status'[d] = "none" <=> call_state'[d] \in {"none", "REQUEST", "AWAIT_MSG"}
      BY <3>1, <3>2, Zenon DEF RingsInv, PhaseInv
    <3>5. \A d \in Calls : result'[d] # None => call_state'[d] \in {"AWAIT_MSG", "FINISH", "deleted"}
      BY <1>1, <3>1, <3>2, Zenon DEF RingsInv, PhaseInv
    <3>6. \A d, e \in Calls : Awaits(d)' /\ Awaits(e)' => d = e
      BY <3>3, Zenon DEF RingsInv, PhaseInv
    <3> QED
      BY <1>6, <3>4, <3>5, <3>6, Zenon DEF PhaseInv
  <2>4. RxInv'
    BY <1>3, <1>9 DEF RxInv
  <2> QED
    BY <1>7, <2>2, <2>3, <2>4, Zenon DEF RingsInv
<1> QED
  BY <1>1, <1>8, <1>9, Zenon

\* The worker takes the only request and puts a whole chain into the empty ring.
LEMMA ResponseEffect ==
    ASSUME RingsInv, ProcessRequest
    PROVE  \E c \in Calls, k \in 1..RepMax, n \in 0..MaxItems, err \in ErrCodes :
              /\ c = tx[1] /\ tx # <<>> /\ tx' = <<>> /\ rx = <<>> /\ UNCHANGED callVars
              /\ rx' = Chain(c, k, n, err)
              /\ result' = [result EXCEPT ![c] = [err |-> err, items |-> {j \in 1..n : Slot(j) < k}]]
              /\ call_type[c] # "List" => k = 1 /\ n = 0
              /\ err = "ERROR" => k = 1 /\ n = 0
<1>0. tx # <<>> /\ tx' = Tail(tx) /\ UNCHANGED callVars
  BY Zenon DEF ProcessRequest
<1>1. tx \in Seq(Calls) /\ Len(tx) = 1 /\ rx = <<>>
  <2>1. tx \in Seq(Calls) /\ Len(tx) <= 1 /\ rx = <<>>
    BY <1>0, Zenon DEF RingsInv, TxInv
  <2> DEFINE n == Len(tx)
  <2>2. n \in Nat /\ n # 0 /\ n <= 1
    BY <1>0, <2>1, EmptySeq, Zenon
  <2> HIDE DEF n
  <2>3. n = 1
    BY <2>2
  <2> QED
    BY <2>1, <2>3, Zenon DEF n
<1>2. Head(tx) = tx[1] /\ tx[1] \in Calls /\ tx' = <<>>
  BY <1>0, <1>1
<1>3. PICK k \in 1..RepMax, n \in 0..MaxItems, err \in ErrCodes :
         /\ Response(tx[1], k, n, err)
         /\ call_type[tx[1]] # "List" => k = 1 /\ n = 0
         /\ err = "ERROR" => k = 1 /\ n = 0
  BY <1>1, <1>2, EveryResponse, Zenon
<1>4. /\ Chain(tx[1], k, n, err) \in Seq(Replies) /\ Len(Chain(tx[1], k, n, err)) <= RepMax
  BY <1>2, ChainType, RepliesFit
<1>5. rx' = Chain(tx[1], k, n, err)
  BY <1>1, <1>3, <1>4, WholeChain, Zenon DEF Response, dp_grpc_send_response
<1> QED
  BY <1>0, <1>1, <1>2, <1>3, <1>5, Zenon DEF Response

\* The chain the worker made holds the result.
LEMMA ResponseStep ==
    ASSUME RingsInv, ProcessRequest
    PROVE  RingsInv'
<1>1. PICK c \in Calls, k \in 1..RepMax, n \in 0..MaxItems, err \in ErrCodes :
         /\ c = tx[1] /\ tx # <<>> /\ tx' = <<>> /\ rx = <<>> /\ UNCHANGED callVars
         /\ rx' = Chain(c, k, n, err)
         /\ result' = [result EXCEPT ![c] = [err |-> err, items |-> {j \in 1..n : Slot(j) < k}]]
         /\ call_type[c] # "List" => k = 1 /\ n = 0
         /\ err = "ERROR" => k = 1 /\ n = 0
  BY ResponseEffect, Zenon
<1>2. Awaits(c) /\ result[c] = None /\ call_type[c] # "CheckInitialized"
  BY <1>1, Zenon DEF RingsInv, TxInv
<1>3. reply[c] = [err |-> Ok, items |-> {}]
  BY <1>2, Zenon DEF RingsInv, PhaseInv
<1>4. /\ k \in Nat /\ rx' \in Seq(Replies) /\ Len(rx') = k
      /\ \A i \in 1..k : rx'[i] =
            [call |-> c, items |-> {j \in 1..n : Slot(j) = i - 1},
             is_chained |-> i < k, err_code |-> IF i = 1 THEN err ELSE Ok]
  BY <1>1, ChainType, RepliesFit
<1> DEFINE res == [err |-> err, items |-> {j \in 1..n : Slot(j) < k}]
<1>5. res \in Results
  BY ConstantsAssumption DEF Results
<1>6. result'[c] = res /\ \A d \in Calls \ {c} : result'[d] = result[d]
  BY <1>1, Zenon DEF RingsInv, CallInv
<1>7. res # None
  BY <1>5, ConstantsAssumption, Zenon DEF Results
<1>8. res.err = err /\ res.items = {j \in 1..n : Slot(j) < k}
  BY Zenon
<1> HIDE DEF res
<1>9. CallInv'
  BY <1>1, <1>5, Zenon DEF RingsInv, CallInv, callVars, res
<1>10. PhaseInv'
  <2>1. \A d \in Calls : Awaits(d)' <=> Awaits(d)
    BY <1>1, Zenon DEF callVars, Awaits
  <2>2. \A d \in Calls : result'[d] # None => call_state'[d] \in {"AWAIT_MSG", "FINISH", "deleted"}
    BY <1>1, <1>2, <1>6, Zenon DEF callVars, RingsInv, PhaseInv, Awaits
  <2>3. \A d \in Calls : result'[d] = None => reply'[d] = [err |-> Ok, items |-> {}]
    BY <1>1, <1>6, <1>7, Zenon DEF callVars, RingsInv, PhaseInv
  <2> QED
    BY <1>1, <2>1, <2>2, <2>3, Zenon DEF callVars, RingsInv, PhaseInv
<1>11. TxInv'
  BY <1>1 DEF TxInv
<1>12. ChainOK(c)'
  <2>1. reply'[c] = [err |-> Ok, items |-> {}]
    BY <1>1, <1>3, Zenon DEF callVars
  <2>2. ASSUME err = Ok
        PROVE  /\ \A i \in 1..Len(rx') : rx'[i].err_code = Ok
               /\ UNION {rx'[i].items : i \in 1..Len(rx')} = res.items
    <3>1. \A i \in 1..Len(rx') : rx'[i].err_code = Ok /\ rx'[i].items = {j \in 1..n : Slot(j) = i - 1}
      BY <1>4, <2>2
    <3>2. ASSUME NEW j \in 1..n
          PROVE  Slot(j) < k <=> \E i \in 1..k : Slot(j) = i - 1
      <4>1. Slot(j) \in Nat
        BY SlotType
      <4>2. ASSUME Slot(j) < k PROVE Slot(j) + 1 \in 1..k /\ Slot(j) = (Slot(j) + 1) - 1
        BY <1>4, <4>1, <4>2
      <4>3. ASSUME NEW i \in 1..k, Slot(j) = i - 1 PROVE Slot(j) < k
        BY <1>4, <4>1, <4>3
      <4> QED
        BY <4>2, <4>3, Zenon
    <3>3. ASSUME NEW x
          PROVE  (\E i \in 1..Len(rx') : x \in rx'[i].items) <=> x \in res.items
      <4>0. Len(rx') = k
        BY <1>4, Zenon
      <4>1. (\E i \in 1..Len(rx') : x \in rx'[i].items)
            <=> (x \in 1..n /\ \E i \in 1..k : Slot(x) = i - 1)
        BY <3>1, <4>0, Zenon
      <4> QED
        BY <1>8, <3>2, <4>1, Zenon
    <3>4. UNION {rx'[i].items : i \in 1..Len(rx')} = res.items
      BY <3>3, Zenon
    <3> QED
      BY <3>1, <3>4, Zenon
  <2>3. ASSUME err = "ERROR" PROVE Len(rx') = 1 /\ rx'[1].err_code = "ERROR"
    <3>1. k = 1
      BY <1>1, <2>3, Zenon
    <3>2. 1 \in 1..k
      BY <3>1
    <3>3. rx'[1].err_code = err
      BY <1>4, <3>2
    <3> QED
      BY <1>4, <2>3, <3>1, <3>3, Zenon
  <2>4. result'[c].err = err /\ result'[c].items = res.items
    BY <1>6, <1>8, Zenon
  <2>5. reply'[c].err = Ok /\ reply'[c].items = {}
    BY <2>1
  <2> DEFINE all == UNION {rx'[i].items : i \in 1..Len(rx')}
  <2>6. err = Ok => reply'[c].items \cup all = result'[c].items
    BY <2>2, <2>4, <2>5, Zenon
  <2> HIDE DEF all
  <2>7. err = Ok => \A i \in 1..Len(rx') : rx'[i].err_code = Ok
    BY <2>2, Zenon
  <2> QED
    BY <2>3, <2>4, <2>5, <2>6, <2>7, Zenon DEF ChainOK, all
<1>13. ASSUME NEW i \in 1..Len(rx') PROVE ReplyOK(i)' /\ rx'[i].call = c
  <2>1. /\ rx'[i].call = c /\ rx'[i].is_chained = (i < k)
        /\ rx'[i].items = {j \in 1..n : Slot(j) = i - 1}
    BY <1>4
  <2>2. Awaits(c)'
    BY <1>1, <1>2, Zenon DEF callVars, Awaits
  <2>3. ASSUME call_type[c] # "List" PROVE ~rx'[i].is_chained /\ rx'[i].items = {}
    <3>0. k = 1 /\ n = 0
      BY <1>1, <2>3, Zenon
    <3>1. k = 1 /\ n = 0 /\ i = 1
      <4>1. Len(rx') = k
        BY <1>4, Zenon
      <4> QED
        BY <3>0, <4>1
    <3>2. rx'[i] = [call |-> c, items |-> {j \in 1..n : Slot(j) = i - 1},
                    is_chained |-> i < k, err_code |-> IF i = 1 THEN err ELSE Ok]
      BY <1>4, Zenon
    <3>3. 1..n = {} /\ ~(i < k)
      BY <3>1
    <3>4. rx'[i].is_chained = (i < k) /\ rx'[i].items = {j \in 1..n : Slot(j) = i - 1}
      BY <3>2
    <3>5. rx'[i].items = {}
      BY <3>3, <3>4, Zenon
    <3>6. ~rx'[i].is_chained
      BY <3>3, <3>4, Zenon
    <3> QED
      BY <3>5, <3>6, Zenon
  <2> QED
    BY <1>2, <1>4, <1>6, <1>7, <2>1, <2>2, <2>3, Zenon DEF ReplyOK
<1>14. RxInv'
  BY <1>4, <1>12, <1>13, Zenon DEF RxInv
<1> QED
  BY <1>9, <1>10, <1>11, <1>14, Zenon DEF RingsInv

\* Every step keeps the invariant.
LEMMA RingsStep ==
    ASSUME RingsInv, [Next]_vars
    PROVE  RingsInv'
<1>1. CASE UNCHANGED <<callVars, result, ringVars>>
  <2>1. UNCHANGED <<call_state, status, reply, result, tx, rx>>
    BY <1>1, Zenon DEF callVars, ringVars
  <2>2. CallInv' /\ PhaseInv'
    BY <2>1, Zenon DEF RingsInv, CallInv, PhaseInv, Awaits
  <2>3. \A c \in Calls : Awaits(c)' <=> Awaits(c)
    BY <2>1, Zenon DEF Awaits
  <2> QED
    BY <2>1, <2>2, <2>3, RingsKept, Zenon
<1>2. ProcessEvents \/ SendPeriodic \/ dp_flow_aging_timer_cb \/ MaintenanceTimer
      \/ dp_force_quit \/ dp_grpc_thread_cancel => UNCHANGED <<callVars, result, ringVars>>
  BY Zenon DEF ProcessEvents, SendPeriodic, dp_flow_aging_timer_cb, MaintenanceTimer,
         dp_maintenance_startup_timer_cb, dp_maintenance_timer_cb, dp_force_quit,
         dp_grpc_thread_cancel
<1>3. UNCHANGED vars => UNCHANGED <<callVars, result, ringVars>>
  BY Zenon DEF vars, callVars, ringVars
<1> QED
  BY <1>1, <1>2, <1>3, OtherCall, RequestStep, ReplyStep, NoIpcStep, ResponseStep, Zenon
     DEF Next, GrpcThread, Worker

\* The invariant holds throughout.
LEMMA RingsInvariant == Spec => []RingsInv
<1>1. Init => RingsInv
  <2> SUFFICES ASSUME Init PROVE RingsInv
    BY Zenon
  <2>1. CallInv
    BY ConstantsAssumption, Zenon DEF Init, CallInv, CallStates, Statuses, Results, ErrCodes
  <2>2. PhaseInv
    BY Zenon DEF Init, PhaseInv, Awaits
  <2>3. TxInv /\ RxInv
    BY DEF Init, TxInv, RxInv
  <2> QED
    BY <2>1, <2>2, <2>3, Zenon DEF RingsInv
<1>2. RingsInv /\ [Next]_vars => RingsInv'
  BY RingsStep, Zenon
<1> QED
  BY <1>1, <1>2, PTL DEF Spec

\* A reply is only read by the call that asked for it, for any number of calls and any
\* length of lists (dp_async_grpc.cpp, dp_grpc_responder.c).
THEOREM RepliesAlwaysMatch == Spec => []RepliesMatch
<1>1. RingsInv => RepliesMatch
  <2> SUFFICES ASSUME RingsInv PROVE RepliesMatch
    BY Zenon
  <2>1. /\ tx \in Seq(Calls) /\ Len(tx) <= 1 /\ (tx # <<>> => rx = <<>>)
        /\ tx # <<>> => Awaits(tx[1])
    BY Zenon DEF RingsInv, TxInv
  <2>2. \A i \in 1..Len(tx) : call_state[tx[i]] = "AWAIT_MSG"
    BY <2>1 DEF Awaits
  <2>3. ASSUME NEW i \in 1..Len(rx)
        PROVE  ReplyOK(i) /\ rx[i].call \in Calls
    <3>1. rx \in Seq(Replies) /\ ReplyOK(i)
      BY Zenon DEF RingsInv, RxInv
    <3>2. rx[i] \in Replies
      BY <3>1
    <3> QED
      BY <3>1, <3>2, Zenon DEF Replies
  <2>4. \A i, j \in 1..Len(rx) : rx[i].call = rx[j].call
    BY <2>3, Zenon DEF ReplyOK, RingsInv, PhaseInv
  <2> QED
    BY <2>1, <2>2, <2>3, <2>4, Zenon DEF RepliesMatch, ReplyOK, Awaits
<1> QED
  BY <1>1, RingsInvariant, PTL

-----------------------------------------------------------------------------
\* The service implements RpcService.

\* A step after which every call looks the same is a stutter of the service.
LEMMA Stutter ==
    ASSUME \A c \in RpcCalls : /\ Phase(c)' = Phase(c) /\ result'[c] = result[c]
                               /\ status'[c] = status[c]
                               /\ status[c] = "OK" => reply'[c] = reply[c]
    PROVE  UNCHANGED <<RpcPhase, RpcResult, RpcAnswer>>
  BY Zenon DEF RpcPhase, RpcResult, RpcAnswer

\* A client's new call is issued; CheckInitialized is no call of RpcService.
LEMMA IssueRefines ==
    ASSUME RingsInv, NEW c \in Calls, Issue(c)
    PROVE  [Rpc!Next]_(Rpc!vars)
<1>1. /\ call_state[c] = "none" /\ call_state' = [call_state EXCEPT ![c] = "REQUEST"]
      /\ UNCHANGED <<status, reply, result>>
  BY Zenon DEF Issue
<1>2. call_state'[c] = "REQUEST" /\ \A d \in Calls \ {c} : call_state'[d] = call_state[d]
  BY <1>1, Zenon DEF RingsInv, CallInv
<1>3. \A d \in Calls \ {c} : Phase(d)' = Phase(d)
  BY <1>1, <1>2, Zenon DEF Phase
<1>4. status[c] = "none" /\ result[c] = None
  BY <1>1, Zenon DEF RingsInv, PhaseInv
<1>5. Phase(c) = "idle" /\ Phase(c)' = "issued"
  BY <1>1, <1>2, <1>4, Zenon DEF Phase
<1>6. UNCHANGED <<RpcResult, RpcAnswer>>
  BY <1>1, Zenon DEF RpcResult, RpcAnswer
<1>7. CASE c \in RpcCalls
  <2>1. RpcPhase[c] = "idle" /\ RpcPhase' = [RpcPhase EXCEPT ![c] = "issued"]
    BY <1>3, <1>5, <1>7, Zenon DEF RpcPhase, RpcCalls
  <2> QED
    BY <1>6, <1>7, <2>1, Zenon DEF Rpc!Next, Rpc!Issue
<1>8. CASE c \notin RpcCalls
  <2>1. RpcPhase' = RpcPhase
    BY <1>3, <1>8, Zenon DEF RpcPhase, RpcCalls
  <2> QED
    BY <1>6, <2>1, Zenon DEF Rpc!vars
<1> QED
  BY <1>7, <1>8, Zenon

\* A call that does not reach the worker is refused; one that does is still issued.
LEMMA RequestRefines ==
    ASSUME RingsInv, NEW c \in Calls, HandleRequest(c)
    PROVE  [Rpc!Next]_(Rpc!vars)
<1>1. call_state[c] = "REQUEST" /\ UNCHANGED <<result, reply>>
  BY Zenon DEF HandleRequest, Refuse, WriteRequest, NoWriteRequest
<1>2. status[c] = "none" /\ result[c] = None
  BY <1>1, Zenon DEF RingsInv, PhaseInv
<1>3. Phase(c) = "issued"
  BY <1>1, <1>2, Zenon DEF Phase
<1>4. UNCHANGED RpcResult
  BY <1>1, Zenon DEF RpcResult
<1>5. ASSUME NEW s \in Statuses \ {"none", "OK"}, Refuse(c, s) PROVE [Rpc!Next]_(Rpc!vars)
  <2>1. /\ call_state' = [call_state EXCEPT ![c] = "FINISH"]
        /\ status' = [status EXCEPT ![c] = s]
    BY <1>5, Zenon DEF Refuse, Finish
  <2>2. /\ status'[c] = s
        /\ \A d \in Calls \ {c} : call_state'[d] = call_state[d] /\ status'[d] = status[d]
    BY <2>1, Zenon DEF RingsInv, CallInv
  <2>3. \A d \in Calls \ {c} : Phase(d)' = Phase(d)
    BY <1>1, <2>2, Zenon DEF Phase
  <2>4. Phase(c)' = "refused"
    BY <2>2, Zenon DEF Phase
  <2>5. UNCHANGED RpcAnswer
    BY <1>1, <1>2, <2>2, Zenon DEF RpcAnswer, RpcCalls
  <2>6. CASE c \in RpcCalls
    <3>1. RpcPhase[c] = "issued" /\ RpcPhase' = [RpcPhase EXCEPT ![c] = "refused"]
      BY <1>3, <2>3, <2>4, <2>6, Zenon DEF RpcPhase, RpcCalls
    <3> QED
      BY <1>4, <2>5, <2>6, <3>1, Zenon DEF Rpc!Next, Rpc!Refuse
  <2>7. CASE c \notin RpcCalls
    <3>1. RpcPhase' = RpcPhase
      BY <2>3, <2>7, Zenon DEF RpcPhase, RpcCalls
    <3> QED
      BY <1>4, <2>5, <3>1, Zenon DEF Rpc!vars
  <2> QED
    BY <2>6, <2>7, Zenon
<1>6. ASSUME call_state' = [call_state EXCEPT ![c] = "AWAIT_MSG"], UNCHANGED status
      PROVE  [Rpc!Next]_(Rpc!vars)
  <2>1. /\ call_state'[c] = "AWAIT_MSG"
        /\ \A d \in Calls \ {c} : call_state'[d] = call_state[d]
    BY <1>6, Zenon DEF RingsInv, CallInv
  <2>2. \A d \in Calls \ {c} : Phase(d)' = Phase(d)
    BY <1>1, <1>6, <2>1, Zenon DEF Phase
  <2>3. Phase(c)' = "issued"
    BY <1>1, <1>2, <1>6, <2>1, Zenon DEF Phase
  <2> QED
    BY <1>1, <1>3, <1>6, <2>2, <2>3, Stutter, Zenon DEF RpcCalls, Rpc!vars
<1>7. \/ \E s \in Statuses \ {"none", "OK"} : Refuse(c, s)
      \/ call_state' = [call_state EXCEPT ![c] = "AWAIT_MSG"] /\ UNCHANGED status
  BY Zenon DEF HandleRequest, WriteRequest, NoWriteRequest, Statuses
<1> QED
  BY <1>5, <1>6, <1>7, Zenon

\* The last reply answers the call with what its execution resulted in.
LEMMA ReplyRefines ==
    ASSUME RingsInv, NEW c \in Calls, HandleReply(c)
    PROVE  [Rpc!Next]_(Rpc!vars)
<1>1. /\ Awaits(c) /\ rx # <<>> /\ UNCHANGED result
      /\ reply' = [reply EXCEPT ![c] = Parsed(c)] /\ Parsed(c) \in Results
      /\ \/ Len(rx) > 1 /\ UNCHANGED <<call_state, status>>
         \/ Len(rx) = 1 /\ Finish(c, "OK")
  BY ReplyEffect, Zenon
<1>2. result[c] # None
  BY <1>1, ReplyOfCall, Zenon
<1>3. status[c] = "none" /\ Phase(c) = "executed"
  BY <1>1, <1>2, Zenon DEF RingsInv, PhaseInv, Awaits, Phase
<1>4. reply'[c] = Parsed(c) /\ \A d \in Calls \ {c} : reply'[d] = reply[d]
  BY <1>1, Zenon DEF RingsInv, CallInv
<1>5. CASE Len(rx) > 1 /\ UNCHANGED <<call_state, status>>
  <2>1. \A d \in RpcCalls : Phase(d)' = Phase(d)
    BY <1>1, <1>5, Zenon DEF Phase
  <2>2. \A d \in RpcCalls : status[d] = "OK" => reply'[d] = reply[d]
    BY <1>3, <1>4, Zenon DEF RpcCalls
  <2> QED
    BY <1>1, <1>5, <2>1, <2>2, Stutter, Zenon DEF Rpc!vars
<1>6. CASE Len(rx) = 1 /\ Finish(c, "OK")
  <2>1. /\ status'[c] = "OK"
        /\ \A d \in Calls \ {c} : call_state'[d] = call_state[d] /\ status'[d] = status[d]
    BY <1>6, Zenon DEF Finish, RingsInv, CallInv
  <2>2. Phase(c)' = "answered"
    BY <2>1, Zenon DEF Phase
  <2>3. \A d \in Calls \ {c} : Phase(d)' = Phase(d)
    BY <1>1, <2>1, Zenon DEF Phase
  <2>4. /\ result[c].err = Ok => Parsed(c) = result[c]
        /\ result[c].err = "ERROR" => Parsed(c) = [err |-> "ERROR", items |-> {}]
    BY <1>1, <1>6, LastReply, Zenon
  <2>5. result[c].err \in ErrCodes
    BY <1>2, Zenon DEF RingsInv, CallInv, Results
  <2>6. c \in RpcCalls
    <3>1. rx \in Seq(Replies) /\ 1 \in 1..Len(rx)
      BY <1>6 DEF RingsInv, RxInv
    <3>2. ReplyOK(1) /\ rx[1].call = c
      BY <1>1, <3>1, ReplyOfCall, Zenon
    <3> QED
      BY <3>2, Zenon DEF ReplyOK, RpcCalls
  <2>7. RpcPhase[c] = "executed" /\ RpcPhase' = [RpcPhase EXCEPT ![c] = "answered"]
    BY <1>3, <2>2, <2>3, <2>6, Zenon DEF RpcPhase, RpcCalls
  <2>8. RpcAnswer' = [RpcAnswer EXCEPT ![c] = Parsed(c)]
    BY <1>4, <2>1, <2>6, Zenon DEF RpcAnswer, RpcCalls
  <2>9. UNCHANGED RpcResult /\ RpcResult[c] = result[c]
    BY <1>1, <2>6, Zenon DEF RpcResult
  <2>10. Parsed(c) = Rpc!Report(result[c]) \/ result[c].err = OutOfMemory
    BY <2>4, <2>5, Zenon DEF Rpc!Report, ErrCodes, Ok, OutOfMemory
  <2>11. Rpc!Answer(c)
    BY <1>1, <2>7, <2>8, <2>9, <2>10, Zenon DEF Rpc!Answer
  <2> QED
    BY <2>6, <2>11, Zenon DEF Rpc!Next
<1> QED
  BY <1>1, <1>5, <1>6, Zenon

\* CheckInitialized, and the end of a call that has its status.
LEMMA OthersStutter ==
    ASSUME RingsInv, NEW c \in Calls, HandleNoIpc(c) \/ DeleteCall(c)
    PROVE  [Rpc!Next]_(Rpc!vars)
<1>1. CASE HandleNoIpc(c)
  <2>1. /\ call_type[c] = "CheckInitialized" /\ UNCHANGED result
        /\ call_state' = [call_state EXCEPT ![c] = "FINISH"]
        /\ status' = [status EXCEPT ![c] = "OK"]
        /\ reply' = [reply EXCEPT ![c] = [err |-> Ok, items |-> reply[c].items]]
    BY <1>1, Zenon DEF HandleNoIpc, Finish
  <2>2. \A d \in RpcCalls : /\ d \in Calls /\ call_state'[d] = call_state[d]
                            /\ status'[d] = status[d] /\ reply'[d] = reply[d]
    BY <2>1, Zenon DEF RpcCalls, RingsInv, CallInv
  <2>3. \A d \in RpcCalls : Phase(d)' = Phase(d)
    BY <2>1, <2>2, Zenon DEF Phase
  <2> QED
    BY <2>1, <2>2, <2>3, Stutter, Zenon DEF Rpc!vars
<1>2. CASE DeleteCall(c)
  <2>1. /\ call_state[c] = "FINISH" /\ call_state' = [call_state EXCEPT ![c] = "deleted"]
        /\ UNCHANGED <<status, reply, result>>
    BY <1>2, Zenon DEF DeleteCall
  <2>2. status[c] # "none"
    BY <2>1, Zenon DEF RingsInv, PhaseInv
  <2>3. \A d \in Calls \ {c} : call_state'[d] = call_state[d]
    BY <2>1, Zenon DEF RingsInv, CallInv
  <2>4. \A d \in Calls : Phase(d)' = Phase(d)
    BY <2>1, <2>2, <2>3, Zenon DEF Phase
  <2> QED
    BY <2>1, <2>4, Stutter, Zenon DEF RpcCalls, Rpc!vars
<1> QED
  BY <1>1, <1>2, Zenon

\* The worker's step is the execution of the call.
LEMMA ResponseRefines ==
    ASSUME RingsInv, ProcessRequest
    PROVE  [Rpc!Next]_(Rpc!vars)
<1>1. PICK c \in Calls, k \in 1..RepMax, n \in 0..MaxItems, err \in ErrCodes :
         /\ c = tx[1] /\ tx # <<>> /\ UNCHANGED callVars
         /\ result' = [result EXCEPT ![c] = [err |-> err, items |-> {j \in 1..n : Slot(j) < k}]]
  BY ResponseEffect
<1> DEFINE res == [err |-> err, items |-> {j \in 1..n : Slot(j) < k}]
<1>2. res \in Results /\ res # None
  BY ConstantsAssumption DEF Results
<1>3. Awaits(c) /\ result[c] = None /\ c \in RpcCalls
  BY <1>1, Zenon DEF RingsInv, TxInv, RpcCalls
<1>4. status[c] = "none"
  BY <1>3, Zenon DEF RingsInv, PhaseInv, Awaits
<1>5. result' = [result EXCEPT ![c] = res]
  BY <1>1, Zenon
<1> HIDE DEF res
<1>6. result'[c] = res /\ \A d \in Calls \ {c} : result'[d] = result[d]
  BY <1>5, Zenon DEF RingsInv, CallInv
<1>7. UNCHANGED <<call_state, status, reply>>
  BY <1>1, Zenon DEF callVars
<1>8. Phase(c) = "issued" /\ Phase(c)' = "executed"
  BY <1>2, <1>3, <1>4, <1>6, <1>7, Zenon DEF Phase, Awaits
<1>9. \A d \in Calls \ {c} : Phase(d)' = Phase(d)
  BY <1>6, <1>7, Zenon DEF Phase
<1>10. RpcPhase[c] = "issued" /\ RpcPhase' = [RpcPhase EXCEPT ![c] = "executed"]
  BY <1>3, <1>8, <1>9, Zenon DEF RpcPhase, RpcCalls
<1>11. RpcResult' = [RpcResult EXCEPT ![c] = res]
  BY <1>3, <1>6, Zenon DEF RpcResult, RpcCalls
<1>12. UNCHANGED RpcAnswer
  BY <1>7, Zenon DEF RpcAnswer
<1> QED
  BY <1>2, <1>3, <1>10, <1>11, <1>12, Zenon DEF Rpc!Next, Rpc!Execute

\* The gRPC service implements RpcService, for any number of calls, any sizes of rings
\* and replies and lists of any length (dp_async_grpc.cpp, dp_grpc_responder.c).
THEOREM ServiceImplementsRpc == Spec => CallsLinearized
<1>1. Init => Rpc!Init
  BY Zenon DEF Init, Rpc!Init, RpcPhase, RpcResult, RpcAnswer, RpcCalls, Phase
<1>2. RingsInv /\ [Next]_vars => [Rpc!Next]_(Rpc!vars)
  <2> SUFFICES ASSUME RingsInv, [Next]_vars PROVE [Rpc!Next]_(Rpc!vars)
    BY Zenon
  <2>1. CASE UNCHANGED <<callVars, result>>
    <3>1. UNCHANGED <<call_state, status, reply, result>>
      BY <2>1, Zenon DEF callVars
    <3>2. \A d \in Calls : Phase(d)' = Phase(d)
      BY <3>1, Zenon DEF Phase
    <3> QED
      BY <3>1, <3>2, Stutter, Zenon DEF RpcCalls, Rpc!vars
  <2>2. ProcessEvents \/ SendPeriodic \/ dp_flow_aging_timer_cb \/ MaintenanceTimer
        \/ dp_force_quit \/ dp_grpc_thread_cancel => UNCHANGED <<callVars, result>>
    BY Zenon DEF ProcessEvents, SendPeriodic, dp_flow_aging_timer_cb, MaintenanceTimer,
           dp_maintenance_startup_timer_cb, dp_maintenance_timer_cb, dp_force_quit,
           dp_grpc_thread_cancel
  <2>3. UNCHANGED vars => UNCHANGED <<callVars, result>>
    BY Zenon DEF vars, callVars
  <2> QED
    BY <2>1, <2>2, <2>3, IssueRefines, RequestRefines, ReplyRefines, OthersStutter,
       ResponseRefines, Zenon DEF Next, GrpcThread, Worker
<1> QED
  BY <1>1, <1>2, RingsInvariant, PTL DEF Spec, CallsLinearized, Rpc!Spec

=============================================================================
