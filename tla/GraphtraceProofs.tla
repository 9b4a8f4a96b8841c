-------------------------- MODULE GraphtraceProofs --------------------------
(***************************************************************************)
(* Proofs about Graphtrace, for any size of ring and burst and any number  *)
(* of clients.                                                             *)
(***************************************************************************)
EXTENDS Graphtrace, TLAPS

\* A copy is in the pool, with the worker, in the ring or with a client; those
\* of a client that was killed are in none of them.
CopiesInv == free + Len(ring) + worker.dups + Len(held) <= PoolSize

\* A client that is past the draining of the ring has seen its own START served.
StartedInv ==
    /\ since <= served
    /\ client \in {"start", "drain", "stop"} => held = <<>>
    /\ client = "dump" => /\ \A i \in 1..Len(ring) : ring[i] >= since
                          /\ \A i \in 1..Len(held) : held[i] >= since

\* The inductive invariant.
TraceInv == /\ TypeOK
            /\ worker.left + worker.dups <= MaxBurst
            /\ RingNeverFull
            /\ CopiesInv
            /\ StartedInv

\* The pool has one copy less than the ring has slots.
LEMMA Sizes == PoolSize \in Nat /\ Capacity = PoolSize
  BY ConstantsAssumption DEF PoolSize, Capacity

\* Copies that move between the pool, the ring and a burst stay as many.
LEMMA MovedCopies ==
    ASSUME NEW f \in Nat, NEW a \in Nat, NEW b \in Nat, NEW f2 \in Nat, NEW a2 \in Nat,
           NEW b2 \in Nat, NEW d \in Nat, NEW pool \in Nat,
           f2 + a2 + b2 = f + a + b, f + a + d + b <= pool
    PROVE  f2 + a2 + d + b2 <= pool
OBVIOUS

\* One of the places where copies can be holds no more than all of them do.
LEMMA PartOfCopies ==
    ASSUME NEW f \in Nat, NEW a \in Nat, NEW b \in Nat, NEW d \in Nat, NEW pool \in Nat,
           f + a + d + b <= pool
    PROVE  f \in 0..pool
OBVIOUS

\* What appending n copies of one value does to a sequence of numbers.
LEMMA Appended ==
    ASSUME NEW s \in Seq(Nat), NEW n \in Nat, NEW v \in Nat
    PROVE  LET t == s \o [i \in 1..n |-> v]
           IN  /\ t \in Seq(Nat)
               /\ Len(t) = Len(s) + n
               /\ \A i \in 1..Len(t) : t[i] = IF i <= Len(s) THEN s[i] ELSE v
<1> DEFINE u == [i \in 1..n |-> v]
<1>1. u \in Seq(Nat) /\ Len(u) = n
  OBVIOUS
<1>2. \A i \in 1..n : u[i] = v
  BY Zenon
<1> HIDE DEF u
<1> QED
  BY <1>1, <1>2

-----------------------------------------------------------------------------
\* Each action preserves the invariant.

\* The initial state satisfies it.
LEMMA InitInv == Init => TraceInv
<1> SUFFICES ASSUME Init PROVE TraceInv
  BY Zenon
<1>1. worker \in Bursts /\ worker.left = 0 /\ worker.dups = 0
  BY ConstantsAssumption DEF Init, Idle, Bursts
<1>2. ring \in Seq(Nat) /\ held \in Seq(Nat) /\ Len(ring) = 0 /\ Len(held) = 0 /\ requests \in Seq(Requests)
  BY DEF Init
<1>3. CopiesInv
  BY <1>1, <1>2, Sizes DEF Init, CopiesInv
<1>4. RingNeverFull
  BY Zenon DEF Init, RingNeverFull
<1>5. free \in 0..PoolSize
  BY Sizes DEF Init
<1>6. TypeOK
  <2>1. clients \in 0..MaxClients /\ served \in Nat /\ since \in Nat /\ client \in Phases
    BY ConstantsAssumption DEF Init, Phases
  <2>2. /\ alive \in BOOLEAN /\ enabled \in BOOLEAN /\ full \in BOOLEAN
        /\ interrupt \in BOOLEAN /\ primary_alive \in BOOLEAN
    BY Zenon DEF Init
  <2> QED
    BY <2>1, <2>2, <1>1, <1>2, <1>5, Zenon DEF TypeOK
<1> QED
  BY <1>1, <1>3, <1>4, <1>6, ConstantsAssumption DEF Init, TraceInv, StartedInv

\* The worker takes up a burst.
LEMMA NextBurstInv == TraceInv /\ dp_graphtrace_next_burst => TraceInv'
  BY Sizes, ConstantsAssumption
  DEF dp_graphtrace_next_burst, dump, TraceInv, TypeOK, Idle, Bursts, RingNeverFull, CopiesInv, StartedInv

\* The worker copies a packet of the burst, or does not.
LEMMA CopyInv == TraceInv /\ CopyPacket => TraceInv'
<1> SUFFICES ASSUME TraceInv, CopyPacket PROVE TraceInv'
  BY Zenon
<1>1. worker \in Bursts /\ free \in Nat
  BY Sizes DEF TraceInv, TypeOK
<1>2. worker' \in [left : Nat, dups : Nat] /\ free' \in Nat
  BY <1>1, ConstantsAssumption DEF CopyPacket, Bursts
<1>3. /\ worker'.left + worker'.dups <= worker.left + worker.dups
      /\ free' + worker'.dups <= free + worker.dups
  BY <1>1, ConstantsAssumption DEF CopyPacket, Bursts
<1>4. UNCHANGED <<alive, enabled, ring, served, full, client, interrupt, primary_alive, held, clients, since, requests>>
  BY Zenon DEF CopyPacket, dump
<1>5. Len(ring) \in Nat /\ Len(held) \in Nat
  BY DEF TraceInv, TypeOK
<1>6. CopiesInv'
  <2>1. worker.dups \in Nat /\ worker'.dups \in Nat
    BY <1>1, <1>2 DEF Bursts
  <2>2. free + Len(ring) + worker.dups + Len(held) <= PoolSize
    BY Zenon DEF TraceInv, CopiesInv
  <2>3. free' + Len(ring) + worker'.dups + Len(held) <= PoolSize
    <3> DEFINE d == worker.dups
               e == worker'.dups
               f == free'
               p == PoolSize
               n == Len(ring) + Len(held)
    <3>1. /\ d \in Nat /\ e \in Nat /\ f \in Nat /\ p \in Nat /\ n \in Nat /\ free \in Nat
          /\ f + e <= free + d
          /\ free + d + n <= p
      <4>1. free \in Nat /\ PoolSize \in Nat
        BY <1>1, Sizes, Zenon
      <4>2. free + worker.dups + (Len(ring) + Len(held)) <= PoolSize
        <5> HIDE DEF d, e, f, n, p
        <5> QED
          BY <1>5, <2>1, <2>2, <4>1
      <4> QED
        BY <1>2, <1>3, <1>5, <2>1, <4>1, <4>2
    <3> HIDE DEF d, e, f, n, p
    <3>2. f + e + n <= p
      BY <3>1
    <3> QED
      BY <3>1, <3>2, <1>5 DEF e, f, n, p
  <2> QED
    BY <2>3, <1>4, Zenon DEF CopiesInv
<1>7. free' \in 0..PoolSize
  BY <1>2, <1>4, <1>5, <1>6, Sizes DEF CopiesInv
<1>8. worker'.left + worker'.dups <= MaxBurst /\ worker' \in Bursts
  BY <1>1, <1>2, <1>3, ConstantsAssumption DEF TraceInv, Bursts
<1> QED
  BY <1>4, <1>6, <1>7, <1>8, Zenon DEF TraceInv, TypeOK, RingNeverFull, StartedInv

\* All the copies of the burst fit into the ring.
LEMMA SendInv == TraceInv /\ dp_graphtrace_send => TraceInv'
<1> SUFFICES ASSUME TraceInv, dp_graphtrace_send PROVE TraceInv'
  BY Zenon
<1>1. worker \in Bursts /\ free \in Nat /\ ring \in Seq(Nat) /\ held \in Seq(Nat) /\ served \in Nat
  BY Sizes DEF TraceInv, TypeOK
<1> DEFINE room == Capacity - Len(ring)
           sent == IF worker.dups < room THEN worker.dups ELSE room
<1>2. worker.dups \in Nat /\ sent = worker.dups
  BY <1>1, Sizes DEF TraceInv, CopiesInv, Bursts
<1>3. /\ ring' = ring \o [i \in 1..sent |-> served]
      /\ free' = free + (worker.dups - sent)
      /\ full' = (full \/ sent < worker.dups)
      /\ worker' = Idle
      /\ UNCHANGED <<alive, enabled, served, client, interrupt, primary_alive, held, clients, since, requests>>
  BY Zenon DEF dp_graphtrace_send, dump
<1> HIDE DEF sent
<1>4. ~full' /\ free' = free
  <2>1. ~full /\ ~(sent < worker.dups)
    BY <1>2 DEF TraceInv, RingNeverFull
  <2>2. ~full'
    BY <2>1, <1>3, Zenon
  <2> QED
    BY <2>2, <1>1, <1>2, <1>3
<1>5. /\ ring' \in Seq(Nat)
      /\ Len(ring') = Len(ring) + worker.dups
      /\ \A i \in 1..Len(ring') : ring'[i] = IF i <= Len(ring) THEN ring[i] ELSE served
  <2>1. sent \in Nat
    BY <1>2, Zenon
  <2> DEFINE t == ring \o [i \in 1..sent |-> served]
  <2>2. /\ t \in Seq(Nat)
        /\ Len(t) = Len(ring) + sent
        /\ \A i \in 1..Len(t) : t[i] = IF i <= Len(ring) THEN ring[i] ELSE served
    BY <1>1, <2>1, Appended
  <2>3. ring' = t
    BY <1>3, Zenon
  <2> HIDE DEF t
  <2> QED
    BY <2>2, <2>3, <1>2, Zenon
<1>6. worker' \in Bursts /\ worker'.left = 0 /\ worker'.dups = 0
  BY <1>3, ConstantsAssumption DEF Idle, Bursts
<1>7. TypeOK' /\ CopiesInv' /\ RingNeverFull'
  <2>1. RingNeverFull' /\ full' \in BOOLEAN
    BY <1>3, <1>4, Zenon DEF RingNeverFull
  <2>2. Len(held) \in Nat /\ Len(ring) \in Nat
    BY <1>1
  <2>3. CopiesInv'
    BY <1>1, <1>2, <1>3, <1>4, <1>5, <1>6, <2>2, Sizes DEF TraceInv, CopiesInv
  <2>4. TypeOK'
    BY <2>1, <1>3, <1>4, <1>5, <1>6, Zenon DEF TraceInv, TypeOK
  <2> QED
    BY <2>1, <2>3, <2>4, Zenon
<1>8. StartedInv'
  <2>1. since \in Nat /\ since <= served
    BY Zenon DEF TraceInv, TypeOK, StartedInv
  <2>2. ASSUME client = "dump", NEW i \in 1..Len(ring') PROVE ring'[i] >= since
    <3>1. CASE i <= Len(ring)
      <4>1. i \in 1..Len(ring)
        BY <1>1, <3>1
      <4>2. ring'[i] = ring[i]
        BY <1>5, <3>1, Zenon
      <4> QED
        BY <2>2, <4>1, <4>2, Zenon DEF TraceInv, StartedInv
    <3>2. CASE ~(i <= Len(ring))
      BY <2>1, <2>2, <3>2, <1>1, <1>5, Zenon
    <3> QED
      BY <3>1, <3>2, Zenon
  <2>3. client' = client /\ since' = since /\ served' = served /\ held' = held
    BY <1>3, Zenon
  <2> QED
    BY <2>1, <2>2, <2>3, Zenon DEF TraceInv, StartedInv
<1> QED
  BY <1>6, <1>7, <1>8, ConstantsAssumption DEF TraceInv

\* A START is served, for the client that waits or for one that is gone.
LEMMA HandleStartInv == TraceInv /\ dp_handle_graphtrace_start => TraceInv'
<1> SUFFICES ASSUME TraceInv, dp_handle_graphtrace_start PROVE TraceInv'
  BY Zenon
<1>1. PICK ok \in BOOLEAN :
          /\ enabled' = (enabled \/ ok)
          /\ served' = IF ok THEN served + 1 ELSE served
          /\ IF Answered("start")
             THEN /\ client' = IF ok THEN "drain" ELSE "off"
                  /\ primary_alive' = ok
                  /\ since' = served'
             ELSE UNCHANGED <<client, primary_alive, since>>
  BY Zenon DEF dp_handle_graphtrace_start
<1>2. UNCHANGED <<alive, ring, free, worker, full, interrupt, held, clients>>
  BY Zenon DEF dp_handle_graphtrace_start
<1>3. requests' \in Seq(Requests)
  BY DEF dp_handle_graphtrace_start, TraceInv, TypeOK
<1>4. enabled' \in BOOLEAN
  BY <1>1, Zenon DEF TraceInv, TypeOK
<1>5. served \in Nat /\ served' \in Nat /\ served <= served'
  BY <1>1 DEF TraceInv, TypeOK
<1>6. CASE Answered("start")
  <2>1. client = "start" /\ client' \in {"drain", "off"} /\ primary_alive' \in BOOLEAN /\ since' = served'
    BY <1>1, <1>6, Zenon DEF Answered
  <2>2. TypeOK'
    BY <2>1, <1>2, <1>3, <1>4, <1>5, Zenon DEF TraceInv, TypeOK, Phases
  <2>3. StartedInv'
    BY <2>1, <1>2, <1>5 DEF TraceInv, StartedInv
  <2> QED
    BY <2>2, <2>3, <1>2, Zenon DEF TraceInv, RingNeverFull, CopiesInv
<1>7. CASE ~Answered("start")
  <2>1. UNCHANGED <<client, primary_alive, since>>
    BY <1>1, <1>7, Zenon
  <2>2. TypeOK'
    BY <2>1, <1>2, <1>3, <1>4, <1>5, Zenon DEF TraceInv, TypeOK
  <2>3. StartedInv'
    BY <2>1, <1>2, <1>5 DEF TraceInv, TypeOK, StartedInv
  <2> QED
    BY <2>2, <2>3, <1>2, Zenon DEF TraceInv, RingNeverFull, CopiesInv
<1> QED
  BY <1>6, <1>7, Zenon

\* A STOP is served.
LEMMA HandleStopInv == TraceInv /\ dp_handle_graphtrace_stop => TraceInv'
<1> SUFFICES ASSUME TraceInv, dp_handle_graphtrace_stop PROVE TraceInv'
  BY Zenon
<1>1. requests' \in Seq(Requests)
  BY DEF dp_handle_graphtrace_stop, TraceInv, TypeOK
<1>2. /\ enabled' = FALSE /\ client' \in {"off", client}
      /\ UNCHANGED <<alive, ring, free, worker, served, full>>
      /\ UNCHANGED <<interrupt, primary_alive, held, clients, since>>
  BY Zenon DEF dp_handle_graphtrace_stop
<1> QED
  BY <1>1, <1>2, Zenon DEF TraceInv, TypeOK, Phases, RingNeverFull, CopiesInv, StartedInv

\* A request is sent by client number clients'.
LEMMA RequestType ==
    ASSUME TraceInv, NEW a \in {"START", "STOP"}, Request(a), clients' \in 0..MaxClients
    PROVE  requests' \in Seq(Requests)
<1>1. [action |-> a, by |-> clients'] \in Requests
  BY Zenon DEF Requests
<1>2. requests \in Seq(Requests)
  BY Zenon DEF TraceInv, TypeOK
<1> QED
  BY <1>1, <1>2 DEF Request

\* A client begins, to trace or only to stop the tracing.
LEMMA BeginInv == TraceInv /\ (dp_graphtrace_start \/ stop_graphtrace) => TraceInv'
<1> SUFFICES ASSUME TraceInv, dp_graphtrace_start \/ stop_graphtrace PROVE TraceInv'
  BY Zenon
<1>1. clients' \in 0..MaxClients
  BY ConstantsAssumption DEF dp_graphtrace_start, stop_graphtrace, TraceInv, TypeOK
<1>2. /\ client' \in {"start", "stop"} /\ interrupt' = FALSE /\ primary_alive' \in BOOLEAN
      /\ held' = <<>> /\ UNCHANGED <<alive, enabled, ring, free, worker, served, full, since>>
  BY Zenon DEF dp_graphtrace_start, stop_graphtrace, service
<1>3. requests' \in Seq(Requests)
  BY <1>1, RequestType, Zenon DEF dp_graphtrace_start, stop_graphtrace
<1>4. Len(held') = 0 /\ held' \in Seq(Nat) /\ Len(held) \in Nat
  BY <1>2 DEF TraceInv, TypeOK
<1>5. CopiesInv'
  BY <1>2, <1>4, Sizes DEF TraceInv, TypeOK, CopiesInv, Bursts
<1> QED
  BY <1>1, <1>2, <1>3, <1>4, <1>5, Zenon DEF TraceInv, TypeOK, Phases, RingNeverFull, StartedInv

\* The client drains the ring, takes a burst from it or returns one to the pool.
LEMMA ReadInv == TraceInv /\ (DrainStale \/ TakeBurst \/ dump_func) => TraceInv'
<1> SUFFICES ASSUME TraceInv, DrainStale \/ TakeBurst \/ dump_func PROVE TraceInv'
  BY Zenon
<1>1. /\ ring \in Seq(Nat) /\ held \in Seq(Nat) /\ Len(ring) \in Nat /\ Len(held) \in Nat
      /\ free \in Nat /\ worker.dups \in Nat
  BY Sizes DEF TraceInv, TypeOK, Bursts
<1>2. UNCHANGED <<alive, enabled, worker, served, full, interrupt, primary_alive, clients, since, requests>>
  BY Zenon DEF DrainStale, TakeBurst, dump_func
<1>3. /\ ring' \in Seq(Nat) /\ held' \in Seq(Nat) /\ free' \in Nat /\ client' = "dump"
      /\ free' + Len(ring') + Len(held') = free + Len(ring) + Len(held)
  <2>1. Len(<<>>) = 0 /\ <<>> \in Seq(Nat)
    OBVIOUS
  <2>2. CASE DrainStale
    <3>1. ring' = <<>> /\ free' = free + Len(ring) /\ held' = held /\ client' = "dump"
      BY <2>2, Zenon DEF DrainStale, Drain, TraceInv, StartedInv
    <3> QED
      BY <1>1, <2>1, <3>1
  <2>3. CASE TakeBurst
    <3>1. held = <<>> /\ held' = ring /\ ring' = <<>> /\ free' = free /\ client' = "dump"
      BY <2>3, Zenon DEF TakeBurst
    <3> QED
      BY <1>1, <2>1, <3>1
  <2>4. CASE dump_func
    BY <2>1, <2>4, <1>1 DEF dump_func
  <2> QED
    BY <2>2, <2>3, <2>4, Zenon
<1>4. CopiesInv'
  <2>1. Len(ring') \in Nat /\ Len(held') \in Nat /\ worker' = worker
    BY <1>2, <1>3
  <2>2. free + Len(ring) + worker.dups + Len(held) <= PoolSize
    BY Zenon DEF TraceInv, CopiesInv
  <2>3. free' + Len(ring') + worker.dups + Len(held') <= PoolSize
    <3>1. free' \in Nat /\ free' + Len(ring') + Len(held') = free + Len(ring) + Len(held)
      BY <1>3, Zenon
    <3> DEFINE a == Len(ring)
               b == Len(held)
               x == Len(ring')
               y == Len(held')
               f == free'
               d == worker.dups
    <3>2. /\ a \in Nat /\ b \in Nat /\ x \in Nat /\ y \in Nat /\ f \in Nat /\ d \in Nat
          /\ free \in Nat /\ PoolSize \in Nat
      BY <1>1, <2>1, <3>1, Sizes, Zenon
    <3>3. f + x + y = free + a + b /\ free + a + d + b <= PoolSize
      BY <2>2, <3>1, Zenon
    <3> HIDE DEF a, b, x, y, f, d
    <3>4. f + x + d + y <= PoolSize
      BY <3>2, <3>3, MovedCopies
    <3> QED
      BY <3>4, Zenon DEF x, y, f, d
  <2> QED
    BY <2>1, <2>3, Zenon DEF CopiesInv
<1>5. free' \in 0..PoolSize
  <2>1. Len(ring') \in Nat /\ Len(held') \in Nat /\ worker'.dups \in Nat
    BY <1>1, <1>2, <1>3
  <2> DEFINE f == free'
             a == Len(ring')
             d == worker'.dups
             b == Len(held')
  <2>2. f \in Nat /\ a \in Nat /\ d \in Nat /\ b \in Nat /\ PoolSize \in Nat
    BY <1>3, <2>1, Sizes, Zenon
  <2>3. f + a + d + b <= PoolSize
    BY <1>4, Zenon DEF CopiesInv, PoolSize
  <2> HIDE DEF f, a, d, b
  <2>4. f \in 0..PoolSize
    BY <2>2, <2>3, PartOfCopies
  <2> QED
    BY <2>4, Zenon DEF f, PoolSize
<1>6. StartedInv'
  <2>1. CASE DrainStale
    BY <2>1, <1>2 DEF DrainStale, Drain, TraceInv, StartedInv
  <2>2. CASE TakeBurst
    BY <2>2, <1>2, Zenon DEF TakeBurst, TraceInv, StartedInv
  <2>3. CASE dump_func
    BY <2>3, <1>2 DEF dump_func, TraceInv, StartedInv
  <2> QED
    BY <2>1, <2>2, <2>3, Zenon
<1> QED
  BY <1>2, <1>3, <1>4, <1>5, <1>6, Zenon DEF TraceInv, TypeOK, Phases, RingNeverFull

\* The client asks for a stop once it is interrupted.
LEMMA StopInv == TraceInv /\ dp_graphtrace_stop => TraceInv'
<1> SUFFICES ASSUME TraceInv, dp_graphtrace_stop PROVE TraceInv'
  BY Zenon
<1>1. clients' \in 0..MaxClients
  BY Zenon DEF dp_graphtrace_stop, TraceInv, TypeOK
<1>2. requests' \in Seq(Requests)
  BY <1>1, RequestType, Zenon DEF dp_graphtrace_stop, TraceInv, TypeOK
<1>3. /\ client' \in {"stop", "off"} /\ held = <<>>
      /\ UNCHANGED <<alive, enabled, ring, free, worker, served, full, interrupt, primary_alive, held, since>>
  BY Zenon DEF dp_graphtrace_stop, service
<1> QED
  BY <1>1, <1>2, <1>3, Zenon DEF TraceInv, TypeOK, Phases, RingNeverFull, CopiesInv, StartedInv

\* The service or the client ends, or the client's flags change.
LEMMA EndInv ==
    TraceInv /\ (Exit \/ RequestTimesOut \/ Kill \/ signal_handler \/ dp_graphtrace_monitor_primary)
        => TraceInv'
<1> SUFFICES ASSUME TraceInv,
                    Exit \/ RequestTimesOut \/ Kill \/ signal_handler \/ dp_graphtrace_monitor_primary
             PROVE  TraceInv'
  BY Zenon
<1>1. /\ alive' \in BOOLEAN /\ interrupt' \in BOOLEAN /\ primary_alive' \in BOOLEAN
      /\ client' \in {"off", client}
      /\ UNCHANGED <<enabled, ring, free, worker, served, full, held, clients, since, requests>>
  BY Zenon DEF Exit, RequestTimesOut, Kill, signal_handler, dp_graphtrace_monitor_primary, PrimaryGone,
         service, dump, TraceInv, TypeOK
<1> QED
  BY <1>1, Zenon DEF TraceInv, TypeOK, Phases, RingNeverFull, CopiesInv, StartedInv

\* The invariant is inductive.
LEMMA NextInv == TraceInv /\ [Next]_vars => TraceInv'
<1>1. TraceInv /\ UNCHANGED vars => TraceInv'
  BY DEF TraceInv, TypeOK, RingNeverFull, CopiesInv, StartedInv, vars, service, dump
<1> QED
  BY <1>1, NextBurstInv, CopyInv, SendInv, HandleStartInv, HandleStopInv, BeginInv, ReadInv, StopInv, EndInv, Zenon
  DEF Next, Client

\* The invariant holds throughout.
LEMMA TraceInvariant == Spec => []TraceInv
  BY InitInv, NextInv, PTL DEF Spec

-----------------------------------------------------------------------------
\* Main results.

\* The worker never finds the trace ring full, however many copies clients have
\* left in it or taken with them (_dp_graphtrace_send).
THEOREM TraceRingSuffices == Spec => []RingNeverFull
<1>1. TraceInv => RingNeverFull
  BY Zenon DEF TraceInv
<1> QED
  BY <1>1, TraceInvariant, PTL

\* A client of dpservice-dump shows only packets traced since its own request
\* was served (dp_graphtrace_dump).
THEOREM TraceOfOwnRequest == Spec => []OnlyOwnPackets
<1>1. TraceInv => OnlyOwnPackets
  BY Zenon DEF TraceInv, StartedInv, OnlyOwnPackets
<1> QED
  BY <1>1, TraceInvariant, PTL
=============================================================================
