---------------------------- MODULE CaptureProofs ----------------------------
(***************************************************************************)
(* Proofs about Capture, for any number of virtual functions, sinks and     *)
(* interfaces of a request, whatever the driver refuses: an active capture  *)
(* is in place on the interfaces it was started for.                        *)
(***************************************************************************)
EXTENDS Capture, WellFoundedInduction, TLAPS

\* What CaptureInPlace says of port p in state q, captured for the sink to.
InPlace(q, p, to) ==
    /\ q.allocated /\ q.captured
    /\ p # Pf => q.default_jump_flow = [to |-> "CAPTURE", live |-> TRUE]
    /\ q.default_capture_flow = [sink |-> to, live |-> TRUE]

CaptureInv == TypeOK /\ CaptureInPlace

-----------------------------------------------------------------------------
\* Operators.

\* A set of natural numbers that has an element has a least one.
LEMMA LeastNumber ==
    ASSUME NEW S \in SUBSET Nat, S # {}
    PROVE  \E x \in S : \A y \in S : x <= y
<1> DEFINE R == OpToRel(<, Nat)
<1>1. IsWellFoundedOn(R, Nat)
  BY NatLessThanWellFounded, Zenon
<1>2. \A x, y \in Nat : x < y => <<x, y>> \in R
  BY Zenon DEF OpToRel
<1> HIDE DEF R
<1>3. PICK x \in S : \A y \in S : ~(<<y, x>> \in R)
  BY <1>1, WFMin, Zenon
<1>4. ASSUME NEW y \in S PROVE x <= y
  <2>1. x \in Nat /\ y \in Nat
    BY Zenon
  <2>2. ~(y < x)
    BY <2>1, <1>2, <1>3, Zenon
  <2> QED
    BY <2>1, <2>2
<1> QED
  BY <1>4, Zenon

\* Writing a field of a port's state leaves the others: a flag,
LEMMA FlagWritten ==
    ASSUME NEW q \in PortStates, NEW x \in BOOLEAN
    PROVE  [q EXCEPT !.allocated = x] \in PortStates /\ [q EXCEPT !.known = x] \in PortStates
  BY Zenon DEF PortStates

\* the mark of being captured,
LEMMA MarkWritten ==
    ASSUME NEW q \in PortStates, NEW x \in BOOLEAN
    PROVE  LET r == [q EXCEPT !.captured = x]
           IN  /\ r \in PortStates /\ r.allocated = q.allocated /\ r.captured = x
               /\ r.default_jump_flow = q.default_jump_flow
               /\ r.default_capture_flow = q.default_capture_flow
  BY Zenon DEF PortStates

\* the jump rule
LEMMA JumpWritten ==
    ASSUME NEW q \in PortStates, NEW x \in Handles \cup {None}
    PROVE  LET r == [q EXCEPT !.default_jump_flow = x]
           IN  /\ r \in PortStates /\ r.allocated = q.allocated /\ r.default_jump_flow = x
               /\ r.default_capture_flow = q.default_capture_flow
  BY Zenon DEF PortStates

\* and the copying rule.
LEMMA CopyWritten ==
    ASSUME NEW q \in PortStates, NEW x \in Samples \cup {None}
    PROVE  LET r == [q EXCEPT !.default_capture_flow = x]
           IN  /\ r \in PortStates /\ r.allocated = q.allocated /\ r.default_capture_flow = x
               /\ r.default_jump_flow = q.default_jump_flow
  BY Zenon DEF PortStates

\* A destroyed rule leaves a handle or none.
LEMMA DestroyedTyped ==
    /\ \A h \in Handles \cup {None} : Destroyed(h) \in Handles \cup {None}
    /\ \A h \in Samples \cup {None} : Destroyed(h) \in Samples \cup {None}
<1>1. ASSUME NEW h \in Handles PROVE [h EXCEPT !.live = FALSE] \in Handles
  BY Zenon DEF Handles
<1>2. ASSUME NEW h \in Samples PROVE [h EXCEPT !.live = FALSE] \in Samples
  BY Zenon DEF Samples
<1> QED
  BY <1>1, <1>2, Zenon DEF Destroyed

\* dp_destroy_default_flow touches the two handles only.
LEMMA DestroyTyped ==
    ASSUME NEW q \in PortStates, NEW f
    PROVE  dp_destroy_default_flow(q, f) \in PortStates /\ dp_destroy_default_flow(q, f).allocated = q.allocated
<1> DEFINE b == dp_destroy_default_flow(q, f)
           j == Destroyed(q.default_jump_flow)
           d == Destroyed(q.default_capture_flow)
           one == [q EXCEPT !.default_jump_flow = j]
           both == [one EXCEPT !.default_capture_flow = d]
<1>1. j \in Handles \cup {None} /\ d \in Samples \cup {None}
  BY DestroyedTyped, Zenon DEF PortStates
<1>2. b = q \/ b = one \/ b = [q EXCEPT !.default_jump_flow = j, !.default_capture_flow = d]
  BY Zenon DEF dp_destroy_default_flow
<1>3. [q EXCEPT !.default_jump_flow = j, !.default_capture_flow = d] = both
  BY Zenon DEF PortStates
<1> HIDE DEF j, d, b
<1>4. one \in PortStates /\ one.allocated = q.allocated
  BY <1>1, JumpWritten, Zenon
<1> HIDE DEF one
<1>5. both \in PortStates /\ both.allocated = one.allocated
  BY <1>1, <1>4, CopyWritten, Zenon
<1> QED
  BY <1>2, <1>3, <1>4, <1>5, Zenon DEF b

\* The rule to a group replaces the jump rule,
LEMMA JumpInstalled ==
    ASSUME NEW q \in PortStates, NEW g \in {"VNET", "CAPTURE"}, NEW r,
           r = dp_install_jump_rule_in_default_group(q, g)
    PROVE  r \in PortStates /\ r.allocated = q.allocated /\ r.default_jump_flow = [to |-> g, live |-> TRUE]
<1> DEFINE h == [to |-> g, live |-> TRUE]
<1>1. h \in Handles \cup {None}
  BY Zenon DEF Handles
<1>2. r = [q EXCEPT !.default_jump_flow = h]
  BY Zenon DEF dp_install_jump_rule_in_default_group
<1> HIDE DEF h
<1> DEFINE e == [q EXCEPT !.default_jump_flow = h]
<1>3. e \in PortStates /\ e.allocated = q.allocated /\ e.default_jump_flow = h
  BY <1>1, JumpWritten, Zenon
<1> QED
  BY <1>2, <1>3, Zenon DEF h

\* and with the copying rule to the sink a port is captured.
LEMMA CopyInstalled ==
    ASSUME NEW q \in PortStates, q.allocated, sink' \in Sinks, NEW p,
           p # Pf => q.default_jump_flow = [to |-> "CAPTURE", live |-> TRUE],
           NEW r, r = [dp_install_default_rule_in_capture_group(q) EXCEPT !.captured = TRUE]
    PROVE  r \in PortStates /\ InPlace(r, p, sink')
<1> DEFINE h == [sink |-> sink', live |-> TRUE]
           c == [q EXCEPT !.default_capture_flow = h]
<1>1. h \in Samples \cup {None} /\ TRUE \in BOOLEAN
  BY Zenon DEF Samples
<1>2. r = [c EXCEPT !.captured = TRUE]
  BY Zenon DEF dp_install_default_rule_in_capture_group
<1> HIDE DEF h
<1>3. /\ c \in PortStates /\ c.allocated = q.allocated /\ c.default_capture_flow = h
      /\ c.default_jump_flow = q.default_jump_flow
  BY <1>1, CopyWritten, Zenon
<1> HIDE DEF c
<1> DEFINE e == [c EXCEPT !.captured = TRUE]
<1>4. /\ e \in PortStates /\ e.allocated = c.allocated /\ e.captured = TRUE
      /\ e.default_jump_flow = c.default_jump_flow /\ e.default_capture_flow = c.default_capture_flow
  BY <1>1, <1>3, MarkWritten, Zenon
<1> QED
  BY <1>2, <1>3, <1>4, Zenon DEF InPlace, h

\* dp_enable_pkt_capture leaves a port's state whatever is refused, and a
\* capturing one when nothing is.
LEMMA EnableTyped ==
    ASSUME NEW p, NEW q \in PortStates, NEW f, sink' \in Sinks, NEW r, r = dp_enable_pkt_capture(p, q, f)
    PROVE  r \in PortStates /\ (~EnableFails(q, f) => InPlace(r, p, sink'))
<1> DEFINE bare == dp_destroy_default_flow(q, f)
           there == dp_install_jump_rule_in_default_group(bare, "CAPTURE")
           jumped == IF p = Pf THEN bare ELSE there
           vnet == dp_install_jump_rule_in_default_group(bare, "VNET")
           undone == dp_destroy_default_flow(jumped, "none")
           full == [dp_install_default_rule_in_capture_group(jumped) EXCEPT !.captured = TRUE]
<1>1. /\ r = q \/ r = bare \/ r = vnet \/ r = jumped \/ r = undone \/ (r = full /\ q.allocated)
      /\ ~EnableFails(q, f) => r = full /\ q.allocated
  BY Zenon DEF dp_enable_pkt_capture, EnableFails
<1>2. bare \in PortStates /\ bare.allocated = q.allocated
  BY DestroyTyped, Zenon
<1> HIDE DEF bare
<1>3. "VNET" \in {"VNET", "CAPTURE"} /\ "CAPTURE" \in {"VNET", "CAPTURE"}
  BY Zenon
<1>4. vnet \in PortStates
  BY <1>2, <1>3, JumpInstalled, Zenon
<1>5. /\ there \in PortStates /\ there.allocated = q.allocated
      /\ there.default_jump_flow = [to |-> "CAPTURE", live |-> TRUE]
  BY <1>2, <1>3, JumpInstalled, Zenon
<1> HIDE DEF there, vnet
<1>6. /\ jumped \in PortStates /\ jumped.allocated = q.allocated
      /\ p # Pf => jumped.default_jump_flow = [to |-> "CAPTURE", live |-> TRUE]
  BY <1>2, <1>5, Zenon
<1> HIDE DEF jumped
<1>7. undone \in PortStates
  BY <1>6, DestroyTyped, Zenon
<1>8. ASSUME q.allocated PROVE full \in PortStates /\ InPlace(full, p, sink')
  BY <1>6, <1>8, CopyInstalled, Zenon
<1> HIDE DEF undone, full
<1> QED
  BY <1>1, <1>2, <1>4, <1>6, <1>7, <1>8, Zenon

-----------------------------------------------------------------------------
\* The loop of dp_process_capture_start.

Progress == [s : [Ports -> PortStates], ok : BOOLEAN]

\* The interfaces T are captured, unless one has failed.
Done(t, T) == t.ok => \A x \in T : x \in Ports /\ InPlace(t.s[x], x, sink')

\* One more interface is captured, and those before it still are: an interface
\* that is named twice fails.
LEMMA OneMore ==
    ASSUME NEW t \in Progress, NEW T, Done(t, T), NEW p \in Ports \cup {None}, NEW f, sink' \in Sinks,
           NEW u, u = EnableNext(t, p, f)
    PROVE  u \in Progress /\ Done(u, T \cup {p})
<1>1. t.s \in [Ports -> PortStates] /\ t.ok \in BOOLEAN /\ t = [s |-> t.s, ok |-> t.ok]
  BY Zenon DEF Progress
<1>2. CASE ~t.ok
  <2>1. u = t
    BY <1>2, Zenon DEF EnableNext
  <2> QED
    BY <1>2, <2>1, Zenon DEF Done
<1>3. CASE t.ok /\ ~Known(t.s, p)
  <2>1. u = [t EXCEPT !.ok = FALSE]
    BY <1>3, Zenon DEF EnableNext
  <2>2. u = [s |-> t.s, ok |-> FALSE]
    BY <1>1, <2>1, Zenon
  <2>3. u \in Progress /\ ~u.ok
    BY <1>1, <2>2 DEF Progress
  <2> QED
    BY <2>3, Zenon DEF Done
<1>4. CASE t.ok /\ Known(t.s, p)
  <2> DEFINE q == t.s[p]
             r == dp_enable_pkt_capture(p, q, f)
             ports == [t.s EXCEPT ![p] = r]
  <2>1. u = [s |-> ports, ok |-> ~EnableFails(q, f)]
    BY <1>4, Zenon DEF EnableNext
  <2>2. p \in Ports /\ q \in PortStates
    BY <1>1, <1>4, Zenon DEF Known
  <2>3. r = dp_enable_pkt_capture(p, q, f)
    BY Zenon
  <2>4. EnableFails(q, f) \in BOOLEAN
    BY Zenon DEF EnableFails
  <2> HIDE DEF q, r
  <2>5. r \in PortStates /\ (~EnableFails(q, f) => InPlace(r, p, sink'))
    BY <2>2, <2>3, EnableTyped, Zenon
  <2>6. /\ ports \in [Ports -> PortStates] /\ ports[p] = r
        /\ \A x \in Ports \ {p} : ports[x] = t.s[x]
    BY <1>1, <2>2, <2>5, Zenon
  <2> HIDE DEF ports
  <2>7. u \in Progress /\ u.s = ports /\ u.ok = ~EnableFails(q, f)
    BY <2>1, <2>4, <2>6 DEF Progress
  <2>8. ASSUME u.ok, NEW x \in T \cup {p} PROVE x \in Ports /\ InPlace(u.s[x], x, sink')
    <3>1. ~EnableFails(q, f)
      BY <2>7, <2>8, Zenon
    <3>2. CASE x = p
      BY <2>2, <2>5, <2>6, <2>7, <3>1, <3>2, Zenon
    <3>3. CASE x # p
      <4>1. x \in Ports /\ InPlace(t.s[x], x, sink')
        BY <1>4, <2>8, <3>3, Zenon DEF Done
      <4>2. u.s[x] = t.s[x]
        BY <2>6, <2>7, <3>3, <4>1, Zenon
      <4> QED
        BY <4>1, <4>2, Zenon
    <3> QED
      BY <3>2, <3>3, Zenon
  <2> QED
    BY <2>7, <2>8, Zenon DEF Done
<1> QED
  BY <1>1, <1>2, <1>3, <1>4, Zenon

\* The loop of a request, as far as its n-th interface.
Loop(targets, bad, f, n, d) ==
    d = [i \in 0..n |-> IF i = 0 THEN [s |-> port, ok |-> TRUE]
                        ELSE EnableNext(d[i - 1], targets[i], IF targets[i] = bad THEN f ELSE "none")]

\* The loop runs to its end.
LEMMA LoopExists ==
    ASSUME NEW targets, NEW bad, NEW f, NEW n \in Nat
    PROVE  \E d : Loop(targets, bad, f, n, d)
<1> DEFINE step(i, t) == EnableNext(t, targets[i], IF targets[i] = bad THEN f ELSE "none")
           first == [s |-> port, ok |-> TRUE]
           Unrolled(m, d) == d = [i \in 0..m |-> IF i = 0 THEN first ELSE step(i, d[i - 1])]
           Bad == {m \in Nat : ~\E d : Loop(targets, bad, f, m, d)}
<1>1. \A m, d : Loop(targets, bad, f, m, d) <=> Unrolled(m, d)
  BY Zenon DEF Loop
<1> HIDE DEF step, first, Unrolled
<1> SUFFICES ASSUME Bad # {} PROVE FALSE
  BY Zenon
<1>2. PICK m \in Bad : \A x \in Bad : m <= x
  BY LeastNumber, Zenon
<1>3. m \in Nat /\ ~\E d : Loop(targets, bad, f, m, d)
  BY <1>2, Zenon
<1>4. CASE m = 0
  <2> DEFINE d == [i \in 0..0 |-> first]
  <2>1. \A i \in 0..0 : i = 0
    OBVIOUS
  <2>2. Unrolled(0, d)
    BY <2>1, Zenon DEF Unrolled
  <2> HIDE DEF d
  <2> QED
    BY <1>1, <1>3, <1>4, <2>2, Zenon
<1>5. CASE m # 0
  <2>1. m - 1 \in Nat /\ ~(m <= m - 1)
    BY <1>3, <1>5
  <2>2. PICK d : Loop(targets, bad, f, m - 1, d)
    BY <1>2, <2>1, Zenon
  <2>3. Unrolled(m - 1, d)
    BY <1>1, <2>2, Zenon
  <2> DEFINE e == [i \in 0..m |-> IF i = m THEN step(m, d[m - 1]) ELSE d[i]]
  <2>4. \A i \in 0..m : i # m => i \in 0..(m - 1)
    BY <1>3
  <2>5. ASSUME NEW i \in 0..m PROVE e[i] = IF i = 0 THEN first ELSE step(i, e[i - 1])
    <3>1. i = 0 \/ (i - 1 \in 0..m /\ i - 1 # m)
      BY <1>3
    <3>2. IF i = 0 THEN TRUE ELSE e[i - 1] = d[i - 1]
      BY <3>1, Zenon
    <3>3. CASE i = m
      BY <1>5, <3>2, <3>3, Zenon
    <3>4. CASE i # m
      <4>1. e[i] = d[i]
        BY <3>4, Zenon
      <4>2. d[i] = IF i = 0 THEN first ELSE step(i, d[i - 1])
        BY <2>3, <2>4, <3>4, Zenon DEF Unrolled
      <4> HIDE DEF e
      <4> QED
        BY <3>2, <4>1, <4>2, Zenon
    <3> QED
      BY <3>3, <3>4, Zenon
  <2>6. e = [i \in 0..m |-> e[i]]
    BY Zenon
  <2> HIDE DEF e
  <2>7. Unrolled(m, e)
    BY <2>5, <2>6, Zenon DEF Unrolled
  <2> QED
    BY <1>1, <1>3, <2>7, Zenon
<1> QED
  BY <1>4, <1>5, Zenon

\* A loop that no interface fails leaves all of them captured.
LEMMA LoopCaptures ==
    ASSUME TypeOK, sink' \in Sinks, NEW n \in Nat, NEW targets \in [1..n -> Ports \cup {None}], NEW bad, NEW f,
           NEW d, Loop(targets, bad, f, n, d)
    PROVE  d[n] \in Progress /\ Done(d[n], Range(targets))
<1> DEFINE Seen(i) == {targets[k] : k \in 1..i}
           Right(i) == d[i] \in Progress /\ Done(d[i], Seen(i))
           Wrong == {i \in 0..n : ~Right(i)}
<1>1. \A i \in 0..n : d[i] = IF i = 0 THEN [s |-> port, ok |-> TRUE]
                             ELSE EnableNext(d[i - 1], targets[i], IF targets[i] = bad THEN f ELSE "none")
  BY Zenon DEF Loop
<1>2. Right(0)
  <2>1. 0 \in 0..n /\ 1..0 = {}
    OBVIOUS
  <2>2. d[0] = [s |-> port, ok |-> TRUE]
    BY <1>1, <2>1, Zenon
  <2>3. port \in [Ports -> PortStates] /\ TRUE \in BOOLEAN
    BY Zenon DEF TypeOK
  <2>4. d[0] \in Progress
    BY <2>2, <2>3 DEF Progress
  <2>5. Seen(0) = {}
    BY <2>1, Zenon
  <2> QED
    BY <2>4, <2>5, Zenon DEF Done
<1>3. ASSUME NEW i \in 0..n, i # 0, Right(i - 1) PROVE Right(i)
  <2> DEFINE g == IF targets[i] = bad THEN f ELSE "none"
  <2>1. i \in 1..n /\ 1..i = (1..(i - 1)) \cup {i}
    BY <1>3
  <2>2. d[i] = EnableNext(d[i - 1], targets[i], g)
    BY <1>1, <1>3, Zenon
  <2>3. targets[i] \in Ports \cup {None}
    BY <2>1, Zenon
  <2>4. Seen(i) = Seen(i - 1) \cup {targets[i]}
    BY <2>1, Zenon
  <2> HIDE DEF g, Seen
  <2>5. d[i] \in Progress /\ Done(d[i], Seen(i - 1) \cup {targets[i]})
    BY <1>3, <2>2, <2>3, OneMore, Zenon
  <2> QED
    BY <2>4, <2>5, Zenon
<1> HIDE DEF Right
<1>4. Wrong = {}
  <2> SUFFICES ASSUME Wrong # {} PROVE FALSE
    BY Zenon
  <2>1. Wrong \in SUBSET Nat
    OBVIOUS
  <2>2. PICK m \in Wrong : \A x \in Wrong : m <= x
    BY <2>1, LeastNumber, Zenon
  <2>3. m \in 0..n /\ ~Right(m)
    BY <2>2, Zenon
  <2>4. m # 0
    BY <1>2, <2>3, Zenon
  <2>5. m - 1 \in 0..n /\ ~(m <= m - 1)
    BY <2>3, <2>4
  <2>6. Right(m - 1)
    BY <2>2, <2>5, Zenon
  <2> QED
    BY <1>3, <2>3, <2>4, <2>6, Zenon
<1>5. Right(n)
  <2>1. n \in 0..n
    OBVIOUS
  <2> QED
    BY <1>4, <2>1, Zenon
<1>6. Range(targets) = Seen(n)
  BY Zenon DEF Range
<1> QED
  BY <1>5, <1>6, Zenon DEF Right

-----------------------------------------------------------------------------
\* Steps.

\* A request to start leaves its interfaces captured when it succeeds.
LEMMA StartCaptures ==
    ASSUME CaptureInv, NEW targets \in CaptureRequests, NEW to \in Sinks, NEW bad, NEW f,
           dp_process_capture_start(targets, to, bad, f)
    PROVE  CaptureInv'
<1> DEFINE n == Len(targets)
           chosen == CHOOSE d : Loop(targets, bad, f, n, d)
           done == chosen[n]
<1>1. n \in Nat /\ targets \in [1..n -> Ports \cup {None}]
  BY DEF CaptureRequests
<1>2. /\ ~enabled /\ sink' = to /\ port' = done.s
      /\ IF done.ok THEN enabled' = TRUE /\ start' = "OK" /\ watched' = Range(targets)
         ELSE enabled' = enabled /\ watched' = watched /\ start' \in {"ROLLBACK", "failed"}
  BY Zenon DEF dp_process_capture_start, NotEnabled, Loop
<1> HIDE DEF n
<1>3. Loop(targets, bad, f, n, chosen)
  BY <1>1, LoopExists, Zenon
<1> HIDE DEF chosen
<1>4. done \in Progress /\ Done(done, Range(targets))
  BY <1>1, <1>2, <1>3, LoopCaptures, Zenon DEF CaptureInv
<1> HIDE DEF done
<1>5. done.s \in [Ports -> PortStates] /\ done.ok \in BOOLEAN
  BY <1>4, Zenon DEF Progress
<1>6. CASE done.ok
  <2>1. \A x \in Range(targets) : x \in Ports /\ InPlace(port'[x], x, sink')
    BY <1>2, <1>4, <1>6, Zenon DEF Done
  <2>2. TypeOK'
    BY <1>2, <1>5, <1>6, <2>1, Zenon DEF TypeOK, CaptureInv
  <2>3. CaptureInPlace'
    BY <1>2, <1>6, <2>1, Zenon DEF CaptureInPlace, InPlace, dp_process_capture_status
  <2> QED
    BY <2>2, <2>3, Zenon DEF CaptureInv
<1>7. CASE ~done.ok
  <2>1. TypeOK'
    BY <1>2, <1>5, <1>7, Zenon DEF TypeOK, CaptureInv
  <2> QED
    BY <1>2, <1>7, <2>1, Zenon DEF CaptureInv, CaptureInPlace
<1> QED
  BY <1>6, <1>7, Zenon

\* An interface that is created was not captured before, and one that is deleted
\* is no longer watched.
LEMMA InterfacesKeep ==
    ASSUME CaptureInv, NEW p \in Vfs, CreateInterface(p) \/ \E f : DeleteInterface(p, f)
    PROVE  CaptureInv'
<1>1. port \in [Ports -> PortStates] /\ p \in Ports /\ port[p] \in PortStates
  BY Zenon DEF CaptureInv, TypeOK, Ports
<1>2. PICK q : port' = [port EXCEPT ![p] = q] /\ q \in PortStates
  <2>1. CASE CreateInterface(p)
    <3> DEFINE j == dp_install_jump_rule_in_default_group(port[p], "VNET")
               a == [j EXCEPT !.allocated = TRUE]
               k == [a EXCEPT !.known = TRUE]
    <3>1. "VNET" \in {"VNET", "CAPTURE"} /\ TRUE \in BOOLEAN
      BY Zenon
    <3>2. j \in PortStates
      BY <1>1, <3>1, JumpInstalled, Zenon
    <3>3. port' = [port EXCEPT ![p] = k]
      BY <2>1, Zenon DEF CreateInterface, dp_start_port
    <3> HIDE DEF j
    <3>4. a \in PortStates
      BY <3>1, <3>2, FlagWritten, Zenon
    <3> HIDE DEF a
    <3>5. k \in PortStates
      BY <3>1, <3>4, FlagWritten, Zenon
    <3> QED
      BY <3>3, <3>5, Zenon
  <2>2. CASE \E f : DeleteInterface(p, f)
    <3>1. PICK f : DeleteInterface(p, f)
      BY <2>2, Zenon
    <3> DEFINE b == dp_destroy_default_flow(port[p], f)
               x == DestroyFails(port[p], f) \/ f = "port"
               a == [b EXCEPT !.allocated = x]
               k == [a EXCEPT !.known = FALSE]
    <3>2. b \in PortStates
      BY <1>1, DestroyTyped, Zenon
    <3>3. x \in BOOLEAN /\ FALSE \in BOOLEAN
      BY Zenon
    <3>4. port' = [port EXCEPT ![p] = k]
      BY <3>1, Zenon DEF DeleteInterface, dp_stop_port
    <3> HIDE DEF b, x
    <3>5. a \in PortStates
      BY <3>2, <3>3, FlagWritten, Zenon
    <3> HIDE DEF a
    <3>6. k \in PortStates
      BY <3>3, <3>5, FlagWritten, Zenon
    <3> QED
      BY <3>4, <3>6, Zenon
  <2> QED
    BY <2>1, <2>2, Zenon
<1>3. port' \in [Ports -> PortStates] /\ \A x \in Ports \ {p} : port'[x] = port[x]
  BY <1>1, <1>2, Zenon
<1>4. /\ enabled' = enabled /\ sink' = sink /\ start' = start
      /\ watched' \subseteq watched /\ (enabled => p \notin watched')
  <2>1. CASE CreateInterface(p)
    <3>1. enabled => p \notin watched
      BY <2>1, Zenon DEF CreateInterface, CaptureInv, CaptureInPlace, dp_process_capture_status
    <3> QED
      BY <2>1, <3>1, Zenon DEF CreateInterface
  <2>2. CASE \E f : DeleteInterface(p, f)
    BY <2>2, Zenon DEF DeleteInterface
  <2> QED
    BY <2>1, <2>2, Zenon
<1>5. TypeOK'
  BY <1>3, <1>4, Zenon DEF CaptureInv, TypeOK
<1>6. ASSUME enabled', NEW x \in watched' PROVE x \in watched /\ x \in Ports /\ port'[x] = port[x] /\ enabled
  BY <1>3, <1>4, <1>6, Zenon DEF CaptureInv, TypeOK
<1>7. CaptureInPlace'
  BY <1>4, <1>6, Zenon DEF CaptureInv, CaptureInPlace, dp_process_capture_status
<1> QED
  BY <1>5, <1>7, Zenon DEF CaptureInv

\* The invariant holds throughout.
LEMMA CaptureInvariant == Spec => []CaptureInv
<1>1. Init => CaptureInv
  <2> SUFFICES ASSUME Init PROVE CaptureInv
    BY Zenon
  <2>1. port \in [Ports -> PortStates]
    BY DEF Init, PortStates
  <2> QED
    BY <2>1, Zenon DEF Init, CaptureInv, TypeOK, CaptureInPlace
<1>2. CaptureInv /\ [Next]_vars => CaptureInv'
  <2> SUFFICES ASSUME CaptureInv, [Next]_vars PROVE CaptureInv'
    BY Zenon
  <2>1. ASSUME dp_process_capture_stop PROVE CaptureInv'
    <3>1. /\ enabled /\ port' = port /\ sink' = sink /\ start' = start
          /\ enabled' = DisableAllFails(port)
          /\ watched' = IF enabled' THEN watched ELSE {}
      BY <2>1, Zenon DEF dp_process_capture_stop
    <3>2. DisableAllFails(port) \in BOOLEAN
      BY Zenon DEF DisableAllFails
    <3>3. TypeOK'
      BY <3>1, <3>2, Zenon DEF CaptureInv, TypeOK
    <3>4. CaptureInPlace'
      BY <3>1, Zenon DEF CaptureInv, CaptureInPlace, dp_process_capture_status
    <3> QED
      BY <3>3, <3>4, Zenon DEF CaptureInv
  <2>2. ASSUME UNCHANGED vars PROVE CaptureInv'
    BY <2>2, Zenon DEF vars, CaptureInv, TypeOK, CaptureInPlace, dp_process_capture_status
  <2> QED
    BY <2>1, <2>2, StartCaptures, InterfacesKeep, Zenon DEF Next
<1> QED
  BY <1>1, <1>2, PTL DEF Spec

-----------------------------------------------------------------------------
\* Main result.

\* For any ports and sinks, any interfaces of a request and any refusal of the
\* driver: an active capture is in place on every interface it was started for
\* and that was not deleted since (dp_process_capture_start,
\* dp_enable_pkt_capture).
THEOREM CapturesInPlace == Spec => []CaptureInPlace
<1>1. CaptureInv => CaptureInPlace
  BY Zenon DEF CaptureInv
<1> QED
  BY <1>1, CaptureInvariant, PTL
=============================================================================
