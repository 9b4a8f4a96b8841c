----------------------------- MODULE RpcService -----------------------------
(***************************************************************************)
(* What the gRPC service of dpservice promises its clients: a call is      *)
(* executed at most once, at one point between its request and its answer, *)
(* and the answer reports that execution.  A call may be refused, and is   *)
(* then never executed.                                                    *)
(*                                                                         *)
(* One exception is part of the promise as it is kept: a list that did not *)
(* fit the worker's replies is cut short and may be reported as complete.  *)
(***************************************************************************)
CONSTANTS
    Calls,       \* the calls clients make
    Results,     \* what an execution may result in: [err : _, items : _]
    Ok,          \* the error code of success
    CutShort,    \* the error code of a list that did not fit
    None

VARIABLES
    phase,       \* of each call: "idle", "issued", "executed", "answered" or "refused"
    result,      \* of each call: what its execution resulted in, or None
    answer       \* of each call: what the client was told, or None

vars == <<phase, result, answer>>

Init ==
    /\ phase = [c \in Calls |-> "idle"]
    /\ result = [c \in Calls |-> None]
    /\ answer = [c \in Calls |-> None]

\* an answer carries items or an error, never both
Report(r) == IF r.err = Ok THEN r ELSE [err |-> r.err, items |-> {}]

Issue(c) ==
    /\ phase[c] = "idle"
    /\ phase' = [phase EXCEPT ![c] = "issued"]
    /\ UNCHANGED <<result, answer>>

Execute(c) ==
    /\ phase[c] = "issued"
    /\ phase' = [phase EXCEPT ![c] = "executed"]
    /\ \E r \in Results : result' = [result EXCEPT ![c] = r]
    /\ UNCHANGED answer

Answer(c) ==
    /\ phase[c] = "executed"
    /\ phase' = [phase EXCEPT ![c] = "answered"]
    /\ \E a \in Results :
          /\ a = Report(result[c]) \/ result[c].err = CutShort
          /\ answer' = [answer EXCEPT ![c] = a]
    /\ UNCHANGED result

Refuse(c) ==
    /\ phase[c] = "issued"
    /\ phase' = [phase EXCEPT ![c] = "refused"]
    /\ UNCHANGED <<result, answer>>

Next == \E c \in Calls : Issue(c) \/ Execute(c) \/ Answer(c) \/ Refuse(c)

Spec == Init /\ [][Next]_vars
=============================================================================
