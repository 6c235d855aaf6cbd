---------------------------- MODULE OrderCall ----------------------------
(***************************************************************************)
(* What the executor takes for granted about one call of the broker        *)
(* (RealRobinhoodClient._call_mcp): calls come one after the other; an     *)
(* order reaches the account at most once, and only while its caller       *)
(* waits, unless the caller gave up on a server that kept it waiting; an   *)
(* answer is proof that it did, an exception proves nothing.               *)
(***************************************************************************)
EXTENDS Naturals

CONSTANT MaxCall     \* bound: calls of a process

VARIABLES
    last,     \* the number of calls made so far
    waiting,  \* the last one has not returned
    placed,   \* calls whose order is at the broker
    answer,   \* what each call returned
    late      \* calls whose caller gave up on a throttling server

vars == <<last, waiting, placed, answer, late>>

Init ==
    /\ last = 0
    /\ waiting = FALSE
    /\ placed = {}
    /\ answer = [c \in 1 .. MaxCall |-> "none"]
    /\ late = {}

Call ==
    /\ ~ waiting /\ last < MaxCall
    /\ last' = last + 1
    /\ waiting' = TRUE
    /\ UNCHANGED <<placed, answer, late>>

Place ==
    /\ \E c \in late \cup (IF waiting THEN {last} ELSE {}) : placed' = placed \cup {c}
    /\ UNCHANGED <<last, waiting, answer, late>>

Return(result) ==
    /\ waiting
    /\ result = "ok" => last \in placed
    /\ answer' = [answer EXCEPT ![last] = result]
    /\ waiting' = FALSE
    /\ late' \in {late} \cup (IF result = "error" THEN {late \cup {last}} ELSE {})
    /\ UNCHANGED <<last, placed>>

Next == Call \/ Place \/ \E result \in {"ok", "error"} : Return(result)

Spec == Init /\ [][Next]_vars
=============================================================================
