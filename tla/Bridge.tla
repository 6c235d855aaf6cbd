------------------------------ MODULE Bridge ------------------------------
(***************************************************************************)
(* RobinhoodMCPBridge (live_broker/rh_transport.py): the main thread calls *)
(* the broker through coroutines on a loop in another thread, which share  *)
(* one session, rebuild it when it breaks, and try again.  The caller      *)
(* waits for its coroutine for a limited time; a coroutine whose caller    *)
(* has given up goes on.                                                   *)
(*                                                                         *)
(* Steps of coroutines are what happens between two awaits.  Coroutine 0   *)
(* is the warm-up of __enter__; coroutine c is the c-th call, and every    *)
(* call is an order with a reference of its own, which the broker takes    *)
(* once however often it is sent.  Time only passes in awaits, and each    *)
(* of them lasts from no time to the longest its constant allows.          *)
(***************************************************************************)
EXTENDS Integers, FiniteSets

CONSTANTS
    MaxCall,      \* bound: calls of a process
    Retries,      \* retries
    ThrottleMax,  \* throttled replies after which a call gives up
    CallTimeout,  \* call_timeout
    Slack,        \* seconds added to the caller's patience
    Backoff,      \* longest pause between two attempts
    ConnectTime,  \* longest time to set up a session
    CallTime,     \* longest time the server takes for a call
    Throttle      \* longest wait a throttling server asks for, 0: it never does

ASSUME BridgeAssumption ==
    /\ MaxCall \in Nat \ {0} /\ Retries \in Nat \ {0} /\ ThrottleMax \in Nat \ {0}
    /\ CallTimeout \in Nat /\ Slack \in Nat /\ Backoff \in Nat
    /\ ConnectTime \in 0 .. CallTimeout /\ CallTime \in Nat /\ Throttle \in Nat

VARIABLES
    main,     \* the main thread: wait, idle, exit, left
    last,     \* the coroutine it started last
    elapsed,  \* how long it has waited for it
    co,       \* the coroutines: where, attempts, throttled replies, session
    cur,      \* self._session and self._stack, 0 for None
    made,     \* sessions set up so far; they are numbered
    open,     \* those that are open
    placed,   \* calls whose order is at the broker
    answer,   \* what each call returned
    sends     \* how often each call was sent

vars == <<main, last, elapsed, co, cur, made, open, placed, answer, sends>>

-----------------------------------------------------------------------------
Calls == 1 .. MaxCall

NotStarted == [at |-> "off", conn |-> 0, thr |-> 0, ses |-> 0]

Places == {"off", "connect", "call", "served", "close", "sleep", "throttled", "done"}

TypeOK ==
    /\ main \in {"wait", "idle", "exit", "left"}
    /\ last \in 0 .. MaxCall
    /\ elapsed \in Nat
    /\ co \in [0 .. MaxCall ->
               [at : Places, conn : 0 .. Retries, thr : 0 .. ThrottleMax, ses : 0 .. made]]
    /\ cur \in 0 .. made /\ made \in Nat
    /\ open \subseteq 1 .. made
    /\ placed \subseteq Calls
    /\ answer \in [Calls -> {"none", "ok", "error"}]
    /\ sends \in [Calls -> 0 .. Retries + ThrottleMax]

\* __enter__ waits for the warm-up.
Init ==
    /\ main = "wait"
    /\ last = 0
    /\ elapsed = 0
    /\ co = [c \in 0 .. MaxCall |->
                IF c = 0 THEN [NotStarted EXCEPT !.at = "connect"] ELSE NotStarted]
    /\ cur = 0
    /\ made = 0
    /\ open = {}
    /\ placed = {}
    /\ answer = [c \in Calls |-> "none"]
    /\ sends = [c \in Calls |-> 0]

\* Mutant: the patience of a call leaves out one attempt.
PatienceShort(c) ==
    IF c = 0 THEN 2 * CallTimeout ELSE CallTimeout * Retries + Slack

\* How long the main thread waits for a coroutine.
Patience(c) ==
    IF c = 0 THEN 2 * CallTimeout ELSE CallTimeout * (Retries + 1) + Slack

Awaited(c) == main = "wait" /\ last = c

-----------------------------------------------------------------------------
(***************************************************************************)
(* The coroutines.                                                         *)
(***************************************************************************)

\* An await of coroutine c ends after d seconds, while its caller is patient.
Takes(c, longest) ==
    IF Awaited(c)
    THEN \E d \in 0 .. longest : elapsed + d <= Patience(c) /\ elapsed' = elapsed + d
    ELSE UNCHANGED elapsed

\* The history counts no further than one more than a call may send.
Sent(n) == IF n < Retries + ThrottleMax THEN n + 1 ELSE n

\* The coroutine goes on to another await, or returns with a result.
Goes(c, next, result) ==
    /\ co' = [co EXCEPT ![c] = next]
    /\ IF next.at = "done" /\ Awaited(c)
       THEN /\ main' = "idle"
            /\ answer' = IF c = 0 THEN answer ELSE [answer EXCEPT ![c] = result]
       ELSE UNCHANGED <<main, answer>>
    /\ sends' = IF next.at = "call" THEN [sends EXCEPT ![c] = Sent(@)] ELSE sends
    /\ UNCHANGED last

\* Mutant: the counters are compared off by one.
LoopLate(c, conn, thr) ==
    LET here == [at |-> "done", conn |-> conn, thr |-> thr, ses |-> 0]
    IN  IF conn > Retries \/ thr > ThrottleMax THEN here
        ELSE IF c = 0 \/ cur = 0 THEN [here EXCEPT !.at = "connect"]
        ELSE [here EXCEPT !.at = "call", !.ses = cur]

\* The head of the loop.  The warm-up connects whatever there is.
Loop(c, conn, thr) ==
    LET here == [at |-> "done", conn |-> conn, thr |-> thr, ses |-> 0]
    IN  IF conn = Retries \/ thr = ThrottleMax THEN here
        ELSE IF c = 0 \/ cur = 0 THEN [here EXCEPT !.at = "connect"]
        ELSE [here EXCEPT !.at = "call", !.ses = cur]

\* The pause before the next attempt; a call does not pause after its last.
Again(c) ==
    LET next == [co[c] EXCEPT !.at = "sleep", !.conn = @ + 1, !.ses = 0]
    IN  IF c # 0 /\ next.conn = Retries THEN [next EXCEPT !.at = "done"] ELSE next

ConnectOk(c) ==
    /\ co[c].at = "connect"
    /\ Takes(c, ConnectTime)
    /\ made' = made + 1
    /\ cur' = made + 1
    /\ open' = open \cup {made + 1}
    /\ IF c = 0 THEN Goes(c, [co[c] EXCEPT !.at = "done"], "ok")
                ELSE Goes(c, [co[c] EXCEPT !.at = "call", !.ses = made + 1], "none")
    /\ UNCHANGED placed

\* _connect closes what it has set up and forgets the session, whose ever it is.
ConnectFails(c) ==
    /\ co[c].at = "connect"
    /\ Takes(c, ConnectTime)
    /\ cur' = 0
    /\ Goes(c, Again(c), "error")
    /\ UNCHANGED <<made, open, placed>>

\* The broker takes the order, once per reference.
Serve(c) ==
    /\ co[c].at = "call" /\ co[c].ses \in open
    /\ placed' = placed \cup {c}
    /\ co' = [co EXCEPT ![c].at = "served"]
    /\ UNCHANGED <<main, last, elapsed, cur, made, open, answer, sends>>

Answers(c) ==
    /\ co[c].at = "served"
    /\ Takes(c, CallTime)
    /\ Goes(c, [co[c] EXCEPT !.at = "done"], "ok")
    /\ UNCHANGED <<cur, made, open, placed>>

\* API error 4xx: the order is not taken, and not sent again.
Refuses(c) ==
    /\ co[c].at = "call" /\ co[c].ses \in open
    /\ Takes(c, CallTime)
    /\ Goes(c, [co[c] EXCEPT !.at = "done"], "error")
    /\ UNCHANGED <<cur, made, open, placed>>

\* Mutant: throttled replies are not counted.
ThrottlesFree(c) ==
    /\ Throttle > 0
    /\ \/ co[c].at = "call" /\ co[c].ses \in open /\ Takes(c, CallTime) /\ UNCHANGED cur
       \/ co[c].at = "connect" /\ c # 0 /\ Takes(c, ConnectTime) /\ cur' = 0
    /\ Goes(c, [co[c] EXCEPT !.at = "throttled"], "none")
    /\ UNCHANGED <<made, open, placed>>

\* A 429, for the call or already for the connection, which _connect has closed
\* and forgotten by then; the warm-up takes it for any other failure.
Throttles(c) ==
    /\ Throttle > 0
    /\ \/ co[c].at = "call" /\ co[c].ses \in open /\ Takes(c, CallTime) /\ UNCHANGED cur
       \/ co[c].at = "connect" /\ c # 0 /\ Takes(c, ConnectTime) /\ cur' = 0
    /\ Goes(c, [co[c] EXCEPT !.at = "throttled", !.thr = @ + 1], "none")
    /\ UNCHANGED <<made, open, placed>>

\* The connection breaks, before or after the server has acted on the call.
Breaks(c) ==
    /\ co[c].at \in {"call", "served"}
    /\ Takes(c, CallTime)
    /\ Goes(c, IF cur = 0 THEN Again(c) ELSE [co[c] EXCEPT !.at = "close", !.ses = cur],
            "error")
    /\ UNCHANGED <<cur, made, open, placed>>

\* Mutant: the old session is dropped without being closed.
ClosedNothing(s) == {}

Closed(s) == {s}

\* _teardown: closing is an await, and what it forgets is the session there
\* is by then.
Close(c) ==
    /\ co[c].at = "close"
    /\ open' = open \ Closed(co[c].ses)
    /\ cur' = 0
    /\ Goes(c, Again(c), "error")
    /\ UNCHANGED <<elapsed, made, placed>>

Wake(c) ==
    /\ \/ co[c].at = "sleep" /\ Takes(c, Backoff)
       \/ co[c].at = "throttled" /\ Takes(c, Throttle)
    /\ Goes(c, Loop(c, co[c].conn, co[c].thr), "error")
    /\ UNCHANGED <<cur, made, open, placed>>

Coroutine(c) ==
    \/ ConnectOk(c) \/ ConnectFails(c)
    \/ Serve(c) \/ Answers(c) \/ Refuses(c) \/ Throttles(c) \/ Breaks(c)
    \/ Close(c) \/ Wake(c)

-----------------------------------------------------------------------------
(***************************************************************************)
(* The main thread.                                                        *)
(***************************************************************************)

Call ==
    /\ main = "idle" /\ last < MaxCall
    /\ main' = "wait"
    /\ last' = last + 1
    /\ elapsed' = 0
    /\ LET next == Loop(last + 1, 0, 0)
       IN  /\ co' = [co EXCEPT ![last + 1] = next]
           /\ sends' = IF next.at = "call" THEN [sends EXCEPT ![last + 1] = 1] ELSE sends
    /\ UNCHANGED <<cur, made, open, placed, answer>>

\* How long the await coroutine c is in may last.
Longest(c) ==
    CASE co[c].at = "connect" -> ConnectTime
      [] co[c].at \in {"call", "served"} -> CallTime
      [] co[c].at = "sleep" -> Backoff
      [] co[c].at = "throttled" -> Throttle
      [] OTHER -> 0

\* fut.result(timeout=...) raises, and nobody tells the coroutine.
TimesOut ==
    /\ main = "wait"
    /\ elapsed + Longest(last) > Patience(last)
    /\ main' = "idle"
    /\ answer' = IF last = 0 THEN answer ELSE [answer EXCEPT ![last] = "error"]
    /\ UNCHANGED <<last, elapsed, co, cur, made, open, placed, sends>>

\* __exit__: the session is torn down on the loop, ...
Exit ==
    /\ main = "idle"
    /\ main' = "exit"
    /\ open' = open \ Closed(cur)
    /\ cur' = 0
    /\ UNCHANGED <<last, elapsed, co, made, placed, answer, sends>>

\* A coroutine that is cancelled takes it for a broken connection, unless it
\* is in a pause.
Cancelled(c) ==
    CASE co[c].at \in {"off", "done", "close"} -> co[c]
      [] co[c].at \in {"sleep", "throttled"} -> [co[c] EXCEPT !.at = "done"]
      [] co[c].at \in {"call", "served"} /\ c # 0 /\ cur # 0 ->
             [co[c] EXCEPT !.at = "close", !.ses = cur]
      [] OTHER -> Again(c)

\* ... the loop is stopped, and what is left on it cancelled.
Leave ==
    /\ main = "exit"
    /\ main' = "left"
    /\ co' = [c \in 0 .. MaxCall |-> Cancelled(c)]
    /\ cur' = IF \E c \in 0 .. MaxCall : co[c].at = "connect" THEN 0 ELSE cur
    /\ UNCHANGED <<last, elapsed, made, open, placed, answer, sends>>

Main == Call \/ TimesOut \/ Exit \/ Leave

Next == Main \/ \E c \in 0 .. MaxCall : Coroutine(c)

Spec == Init /\ [][Next]_vars

\* The loop runs its coroutines, and the main thread's waits have timeouts.
FairSpec ==
    /\ Spec
    /\ WF_vars(TimesOut)
    /\ \A c \in 0 .. MaxCall : WF_vars(Coroutine(c))

-----------------------------------------------------------------------------
(***************************************************************************)
(* Properties.                                                             *)
(***************************************************************************)

\* No call has been told to wait: the server never asks the bridge to slow
\* down.  What it asks for is not part of the caller's patience, so a caller
\* may give up on a call that goes on.
Unthrottled == \A c \in Calls : co[c].thr = 0

\* "Keeps ONE warm session": no second one is ever open beside it.
OneSession == Unthrottled => Cardinality(open) <= 1

\* "... for the life of the with block": nothing is open after it.
ClosedAfterExit == Unthrottled /\ main = "left" => open = {}

\* The timeout covers the retries and their pauses: a call whose caller has
\* its answer has ended, unless that call was throttled.
CallerNotOrphaned ==
    \A c \in Calls : answer[c] # "none" /\ co[c].thr = 0 => co[c].at = "done"

\* A call does not send its order without end, whatever the server does.
SendsBounded == \A c \in Calls : sends[c] <= Retries + ThrottleMax - 1

\* Every call returns to the main thread.
CallReturns == \A c \in Calls : last = c ~> answer[c] # "none"

\* What the executor takes for granted holds of the bridge; only the order of
\* a call that was throttled may reach the broker behind its caller's back.
Promised == INSTANCE OrderCall WITH
                waiting <- main = "wait" /\ last > 0,
                late <- {c \in Calls : answer[c] = "error" /\ co[c].thr > 0}

OrderCallSpec == Promised!Spec
=============================================================================
