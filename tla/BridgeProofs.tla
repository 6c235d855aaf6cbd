---------------------------- MODULE BridgeProofs ----------------------------
(***************************************************************************)
(* The properties of Bridge, for any number of calls and retries and any   *)
(* times: how often a call is sent whatever the server does, and, of a     *)
(* server that answers within the caller's patience, that no coroutine is  *)
(* left behind, that there is one session, and that the executor may take  *)
(* OrderCall for granted.                                                  *)
(***************************************************************************)
EXTENDS Bridge, FiniteSetTheorems, TLAPS

-----------------------------------------------------------------------------
(***************************************************************************)
(* The invariants of a coroutine.                                          *)
(***************************************************************************)

Coroutines == 0 .. MaxCall

CoStates(sessions) ==
    [at : Places, conn : 0 .. Retries, thr : 0 .. ThrottleMax, ses : 0 .. sessions]

\* Both counters have room while an attempt goes on; a pause has used up at
\* most one of them.  The warm-up sends nothing.
AttemptOK(c, r) ==
    /\ r.at \in {"connect", "call", "served", "close"} =>
           r.conn < Retries /\ r.thr < ThrottleMax
    /\ r.at = "sleep" => r.thr < ThrottleMax /\ (c # 0 => r.conn < Retries)
    /\ r.at = "throttled" => r.conn < Retries
    /\ c = 0 => r.at \in {"connect", "sleep", "done"}

AttemptInv ==
    /\ \A c \in Coroutines : AttemptOK(c, co[c])
    /\ \A c \in Coroutines : c > last => co[c] = NotStarted

\* A call was sent at most once for every attempt that failed and every
\* throttled reply, and once for the attempt under way.
Tried(r) ==
    r.conn + r.thr + (IF r.at \in {"call", "served", "close", "done"} THEN 1 ELSE 0)

SendsInv ==
    /\ \A c \in Calls : sends[c] <= Tried(co[c])
    /\ \A c \in Calls : c > last => sends[c] = 0
    /\ SendsBounded

-----------------------------------------------------------------------------
(***************************************************************************)
(* The caller's patience.                                                  *)
(***************************************************************************)

\* A call's attempts, each with a new session, and the pauses between them fit
\* the caller's patience.
CallsFit ==
    Retries * (ConnectTime + CallTime) + (Retries - 1) * Backoff
        <= CallTimeout * (Retries + 1) + Slack

\* What failed attempts may take, with the pause after each.
Spent(attempts) == attempts * (ConnectTime + CallTime + Backoff)

\* A caller that was not throttled has waited for what its call has gone through.
PatienceInv ==
    main = "wait" /\ last # 0 /\ co[last].thr = 0 =>
        \/ co[last].at = "connect" /\ elapsed <= Spent(co[last].conn)
        \/ /\ co[last].at \in {"call", "served"}
           /\ elapsed <= Spent(co[last].conn) + ConnectTime
        \/ /\ co[last].at = "close"
           /\ elapsed <= Spent(co[last].conn) + ConnectTime + CallTime
        \/ co[last].at = "sleep" /\ elapsed + Backoff <= Spent(co[last].conn)

\* The call that the main thread waits for is the one without an answer.  A
\* call that returns what the server said has ended; so has one that nobody
\* waits for any more, unless it was throttled.
CallInv ==
    /\ \A c \in Calls : answer[c] = "none" <=> (c > last \/ (c = last /\ main = "wait"))
    /\ \A c \in Calls : answer[c] = "ok" => co[c].at = "done" /\ c \in placed
    /\ \A c \in Calls : co[c].at = "served" => c \in placed
    /\ CallerNotOrphaned

\* The attempts of the warm-up and their pauses fit the patience of __enter__.
WarmUpFits == Retries * (ConnectTime + Backoff) <= 2 * CallTimeout

\* The warm-up is done before the first call, and finds no session.
WarmUpInv ==
    IF main = "wait" /\ last = 0
    THEN \/ /\ co[0].at = "connect"
            /\ elapsed <= co[0].conn * (ConnectTime + Backoff)
         \/ /\ co[0].at = "sleep"
            /\ elapsed + Backoff <= co[0].conn * (ConnectTime + Backoff)
    ELSE co[0].at = "done"

\* What is open is the session there is; whoever connects found none, whoever
\* closes closes that one, and from __exit__ on there is none.
SessionInv ==
    Unthrottled =>
        /\ open \subseteq {cur}
        /\ main = "wait" /\ (last = 0 \/ co[last].at = "connect") => cur = 0
        /\ main = "wait" /\ co[last].at = "close" => co[last].ses = cur
        /\ main \in {"exit", "left"} => cur = 0

-----------------------------------------------------------------------------
(***************************************************************************)
(* Where a coroutine goes.                                                 *)
(***************************************************************************)

\* The constants are numbers.
LEMMA ConstantsFact ==
    /\ MaxCall \in Nat \ {0} /\ Retries \in Nat \ {0} /\ ThrottleMax \in Nat \ {0}
    /\ CallTimeout \in Nat /\ Slack \in Nat /\ Backoff \in Nat
    /\ ConnectTime \in Nat /\ CallTime \in Nat /\ Throttle \in Nat
BY BridgeAssumption

\* The head of the loop leads on to an attempt, or out when a counter is at its end.
LEMMA LoopFact ==
    ASSUME TypeOK, NEW c \in Coroutines, NEW conn \in 0 .. Retries,
           NEW thr \in 0 .. ThrottleMax
    PROVE  /\ Loop(c, conn, thr) \in CoStates(made)
           /\ AttemptOK(c, Loop(c, conn, thr))
           /\ Loop(c, conn, thr).conn = conn /\ Loop(c, conn, thr).thr = thr
           /\ \/ /\ Loop(c, conn, thr).at = "done"
                 /\ conn = Retries \/ thr = ThrottleMax
              \/ /\ conn < Retries /\ thr < ThrottleMax
                 /\ \/ Loop(c, conn, thr).at = "connect" /\ (c = 0 \/ cur = 0)
                    \/ /\ Loop(c, conn, thr).at = "call" /\ Loop(c, conn, thr).ses = cur
                       /\ c # 0 /\ cur # 0
<1> DEFINE end == conn = Retries \/ thr = ThrottleMax
<1>1. end \/ (conn < Retries /\ thr < ThrottleMax)
    BY ConstantsFact
<1>2. CASE end
    <2>1. Loop(c, conn, thr) = [at |-> "done", conn |-> conn, thr |-> thr, ses |-> 0]
        BY <1>2 DEF Loop
    <2> QED
        BY <1>2, <2>1, ConstantsFact DEF CoStates, Places, AttemptOK, TypeOK
<1>3. CASE ~ end /\ (c = 0 \/ cur = 0)
    <2>1. Loop(c, conn, thr) = [at |-> "connect", conn |-> conn, thr |-> thr, ses |-> 0]
        BY <1>3 DEF Loop
    <2> QED
        BY <1>1, <1>3, <2>1, ConstantsFact DEF CoStates, Places, AttemptOK, TypeOK
<1>4. CASE ~ end /\ c # 0 /\ cur # 0
    <2>1. Loop(c, conn, thr) = [at |-> "call", conn |-> conn, thr |-> thr, ses |-> cur]
        BY <1>4 DEF Loop
    <2> QED
        BY <1>1, <1>4, <2>1, ConstantsFact DEF CoStates, Places, AttemptOK, TypeOK
<1> QED
    BY <1>2, <1>3, <1>4

\* An attempt that failed leads to a pause, or out after the last.
LEMMA AgainFact ==
    ASSUME TypeOK, AttemptInv, NEW c \in Coroutines,
           co[c].at \in {"connect", "call", "served", "close"}
    PROVE  /\ Again(c) \in CoStates(made)
           /\ AttemptOK(c, Again(c))
           /\ Again(c).conn = co[c].conn + 1 /\ Again(c).thr = co[c].thr
           /\ Again(c).at \in {"sleep", "done"}
<1>1. PICK r \in CoStates(made) : r = co[c]
    BY DEF TypeOK, CoStates, Coroutines
<1>2. /\ r.conn \in 0 .. Retries /\ r.thr \in 0 .. ThrottleMax /\ r.conn < Retries
      /\ r.thr < ThrottleMax
      /\ 0 \in 0 .. made
    BY <1>1 DEF AttemptInv, AttemptOK, CoStates, TypeOK
<1>3. r.conn + 1 \in 0 .. Retries
    BY <1>2, ConstantsFact
<1>4. PICK p \in {"sleep", "done"} :
          /\ Again(c) = [at |-> p, conn |-> r.conn + 1, thr |-> r.thr, ses |-> 0]
          /\ p = "sleep" /\ c # 0 => r.conn + 1 # Retries
    BY <1>1 DEF Again, CoStates
<1>5. Again(c) \in CoStates(made)
    BY <1>2, <1>3, <1>4 DEF CoStates, Places
<1>6. p = "sleep" /\ c # 0 => r.conn + 1 < Retries
    BY <1>3, <1>4, ConstantsFact
<1>7. Again(c).at = p /\ Again(c).conn = r.conn + 1 /\ Again(c).thr = r.thr
    BY <1>4
<1> QED
    BY <1>1, <1>2, <1>5, <1>6, <1>7 DEF AttemptOK
\* What a step does to the coroutine that takes it.
Moves(c, n) ==
    /\ co' = [co EXCEPT ![c] = n]
    /\ AttemptOK(c, n)
    /\ co[c].at \notin {"off", "done"}
    /\ n.thr >= co[c].thr
    /\ \/ /\ n.at = "call" /\ co[c].at \in {"connect", "sleep", "throttled"}
          /\ n.conn = co[c].conn /\ n.thr = co[c].thr
          /\ sends' = [sends EXCEPT ![c] = Sent(@)]
       \/ /\ n.at # "call" /\ Tried(n) >= Tried(co[c])
          /\ sends' = sends

\* Every step of a coroutine is such a move.
LEMMA MoveFact ==
    ASSUME TypeOK, AttemptInv, NEW c \in Coroutines, Coroutine(c)
    PROVE  /\ made' \in Nat /\ made <= made' /\ last' = last
           /\ \E n \in CoStates(made') : Moves(c, n)
<1>1. PICK r \in CoStates(made) : r = co[c]
    BY DEF TypeOK, CoStates, Coroutines
<1>2. AttemptOK(c, r)
    BY <1>1 DEF AttemptInv
<1>3. /\ r.at \in Places /\ r.conn \in 0 .. Retries /\ r.thr \in 0 .. ThrottleMax
      /\ r.ses \in 0 .. made /\ made \in Nat
    BY <1>1 DEF CoStates, TypeOK
<1>4. CASE ConnectOk(c)
    <2>1. /\ r.at = "connect" /\ made' = made + 1 /\ last' = last
          /\ \/ c = 0 /\ co' = [co EXCEPT ![c] = [r EXCEPT !.at = "done"]] /\ sends' = sends
             \/ /\ c # 0
                /\ co' = [co EXCEPT ![c] = [r EXCEPT !.at = "call", !.ses = made + 1]]
                /\ sends' = [sends EXCEPT ![c] = Sent(@)]
        BY <1>1, <1>3, <1>4 DEF ConnectOk, Goes, CoStates
    <2>2. CASE c = 0
        <3>1. [r EXCEPT !.at = "done"] \in CoStates(made')
            BY <1>3, <2>1 DEF CoStates, Places
        <3>2. Moves(c, [r EXCEPT !.at = "done"])
            BY <1>1, <1>2, <1>3, <2>1, <2>2 DEF Moves, AttemptOK, Tried, CoStates
        <3> QED
            BY <1>3, <2>1, <3>1, <3>2
    <2>3. CASE c # 0
        <3>1. [r EXCEPT !.at = "call", !.ses = made + 1] \in CoStates(made')
            <4>1. PICK m \in 0 .. made' : m = made + 1
                BY <1>3, <2>1
            <4>2. [r EXCEPT !.at = "call", !.ses = m] \in CoStates(made')
                BY <1>3, <2>1 DEF CoStates, Places
            <4> QED
                BY <4>1, <4>2
        <3>2. Moves(c, [r EXCEPT !.at = "call", !.ses = made + 1])
            BY <1>1, <1>2, <1>3, <2>1, <2>3 DEF Moves, AttemptOK, Tried, CoStates
        <3> QED
            BY <1>3, <2>1, <3>1, <3>2
    <2> QED
        BY <2>2, <2>3
<1>5. ASSUME made' = made, last' = last,
             r.at \in {"connect", "call", "served", "close"},
             co' = [co EXCEPT ![c] = Again(c)],
             sends' = IF Again(c).at = "call" THEN [sends EXCEPT ![c] = Sent(@)] ELSE sends
      PROVE  /\ made' \in Nat /\ made <= made' /\ last' = last
             /\ \E n \in CoStates(made') : Moves(c, n)
    <2>1. /\ Again(c) \in CoStates(made) /\ AttemptOK(c, Again(c))
          /\ Again(c).conn = r.conn + 1 /\ Again(c).thr = r.thr
          /\ Again(c).at \in {"sleep", "done"}
        BY <1>1, <1>5, AgainFact
    <2>2. Moves(c, Again(c))
        BY <1>1, <1>3, <1>5, <2>1 DEF Moves, Tried
    <2> QED
        BY <1>3, <1>5, <2>1, <2>2
<1>6. CASE ConnectFails(c)
    <2>1. /\ r.at = "connect" /\ made' = made /\ last' = last
          /\ co' = [co EXCEPT ![c] = Again(c)]
          /\ sends' = IF Again(c).at = "call" THEN [sends EXCEPT ![c] = Sent(@)] ELSE sends
        BY <1>1, <1>6 DEF ConnectFails, Goes
    <2> QED
        BY <1>5, <2>1
<1>7. CASE Serve(c)
    <2>1. /\ r.at = "call" /\ made' = made /\ last' = last /\ sends' = sends
          /\ co' = [co EXCEPT ![c] = [r EXCEPT !.at = "served"]]
        BY <1>1, <1>7 DEF Serve
    <2>2. [r EXCEPT !.at = "served"] \in CoStates(made')
        BY <1>3, <2>1 DEF CoStates, Places
    <2>3. Moves(c, [r EXCEPT !.at = "served"])
        BY <1>1, <1>2, <1>3, <2>1 DEF Moves, AttemptOK, Tried, CoStates
    <2> QED
        BY <1>3, <2>1, <2>2, <2>3
<1>8. CASE Answers(c) \/ Refuses(c)
    <2>1. /\ r.at \in {"call", "served"} /\ made' = made /\ last' = last /\ sends' = sends
          /\ co' = [co EXCEPT ![c] = [r EXCEPT !.at = "done"]]
        BY <1>1, <1>8 DEF Answers, Refuses, Goes, CoStates
    <2>2. [r EXCEPT !.at = "done"] \in CoStates(made')
        BY <1>3, <2>1 DEF CoStates, Places
    <2>3. Moves(c, [r EXCEPT !.at = "done"])
        BY <1>1, <1>2, <1>3, <2>1 DEF Moves, AttemptOK, Tried, CoStates
    <2> QED
        BY <1>3, <2>1, <2>2, <2>3
<1>9. CASE Throttles(c)
    <2> DEFINE n == [r EXCEPT !.at = "throttled", !.thr = r.thr + 1]
    <2>1. /\ r.at = "call" \/ (r.at = "connect" /\ c # 0)
          /\ made' = made /\ last' = last /\ sends' = sends
          /\ co' = [co EXCEPT ![c] = n]
        BY <1>1, <1>9 DEF Throttles, Goes, CoStates
    <2>2. r.conn < Retries /\ r.thr < ThrottleMax /\ c # 0 /\ r.thr + 1 \in 0 .. ThrottleMax
        BY <1>2, <1>3, <2>1, ConstantsFact DEF AttemptOK
    <2>3. n \in CoStates(made')
        BY <1>3, <2>1, <2>2 DEF CoStates, Places
    <2>4. n.at = "throttled" /\ n.conn = r.conn /\ n.thr = r.thr + 1
        BY DEF CoStates
    <2> HIDE DEF n
    <2>5. Moves(c, n)
        BY <1>1, <1>3, <2>1, <2>2, <2>4 DEF Moves, AttemptOK, Tried
    <2> QED
        BY <1>3, <2>1, <2>3, <2>5
<1>10. CASE Breaks(c)
    <2>1. r.at \in {"call", "served"} /\ made' = made /\ last' = last
        BY <1>1, <1>10 DEF Breaks, Goes
    <2>2. CASE cur = 0
        <3>1. /\ co' = [co EXCEPT ![c] = Again(c)]
              /\ sends' = IF Again(c).at = "call" THEN [sends EXCEPT ![c] = Sent(@)] ELSE sends
            BY <1>10, <2>2 DEF Breaks, Goes
        <3> QED
            BY <1>5, <2>1, <3>1
    <2>3. CASE cur # 0
        <3> DEFINE n == [r EXCEPT !.at = "close", !.ses = cur]
        <3>1. co' = [co EXCEPT ![c] = n] /\ sends' = sends
            BY <1>1, <1>10, <2>3 DEF Breaks, Goes, CoStates
        <3>2. n \in CoStates(made')
            BY <1>3, <2>1 DEF CoStates, Places, TypeOK
        <3>3. Moves(c, n)
            BY <1>1, <1>2, <1>3, <2>1, <3>1 DEF Moves, AttemptOK, Tried, CoStates
        <3> HIDE DEF n
        <3> QED
            BY <1>3, <2>1, <3>2, <3>3
    <2> QED
        BY <2>2, <2>3
<1>11. CASE Close(c)
    <2>1. /\ r.at = "close" /\ made' = made /\ last' = last
          /\ co' = [co EXCEPT ![c] = Again(c)]
          /\ sends' = IF Again(c).at = "call" THEN [sends EXCEPT ![c] = Sent(@)] ELSE sends
        BY <1>1, <1>11 DEF Close, Goes
    <2> QED
        BY <1>5, <2>1
<1>12. CASE Wake(c)
    <2> DEFINE n == Loop(c, r.conn, r.thr)
    <2>1. /\ r.at \in {"sleep", "throttled"} /\ made' = made /\ last' = last
          /\ co' = [co EXCEPT ![c] = n]
          /\ sends' = IF n.at = "call" THEN [sends EXCEPT ![c] = Sent(@)] ELSE sends
        BY <1>1, <1>12 DEF Wake, Goes
    <2>2. /\ n \in CoStates(made) /\ AttemptOK(c, n) /\ n.conn = r.conn /\ n.thr = r.thr
        BY <1>3, LoopFact
    <2> HIDE DEF n
    <2>3. Moves(c, n)
        BY <1>1, <1>3, <2>1, <2>2 DEF Moves, Tried
    <2> QED
        BY <1>3, <2>1, <2>2, <2>3
<1> QED
    BY <1>4, <1>6, <1>7, <1>8, <1>9, <1>10, <1>11, <1>12 DEF Coroutine
\* A coroutine that is cancelled loses its connection or ends.
LEMMA CancelledFact ==
    ASSUME TypeOK, AttemptInv, NEW c \in Coroutines
    PROVE  /\ Cancelled(c) \in CoStates(made) /\ AttemptOK(c, Cancelled(c))
           /\ Cancelled(c).thr = co[c].thr /\ Tried(Cancelled(c)) >= Tried(co[c])
           /\ Cancelled(c) = co[c] \/ Cancelled(c).at \in {"close", "sleep", "done"}
           /\ co[c].at \in {"off", "done"} => Cancelled(c) = co[c]
<1>1. PICK r \in CoStates(made) : r = co[c]
    BY DEF TypeOK, CoStates, Coroutines
<1>2. AttemptOK(c, r)
    BY <1>1 DEF AttemptInv
<1>3. /\ r.at \in Places /\ r.conn \in 0 .. Retries /\ r.thr \in 0 .. ThrottleMax
      /\ r.ses \in 0 .. made /\ made \in Nat /\ cur \in 0 .. made
    BY <1>1 DEF CoStates, TypeOK
<1>4. CASE r.at \in {"off", "done", "close"}
    <2>1. Cancelled(c) = r
        BY <1>1, <1>4 DEF Cancelled
    <2> QED
        BY <1>1, <1>2, <1>3, <2>1 DEF Tried
<1>5. CASE r.at \in {"sleep", "throttled"}
    <2>1. Cancelled(c) = [r EXCEPT !.at = "done"]
        BY <1>1, <1>5 DEF Cancelled
    <2>2. [r EXCEPT !.at = "done"] \in CoStates(made)
        BY <1>3 DEF CoStates, Places
    <2> QED
        BY <1>1, <1>2, <1>3, <1>5, <2>1, <2>2 DEF Tried, AttemptOK, CoStates
<1>6. CASE c # 0 /\ cur # 0 /\ r.at \in {"call", "served"}
    <2>1. Cancelled(c) = [r EXCEPT !.at = "close", !.ses = cur]
        BY <1>1, <1>6 DEF Cancelled
    <2>2. [r EXCEPT !.at = "close", !.ses = cur] \in CoStates(made)
        BY <1>3 DEF CoStates, Places
    <2> QED
        BY <1>1, <1>2, <1>3, <1>6, <2>1, <2>2 DEF Tried, AttemptOK, CoStates
<1>7. CASE \/ r.at = "connect"
           \/ r.at \in {"call", "served"} /\ (c = 0 \/ cur = 0)
    <2>1. Cancelled(c) = Again(c)
        BY <1>1, <1>7 DEF Cancelled
    <2>2. /\ Again(c) \in CoStates(made) /\ AttemptOK(c, Again(c))
          /\ Again(c).conn = r.conn + 1 /\ Again(c).thr = r.thr
          /\ Again(c).at \in {"sleep", "done"}
        BY <1>1, <1>7, AgainFact
    <2> QED
        BY <1>1, <1>3, <1>7, <2>1, <2>2 DEF Tried
<1> QED
    BY <1>3, <1>4, <1>5, <1>6, <1>7 DEF Places

-----------------------------------------------------------------------------
(***************************************************************************)
(* The steps.                                                              *)
(***************************************************************************)

\* The types at the start.
LEMMA InitType == Init => TypeOK /\ AttemptInv /\ SendsInv
<1> SUFFICES ASSUME Init PROVE TypeOK /\ AttemptInv /\ SendsInv
    OBVIOUS
<1>1. /\ 0 \in 0 .. MaxCall /\ 0 \in 0 .. Retries /\ 0 \in 0 .. ThrottleMax
      /\ 0 < Retries /\ 0 < ThrottleMax /\ 0 \in 0 .. Retries + ThrottleMax
      /\ 0 <= Retries + ThrottleMax - 1
    BY ConstantsFact
<1>2. ASSUME NEW c \in Coroutines
      PROVE  /\ co[c] \in CoStates(0) /\ AttemptOK(c, co[c]) /\ Tried(co[c]) = 0
             /\ c > last => co[c] = NotStarted
    <2>1. co[c] = IF c = 0 THEN [NotStarted EXCEPT !.at = "connect"] ELSE NotStarted
        BY DEF Init, Coroutines
    <2>2. c > 0 <=> c # 0
        BY DEF Coroutines
    <2> QED
        BY <1>1, <2>1, <2>2 DEF Init, NotStarted, CoStates, Places, AttemptOK, Tried
<1>3. co \in [0 .. MaxCall -> CoStates(made)]
    BY <1>2 DEF Init, Coroutines
<1>4. sends \in [Calls -> 0 .. Retries + ThrottleMax] /\ answer \in [Calls -> {"none", "ok", "error"}]
    BY <1>1 DEF Init
<1>5. \A c \in Calls : c \in Coroutines /\ sends[c] = 0
    BY DEF Init, Calls, Coroutines
<1>6. SendsInv
    BY <1>1, <1>2, <1>5 DEF SendsInv, SendsBounded
<1>7. main = "wait" /\ last = 0 /\ elapsed = 0 /\ cur = 0 /\ made = 0 /\ open = {} /\ placed = {}
    BY DEF Init
<1>8. TypeOK
    BY <1>1, <1>3, <1>4, <1>7 DEF TypeOK, CoStates
<1> QED
    BY <1>2, <1>6, <1>8 DEF AttemptInv

\* A step of a coroutine keeps the types.
LEMMA CoroutineType ==
    ASSUME TypeOK, AttemptInv, SendsInv, NEW c \in Coroutines, Coroutine(c)
    PROVE  TypeOK' /\ AttemptInv' /\ SendsInv'
<1>1. made' \in Nat /\ made <= made' /\ last' = last /\ last \in 0 .. MaxCall
    BY MoveFact DEF TypeOK
<1>2. PICK n \in CoStates(made') : Moves(c, n)
    BY MoveFact
<1>3. co' = [co EXCEPT ![c] = n] /\ DOMAIN co = Coroutines
    BY <1>2 DEF Moves, TypeOK, Coroutines
<1>4. co' \in [0 .. MaxCall -> CoStates(made')]
    <2>1. \A s \in 0 .. made : s \in 0 .. made'
        BY <1>1 DEF TypeOK
    <2>2. \A d \in Coroutines : co[d] \in CoStates(made')
        BY <2>1 DEF TypeOK, CoStates, Coroutines
    <2> QED
        BY <1>3, <2>2 DEF TypeOK, Coroutines
<1>5. main' \in {main, "idle"} /\ elapsed' \in Nat
    <2>1. /\ Takes(c, ConnectTime) \/ Takes(c, CallTime) \/ Takes(c, Backoff)
                \/ Takes(c, Throttle) \/ UNCHANGED elapsed
          /\ UNCHANGED main \/ \E m, r : Goes(c, m, r)
        BY DEF Coroutine, ConnectOk, ConnectFails, Serve, Answers, Refuses, Throttles,
           Breaks, Close, Wake
    <2> QED
        BY <2>1, ConstantsFact DEF Takes, Goes, TypeOK
<1>6. answer' \in [Calls -> {"none", "ok", "error"}]
    <2>1. UNCHANGED answer \/ \E m, r \in {"none", "ok", "error"} : answer' = [answer EXCEPT ![c] = r]
        BY DEF Coroutine, ConnectOk, ConnectFails, Serve, Answers, Refuses, Throttles,
           Breaks, Close, Wake, Goes
    <2> QED
        BY <2>1 DEF TypeOK
<1>7. cur' \in 0 .. made' /\ open' \subseteq 1 .. made'
    BY <1>1 DEF TypeOK, Coroutine, ConnectOk, ConnectFails, Serve, Answers, Refuses, Throttles,
       Breaks, Close, Wake
<1>8. placed' \subseteq Calls
    <2>1. CASE Serve(c)
        <3>1. c \in Calls
            BY <2>1 DEF Serve, AttemptInv, AttemptOK, Coroutines, Calls
        <3> QED
            BY <2>1, <3>1 DEF Serve, TypeOK
    <2>2. CASE ~ Serve(c)
        BY <2>2 DEF TypeOK, Coroutine, ConnectOk, ConnectFails, Answers, Refuses, Throttles,
           Breaks, Close, Wake
    <2> QED
        BY <2>1, <2>2
<1>9. AttemptInv'
    BY <1>1, <1>2, <1>3 DEF AttemptInv, Moves, NotStarted
<1>10. sends' \in [Calls -> 0 .. Retries + ThrottleMax] /\ SendsInv'
    <2>1. ASSUME NEW d \in Calls
          PROVE  /\ sends'[d] \in 0 .. Retries + ThrottleMax
                 /\ sends'[d] <= Tried(co'[d]) /\ (d > last => sends'[d] = 0)
                 /\ sends'[d] <= Retries + ThrottleMax - 1
        <3>1. /\ d \in Coroutines /\ sends[d] \in 0 .. Retries + ThrottleMax
              /\ sends[d] <= Tried(co[d]) /\ (d > last => sends[d] = 0)
              /\ sends[d] <= Retries + ThrottleMax - 1
            BY DEF SendsInv, SendsBounded, TypeOK, Calls, Coroutines
        <3>2. CASE d # c
            BY <1>2, <1>3, <3>1, <3>2 DEF Moves, TypeOK
        <3>3. CASE d = c
            <4>1. co'[d] = n /\ Tried(n) \in Int /\ Tried(co[c]) \in Int
                BY <1>3, <3>3 DEF Tried, CoStates, TypeOK, Coroutines
            <4>2. ~ (d > last)
                BY <1>2, <3>3 DEF Moves, AttemptInv, NotStarted
            <4>3. CASE sends' = sends /\ Tried(n) >= Tried(co[c])
                BY <3>1, <3>3, <4>1, <4>2, <4>3
            <4>4. CASE /\ n.at = "call" /\ co[c].at \in {"connect", "sleep", "throttled"}
                       /\ n.conn = co[c].conn /\ n.thr = co[c].thr
                       /\ sends' = [sends EXCEPT ![c] = Sent(@)]
                <5>1. n.conn < Retries /\ n.thr < ThrottleMax
                    BY <1>2, <4>4 DEF Moves, AttemptOK
                <5>2. n.conn \in Nat /\ n.thr \in Nat
                    BY DEF CoStates
                <5>3. Tried(n) = n.conn + n.thr + 1 /\ Tried(co[c]) = n.conn + n.thr
                    BY <4>4, <5>2 DEF Tried
                <5>4. sends'[d] = Sent(sends[d])
                    BY <3>3, <4>4 DEF TypeOK
                <5> QED
                    BY <3>1, <3>3, <4>1, <4>2, <5>1, <5>2, <5>3, <5>4, ConstantsFact DEF Sent
            <4> QED
                BY <1>2, <4>3, <4>4 DEF Moves
        <3> QED
            BY <3>2, <3>3
    <2>2. DOMAIN sends' = Calls /\ sends' = [d \in Calls |-> sends'[d]]
        BY <1>2 DEF Moves, TypeOK
    <2>3. SendsInv'
        BY <1>1, <2>1 DEF SendsInv, SendsBounded
    <2> QED
        BY <2>1, <2>2, <2>3
<1> QED
    BY <1>1, <1>4, <1>5, <1>6, <1>7, <1>8, <1>9, <1>10 DEF TypeOK, CoStates
\* A step of the main thread keeps the types.
LEMMA MainType ==
    ASSUME TypeOK, AttemptInv, SendsInv, Main
    PROVE  TypeOK' /\ AttemptInv' /\ SendsInv'
<1>1. CASE Call
    <2> DEFINE n == Loop(last + 1, 0, 0)
    <2>1. /\ last + 1 \in Coroutines /\ last + 1 \in Calls /\ last \in Nat
          /\ 0 \in 0 .. Retries /\ 0 \in 0 .. ThrottleMax
        BY <1>1, ConstantsFact DEF Call, TypeOK, Coroutines, Calls
    <2>2. n \in CoStates(made) /\ AttemptOK(last + 1, n) /\ n.conn = 0 /\ n.thr = 0
        BY <2>1, LoopFact
    <2>3. /\ co' = [co EXCEPT ![last + 1] = n] /\ last' = last + 1 /\ main' = "wait"
          /\ elapsed' = 0
          /\ sends' = IF n.at = "call" THEN [sends EXCEPT ![last + 1] = 1] ELSE sends
          /\ UNCHANGED <<cur, made, open, placed, answer>>
        BY <1>1 DEF Call
    <2> HIDE DEF n
    <2>4. TypeOK'
        <3>1. co' \in [0 .. MaxCall -> CoStates(made)]
            BY <2>2, <2>3 DEF TypeOK, CoStates
        <3>2. sends' \in [Calls -> 0 .. Retries + ThrottleMax]
            <4>1. 1 \in 0 .. Retries + ThrottleMax
                BY ConstantsFact
            <4> QED
                BY <2>3, <4>1 DEF TypeOK
        <3>3. last' \in 0 .. MaxCall
            BY <2>1, <2>3 DEF Coroutines
        <3> QED
            BY <2>3, <3>1, <3>2, <3>3 DEF TypeOK, CoStates
    <2>5. AttemptInv'
        BY <2>1, <2>2, <2>3 DEF AttemptInv, TypeOK, Coroutines
    <2>6. SendsInv'
        <3>1. ASSUME NEW d \in Calls
              PROVE  /\ sends'[d] <= Tried(co'[d]) /\ (d > last' => sends'[d] = 0)
                     /\ sends'[d] <= Retries + ThrottleMax - 1
            <4>1. d \in Coroutines /\ d \in Int /\ sends[d] <= Retries + ThrottleMax - 1
                BY DEF Calls, Coroutines, SendsInv, SendsBounded
            <4>2. CASE d # last + 1
                BY <2>1, <2>3, <4>1, <4>2 DEF SendsInv, TypeOK, Coroutines
            <4>3. CASE d = last + 1
                <5>1. co'[d] = n /\ sends[d] = 0
                    BY <2>1, <2>3, <4>3 DEF TypeOK, Coroutines, SendsInv
                <5>2. sends'[d] = IF n.at = "call" THEN 1 ELSE 0
                    BY <2>3, <4>3, <5>1 DEF TypeOK
                <5>3. Tried(n) >= 0 /\ (n.at = "call" => Tried(n) = 1)
                    BY <2>2 DEF Tried
                <5> QED
                    BY <2>1, <2>3, <4>3, <5>1, <5>2, <5>3, ConstantsFact
            <4> QED
                BY <4>2, <4>3
        <3> QED
            BY <3>1 DEF SendsInv, SendsBounded
    <2> QED
        BY <2>4, <2>5, <2>6
<1>2. CASE TimesOut
    BY <1>2 DEF TimesOut, TypeOK, AttemptInv, SendsInv, SendsBounded
<1>3. CASE Exit
    <2>1. /\ UNCHANGED <<last, elapsed, co, made, placed, answer, sends>>
          /\ open' \subseteq open /\ cur' = 0 /\ main' = "exit"
        BY <1>3 DEF Exit
    <2>2. TypeOK'
        BY <2>1 DEF TypeOK
    <2> QED
        BY <2>1, <2>2 DEF AttemptInv, SendsInv, SendsBounded
<1>4. CASE Leave
    <2>1. /\ co' = [c \in Coroutines |-> Cancelled(c)] /\ main' = "left" /\ cur' \in {0, cur}
          /\ UNCHANGED <<last, elapsed, made, open, placed, answer, sends>>
        BY <1>4 DEF Leave, Coroutines
    <2>2. ASSUME NEW c \in Coroutines
          PROVE  /\ co'[c] \in CoStates(made) /\ AttemptOK(c, co'[c])
                 /\ Tried(co'[c]) >= Tried(co[c])
                 /\ co[c] = NotStarted => co'[c] = NotStarted
        BY <2>1, CancelledFact DEF NotStarted
    <2>3. co' \in [0 .. MaxCall -> CoStates(made)]
        BY <2>1, <2>2 DEF Coroutines
    <2>4. TypeOK'
        BY <2>1, <2>3 DEF TypeOK, CoStates
    <2>5. AttemptInv'
        BY <2>1, <2>2 DEF AttemptInv
    <2>6. ASSUME NEW c \in Calls PROVE sends[c] <= Tried(co'[c])
        <3>1. c \in Coroutines /\ sends[c] <= Tried(co[c]) /\ sends[c] \in Int
            BY DEF Calls, Coroutines, SendsInv, TypeOK
        <3>2. Tried(co[c]) \in Int /\ Tried(co'[c]) \in Int
            <4>1. co[c] \in CoStates(made) /\ co'[c] \in CoStates(made)
                BY <2>2, <3>1 DEF TypeOK, CoStates, Coroutines
            <4> QED
                BY <4>1 DEF Tried, CoStates
        <3> QED
            BY <2>2, <3>1, <3>2
    <2> QED
        BY <2>1, <2>4, <2>5, <2>6 DEF SendsInv, SendsBounded
<1> QED
    BY <1>1, <1>2, <1>3, <1>4 DEF Main

\* The three invariants together hold of every step.
LEMMA TypeStep ==
    ASSUME TypeOK, AttemptInv, SendsInv, [Next]_vars
    PROVE  TypeOK' /\ AttemptInv' /\ SendsInv'
<1>1. CASE Main
    BY <1>1, MainType
<1>2. CASE \E c \in 0 .. MaxCall : Coroutine(c)
    BY <1>2, CoroutineType DEF Coroutines
<1>3. CASE UNCHANGED vars
    BY <1>3 DEF vars, TypeOK, AttemptInv, SendsInv, SendsBounded
<1> QED
    BY <1>1, <1>2, <1>3 DEF Next

\* The coroutines' types, counters and sendings, whatever the server does.
THEOREM BridgeInvariant == Spec => [](TypeOK /\ AttemptInv /\ SendsInv)
<1>1. TypeOK /\ AttemptInv /\ SendsInv /\ [Next]_vars
        => (TypeOK /\ AttemptInv /\ SendsInv)'
    BY TypeStep
<1> QED
    BY <1>1, InitType, PTL DEF Spec

\* The main thread, the coroutines and what they share stay in their ranges.
THEOREM BridgeTypeCorrect == Spec => []TypeOK
BY BridgeInvariant, PTL

\* A call sends its order at most once less than its two counters allow
\* together, whatever the server does: neither counter is ever reset, and an
\* attempt needs room in both.
THEOREM SendsAreBounded == Spec => []SendsBounded
<1>1. SendsInv => SendsBounded
    BY DEF SendsInv
<1> QED
    BY <1>1, BridgeInvariant, PTL
-----------------------------------------------------------------------------
(***************************************************************************)
(* A server that answers within the caller's patience.                     *)
(***************************************************************************)

\* Every attempt adds its time, and the last one still fits.
LEMMA SpentFact ==
    ASSUME NEW k \in Nat
    PROVE  /\ Spent(k) \in Nat /\ Spent(0) = 0
           /\ Spent(k + 1) = Spent(k) + ConnectTime + CallTime + Backoff
           /\ CallsFit /\ k < Retries =>
                  \A c \in Calls : Spent(k) + ConnectTime + CallTime <= Patience(c)
<1> DEFINE time == ConnectTime + CallTime + Backoff
<1>1. time \in Nat /\ Backoff \in Nat /\ ConnectTime \in Nat /\ CallTime \in Nat
    BY ConstantsFact
<1>2. Spent(k) = k * time /\ Spent(k + 1) = (k + 1) * time /\ Spent(0) = 0 * time
    BY DEF Spent
<1> HIDE DEF time
<1>3. k * time \in Nat /\ (k + 1) * time = k * time + time /\ 0 * time = 0
    BY <1>1
<1>4. ASSUME CallsFit, k < Retries, NEW c \in Calls
      PROVE  Spent(k) + ConnectTime + CallTime <= Patience(c)
    <2>1. PICK m \in Nat : Retries = (k + m) + 1
        <3>1. Retries - 1 - k \in Nat /\ Retries = (k + (Retries - 1 - k)) + 1
            BY <1>4, ConstantsFact
        <3> QED
            BY <3>1
    <2>2. PICK work \in Nat : work = ConnectTime + CallTime
        BY <1>1
    <2>3. Retries * work + (Retries - 1) * Backoff = (k + m) * work + work + (k + m) * Backoff
        BY <1>1, <2>1, <2>2
    <2>4. (k + m) * work + (k + m) * Backoff = k * (work + Backoff) + m * (work + Backoff)
        BY <1>1, <2>2
    <2>5. k * (work + Backoff) \in Nat /\ m * (work + Backoff) \in Nat
        BY <1>1, <2>2
    <2>6. Patience(c) = CallTimeout * (Retries + 1) + Slack
        BY DEF Patience, Calls
    <2>7. k * (work + Backoff) + work <= Retries * work + (Retries - 1) * Backoff
        <3>1. (k + m) * work \in Nat /\ (k + m) * Backoff \in Nat
            BY <1>1, <2>2
        <3> QED
            BY <2>2, <2>3, <2>4, <2>5, <3>1
    <2>8. CallTimeout * (Retries + 1) + Slack \in Nat
        BY ConstantsFact
    <2>9. Spent(k) = k * (work + Backoff) /\ Spent(k) + ConnectTime + CallTime = k * (work + Backoff) + work
        BY <1>1, <2>2, <2>5 DEF Spent
    <2>10. Retries * work + (Retries - 1) * Backoff <= Patience(c)
        BY <1>4, <2>2, <2>6 DEF CallsFit
    <2>11. Retries * work + (Retries - 1) * Backoff \in Nat
        BY <2>1, <2>2, <1>1
    <2> QED
        BY <2>5, <2>2, <2>6, <2>7, <2>8, <2>9, <2>10, <2>11
<1> QED
    BY <1>1, <1>2, <1>3, <1>4 DEF time
\* Each await of a call that is not throttled takes its part of the attempt's
\* time, or of the pause's.
LEMMA AwaitedStep ==
    ASSUME TypeOK, AttemptInv, PatienceInv, NEW c \in Calls, Coroutine(c),
           main = "wait", last = c, main' = "wait", co'[c].thr = 0
    PROVE  PatienceInv'
<1>1. PICK n \in CoStates(made') : Moves(c, n)
    BY MoveFact DEF Calls, Coroutines
<1>2. PICK r \in CoStates(made) : r = co[c]
    BY DEF TypeOK, CoStates, Calls
<1>3. /\ r.thr \in Nat /\ n.thr \in Nat /\ r.conn \in Nat /\ n.conn \in Nat
      /\ elapsed \in Nat /\ c # 0 /\ last' = c
    BY MoveFact DEF CoStates, TypeOK, Calls, Coroutines
<1>4. co'[c] = n /\ r.thr = 0 /\ n.thr = 0
    BY <1>1, <1>2, <1>3 DEF Moves, TypeOK, Calls
<1>5. Spent(r.conn) \in Nat /\ Spent(r.conn + 1) = Spent(r.conn) + ConnectTime + CallTime + Backoff
    BY <1>3, SpentFact
<1>6. ConnectTime \in Nat /\ CallTime \in Nat /\ Backoff \in Nat
    BY ConstantsFact
<1>7. \A longest \in Nat : Takes(c, longest) => /\ elapsed' \in Nat
                                               /\ elapsed' <= elapsed + longest
    BY <1>3 DEF Takes, Awaited
<1>8. CASE ConnectOk(c)
    <2>1. n.at = "call" /\ n.conn = r.conn /\ Takes(c, ConnectTime) /\ r.at = "connect"
        <3>1. PICK m : m = made + 1
            OBVIOUS
        <3>2. /\ co' = [co EXCEPT ![c] = [co[c] EXCEPT !.at = "call", !.ses = m]]
              /\ Takes(c, ConnectTime) /\ r.at = "connect"
            BY <1>2, <1>3, <1>8, <3>1 DEF ConnectOk, Goes
        <3>3. n = [r EXCEPT !.at = "call", !.ses = m]
            BY <1>2, <1>4, <3>2 DEF TypeOK, Calls
        <3> QED
            BY <3>2, <3>3 DEF CoStates
    <2>2. elapsed <= Spent(r.conn)
        BY <1>2, <1>4, <2>1, <1>3 DEF PatienceInv
    <2> QED
        BY <1>3, <1>4, <1>5, <1>6, <1>7, <2>1, <2>2 DEF PatienceInv
<1>9. ASSUME co' = [co EXCEPT ![c] = Again(c)],
             r.at \in {"connect", "call", "served", "close"},
             n.at # "done", elapsed' \in Nat,
             elapsed' <= Spent(r.conn) + ConnectTime + CallTime
      PROVE  PatienceInv'
    <2>1. n = Again(c)
        BY <1>4, <1>9 DEF TypeOK, Calls
    <2>2. n.at = "sleep" /\ n.conn = r.conn + 1
        BY <1>2, <1>9, <2>1, AgainFact DEF Calls, Coroutines
    <2> QED
        BY <1>3, <1>4, <1>5, <1>6, <1>9, <2>2 DEF PatienceInv
<1>10. Goes(c, n, "ok") \/ Goes(c, n, "error") \/ Goes(c, n, "none") => n.at # "done"
    BY DEF Goes, Awaited
<1>11. CASE ConnectFails(c)
    <2>1. Goes(c, Again(c), "error") /\ r.at = "connect" /\ Takes(c, ConnectTime)
        BY <1>2, <1>11 DEF ConnectFails
    <2>2. co' = [co EXCEPT ![c] = Again(c)] /\ n = Again(c)
        BY <1>4, <2>1 DEF Goes, TypeOK, Calls
    <2>3. elapsed <= Spent(r.conn)
        BY <1>2, <1>3, <1>4, <2>1 DEF PatienceInv
    <2>4. n.at # "done"
        BY <1>10, <2>1, <2>2
    <2>5. elapsed' \in Nat /\ elapsed' <= Spent(r.conn) + ConnectTime + CallTime
        BY <1>3, <1>5, <1>6, <1>7, <2>1, <2>3
    <2> QED
        BY <1>9, <2>1, <2>2, <2>4, <2>5
<1>12. CASE Serve(c)
    <2>1. n.at = "served" /\ n.conn = r.conn /\ elapsed' = elapsed /\ r.at = "call"
        BY <1>2, <1>4, <1>12 DEF Serve, CoStates, TypeOK, Calls
    <2> QED
        BY <1>2, <1>3, <1>4, <2>1 DEF PatienceInv
<1>13. CASE Answers(c) \/ Refuses(c)
    <2>1. co' = [co EXCEPT ![c] = [co[c] EXCEPT !.at = "done"]] /\ n.at = "done"
        BY <1>2, <1>4, <1>13 DEF Answers, Refuses, Goes, CoStates, TypeOK, Calls
    <2>2. [co[c] EXCEPT !.at = "done"].at = "done"
        BY <1>2 DEF CoStates
    <2> QED
        BY <1>13, <2>2 DEF Answers, Refuses, Goes, Awaited
<1>14. CASE Throttles(c)
    <2>1. n.thr = r.thr + 1
        BY <1>2, <1>4, <1>14 DEF Throttles, Goes, CoStates, TypeOK, Calls
    <2> QED
        BY <1>3, <1>4, <2>1
<1>15. CASE Breaks(c)
    <2>1. r.at \in {"call", "served"} /\ Takes(c, CallTime)
        BY <1>2, <1>15 DEF Breaks
    <2>2. elapsed <= Spent(r.conn) + ConnectTime
        BY <1>2, <1>3, <1>4, <2>1 DEF PatienceInv
    <2>3. elapsed' \in Nat /\ elapsed' <= Spent(r.conn) + ConnectTime + CallTime
        BY <1>3, <1>5, <1>6, <1>7, <2>1, <2>2
    <2>4. CASE cur = 0
        <3>1. Goes(c, Again(c), "error")
            BY <1>15, <2>4 DEF Breaks
        <3>2. co' = [co EXCEPT ![c] = Again(c)] /\ n = Again(c)
            BY <1>4, <3>1 DEF Goes, TypeOK, Calls
        <3>3. n.at # "done"
            BY <1>10, <3>1, <3>2
        <3> QED
            BY <1>9, <2>1, <2>3, <3>2, <3>3
    <2>5. CASE cur # 0
        <3>1. n.at = "close" /\ n.conn = r.conn
            BY <1>2, <1>4, <1>15, <2>5 DEF Breaks, Goes, CoStates, TypeOK, Calls
        <3> QED
            BY <1>3, <1>4, <2>3, <3>1 DEF PatienceInv
    <2> QED
        BY <2>4, <2>5
<1>16. CASE Close(c)
    <2>1. Goes(c, Again(c), "error") /\ r.at = "close" /\ elapsed' = elapsed
        BY <1>2, <1>16 DEF Close
    <2>2. co' = [co EXCEPT ![c] = Again(c)] /\ n = Again(c)
        BY <1>4, <2>1 DEF Goes, TypeOK, Calls
    <2>3. elapsed <= Spent(r.conn) + ConnectTime + CallTime
        BY <1>2, <1>3, <1>4, <2>1 DEF PatienceInv
    <2>4. n.at # "done"
        BY <1>10, <2>1, <2>2
    <2> QED
        BY <1>3, <1>9, <2>1, <2>2, <2>3, <2>4
<1>17. CASE Wake(c)
    <2>1. r.at = "sleep" /\ elapsed + Backoff <= Spent(r.conn)
        BY <1>2, <1>3, <1>4, <1>17 DEF Wake, PatienceInv
    <2>2. Takes(c, Backoff) /\ Goes(c, Loop(c, r.conn, 0), "error")
        BY <1>2, <1>4, <1>17, <2>1 DEF Wake
    <2>3. n = Loop(c, r.conn, 0)
        BY <1>4, <2>2 DEF Goes, TypeOK, Calls
    <2>4. n.at # "done"
        BY <1>10, <2>2, <2>3
    <2>5. n.conn = r.conn /\ n.at \in {"connect", "call"}
        <3>1. c \in Coroutines /\ r.conn \in 0 .. Retries /\ 0 \in 0 .. ThrottleMax
            BY ConstantsFact DEF Calls, Coroutines, CoStates
        <3> QED
            BY <2>3, <2>4, <3>1, LoopFact
    <2>6. elapsed' \in Nat /\ elapsed' <= Spent(r.conn)
        BY <1>3, <1>5, <1>6, <1>7, <2>1, <2>2
    <2> QED
        BY <1>3, <1>4, <1>5, <1>6, <2>5, <2>6 DEF PatienceInv
<1> QED
    BY <1>8, <1>11, <1>12, <1>13, <1>14, <1>15, <1>16, <1>17 DEF Coroutine
\* When a coroutine ends, its caller has the answer if it still waits; only the
\* answer of a server that took the order is a good one.
Returned(c) ==
    /\ main = "wait" /\ last = c /\ main' = "idle"
    /\ co'[c].at = "done" /\ placed' = placed
    /\ \/ c = 0 /\ answer' = answer
       \/ /\ c # 0
          /\ \E result \in {"ok", "error"} :
                 /\ answer' = [answer EXCEPT ![c] = result]
                 /\ result = "ok" => co[c].at = "served"

\* A step ends the wait of its coroutine's caller or leaves it alone, and only a
\* server that answers places an order.
LEMMA ReturnFact ==
    ASSUME TypeOK, AttemptInv, NEW c \in Coroutines, Coroutine(c)
    PROVE  /\ Returned(c) \/ UNCHANGED <<main, answer>>
           /\ \/ co'[c].at # "served" /\ placed' = placed
              \/ /\ Serve(c) /\ placed' = placed \cup {c} /\ c \in Calls
                 /\ UNCHANGED <<main, answer>>
<1>1. PICK r \in CoStates(made) : r = co[c]
    BY DEF TypeOK, CoStates, Coroutines
<1>2. c \in DOMAIN co
    BY DEF TypeOK, Coroutines
<1>3. ASSUME NEW n, NEW result \in {"ok", "error", "none"}, Goes(c, n, result), placed' = placed,
             n.at # "served",
             n.at = "done" /\ c # 0 =>
                 result = "error" \/ (result = "ok" /\ co[c].at = "served")
      PROVE  /\ Returned(c) \/ UNCHANGED <<main, answer>>
             /\ co'[c].at # "served" /\ placed' = placed
    <2>1. co'[c] = n
        BY <1>2, <1>3 DEF Goes
    <2>2. CASE n.at = "done" /\ Awaited(c)
        BY <1>3, <2>1, <2>2 DEF Goes, Awaited, Returned
    <2>3. CASE ~ (n.at = "done" /\ Awaited(c))
        BY <1>3, <2>1, <2>3 DEF Goes
    <2> QED
        BY <2>2, <2>3
<1>4. ASSUME r.at \in {"connect", "call", "served", "close"}
      PROVE  Again(c).at \in {"sleep", "done"}
    BY <1>1, <1>4, AgainFact
<1>5. CASE ConnectOk(c)
    <2>1. CASE c = 0
        <3>1. Goes(c, [r EXCEPT !.at = "done"], "ok") /\ placed' = placed
            BY <1>1, <1>5, <2>1 DEF ConnectOk
        <3>2. [r EXCEPT !.at = "done"].at = "done"
            BY DEF CoStates
        <3> QED
            BY <1>3, <2>1, <3>1, <3>2
    <2>2. CASE c # 0
        <3>1. PICK m : m = made + 1
            OBVIOUS
        <3>2. Goes(c, [r EXCEPT !.at = "call", !.ses = m], "none") /\ placed' = placed
            BY <1>1, <1>5, <2>2, <3>1 DEF ConnectOk
        <3>3. [r EXCEPT !.at = "call", !.ses = m].at = "call"
            BY DEF CoStates
        <3> QED
            BY <1>3, <3>2, <3>3
    <2> QED
        BY <2>1, <2>2
<1>6. CASE ConnectFails(c)
    <2>1. Goes(c, Again(c), "error") /\ placed' = placed /\ r.at = "connect"
        BY <1>1, <1>6 DEF ConnectFails
    <2> QED
        BY <1>3, <1>4, <2>1
<1>7. CASE Serve(c)
    <2>1. c # 0
        BY <1>7 DEF Serve, AttemptInv, AttemptOK
    <2> QED
        BY <1>7, <2>1 DEF Serve, Calls, Coroutines
<1>8. CASE Answers(c) \/ Refuses(c)
    <2>1. [r EXCEPT !.at = "done"].at = "done"
        BY DEF CoStates
    <2>2. CASE Answers(c)
        <3>1. /\ Goes(c, [r EXCEPT !.at = "done"], "ok") /\ placed' = placed
              /\ co[c].at = "served"
            BY <1>1, <2>2 DEF Answers
        <3> QED
            BY <1>3, <2>1, <3>1
    <2>3. CASE Refuses(c)
        <3>1. Goes(c, [r EXCEPT !.at = "done"], "error") /\ placed' = placed
            BY <1>1, <2>3 DEF Refuses
        <3> QED
            BY <1>3, <2>1, <3>1
    <2> QED
        BY <1>8, <2>2, <2>3
<1>9. CASE Throttles(c)
    <2> DEFINE n == [r EXCEPT !.at = "throttled", !.thr = @ + 1]
    <2>1. Goes(c, n, "none") /\ placed' = placed
        BY <1>1, <1>9 DEF Throttles
    <2>2. n.at = "throttled"
        BY DEF CoStates
    <2> HIDE DEF n
    <2> QED
        BY <1>3, <2>1, <2>2
<1>10. CASE Breaks(c)
    <2>1. r.at \in {"call", "served"} /\ placed' = placed
        BY <1>1, <1>10 DEF Breaks
    <2>2. CASE cur = 0
        <3>1. Goes(c, Again(c), "error")
            BY <1>10, <2>2 DEF Breaks
        <3> QED
            BY <1>3, <1>4, <2>1, <3>1
    <2>3. CASE cur # 0
        <3>1. Goes(c, [r EXCEPT !.at = "close", !.ses = cur], "error")
            BY <1>1, <1>10, <2>3 DEF Breaks
        <3>2. [r EXCEPT !.at = "close", !.ses = cur].at = "close"
            BY DEF CoStates
        <3> QED
            BY <1>3, <2>1, <3>1, <3>2
    <2> QED
        BY <2>2, <2>3
<1>11. CASE Close(c)
    <2>1. Goes(c, Again(c), "error") /\ placed' = placed /\ r.at = "close"
        BY <1>1, <1>11 DEF Close
    <2> QED
        BY <1>3, <1>4, <2>1
<1>12. CASE Wake(c)
    <2>1. Goes(c, Loop(c, r.conn, r.thr), "error") /\ placed' = placed
        BY <1>1, <1>12 DEF Wake
    <2>2. Loop(c, r.conn, r.thr).at \in {"done", "connect", "call"}
        <3>1. r.conn \in 0 .. Retries /\ r.thr \in 0 .. ThrottleMax
            BY DEF CoStates
        <3> QED
            BY <3>1, LoopFact
    <2> QED
        BY <1>3, <2>1, <2>2
<1> QED
    BY <1>5, <1>6, <1>7, <1>8, <1>9, <1>10, <1>11, <1>12 DEF Coroutine

\* The answers and the orders at the broker go with the coroutines.
LEMMA CallStep ==
    ASSUME CallsFit, TypeOK, AttemptInv, PatienceInv, CallInv, [Next]_vars
    PROVE  PatienceInv' /\ CallInv'
<1> USE DEF CallInv, CallerNotOrphaned
<1>1. ASSUME NEW c \in Coroutines, Coroutine(c) PROVE PatienceInv' /\ CallInv'
    <2>1. PICK n \in CoStates(made') : Moves(c, n)
        BY <1>1, MoveFact
    <2>2. last' = last
        BY <1>1, MoveFact
    <2>3. /\ Returned(c) \/ UNCHANGED <<main, answer>>
          /\ \/ co'[c].at # "served" /\ placed' = placed
             \/ /\ placed' = placed \cup {c} /\ c \in Calls
                /\ UNCHANGED <<main, answer>>
        BY <1>1, ReturnFact
    <2>4. \A d \in Coroutines : d # c => co'[d] = co[d]
        BY <2>1 DEF Moves, TypeOK, Coroutines
    <2>5. /\ co'[c] = n /\ co[c].at \notin {"off", "done"}
          /\ n.thr \in Nat /\ co[c].thr \in Nat /\ n.thr >= co[c].thr
        <3>1. co[c] \in CoStates(made) /\ c \in DOMAIN co
            BY DEF TypeOK, CoStates, Coroutines
        <3>2. n.thr \in Nat /\ co[c].thr \in Nat
            BY <3>1 DEF CoStates
        <3> QED
            BY <2>1, <3>1, <3>2 DEF Moves
    <2>6. PatienceInv'
        <3> SUFFICES ASSUME main' = "wait", last # 0, co'[last].thr = 0 PROVE PatienceInv'
            BY <2>2 DEF PatienceInv
        <3>1. last \in Coroutines /\ last \in Calls
            BY DEF TypeOK, Coroutines, Calls
        <3>2. main = "wait"
            BY <2>3 DEF Returned
        <3>3. CASE last = c
            BY <1>1, <3>1, <3>2, <3>3, AwaitedStep
        <3>4. CASE last # c
            <4>1. co'[last] = co[last]
                BY <2>4, <3>1, <3>4
            <4>2. elapsed' = elapsed
                BY <1>1, <3>4 DEF Coroutine, ConnectOk, ConnectFails, Serve, Answers, Refuses,
                   Throttles, Breaks, Close, Wake, Takes, Awaited
            <4> QED
                BY <2>2, <3>2, <4>1, <4>2 DEF PatienceInv
        <3> QED
            BY <3>3, <3>4
    <2>7. ASSUME NEW d \in Calls
          PROVE  /\ answer'[d] = "none" <=> (d > last' \/ (d = last' /\ main' = "wait"))
                 /\ answer'[d] = "ok" => co'[d].at = "done" /\ d \in placed'
                 /\ co'[d].at = "served" => d \in placed'
                 /\ answer'[d] # "none" /\ co'[d].thr = 0 => co'[d].at = "done"
        <3>1. d \in Coroutines /\ d \in Int /\ d # 0 /\ last \in Int
            BY DEF Calls, Coroutines, TypeOK
        <3>2. CASE d # c
            <4>1. co'[d] = co[d] /\ placed \subseteq placed'
                BY <2>3, <2>4, <3>1, <3>2
            <4>2. answer'[d] = answer[d]
                BY <2>3, <3>2 DEF Returned, TypeOK
            <4>3. \/ main' = main
                  \/ last = c /\ main' = "idle"
                BY <2>3 DEF Returned
            <4> QED
                BY <2>2, <3>1, <3>2, <4>1, <4>2, <4>3
        <3>3. CASE d = c /\ UNCHANGED <<main, answer>>
            BY <2>2, <2>3, <2>5, <3>1, <3>3 DEF Returned
        <3>4. CASE d = c /\ Returned(c)
            BY <2>2, <2>5, <3>1, <3>4 DEF Returned, TypeOK
        <3> QED
            BY <2>3, <3>2, <3>3, <3>4
    <2> QED
        BY <2>6, <2>7
<1>2. CASE Call
    <2> DEFINE n == Loop(last + 1, 0, 0)
    <2>1. /\ last + 1 \in Coroutines /\ last + 1 \in Calls /\ last \in Nat
          /\ 0 \in 0 .. Retries /\ 0 \in 0 .. ThrottleMax
        BY <1>2, ConstantsFact DEF Call, TypeOK, Coroutines, Calls
    <2>2. n.conn = 0 /\ n.thr = 0 /\ n.at \in {"connect", "call"}
        BY <2>1, LoopFact, ConstantsFact
    <2>3. /\ co' = [co EXCEPT ![last + 1] = n] /\ last' = last + 1 /\ main = "idle"
          /\ main' = "wait" /\ elapsed' = 0 /\ UNCHANGED <<placed, answer>>
        BY <1>2 DEF Call
    <2> HIDE DEF n
    <2>4. co'[last + 1] = n /\ \A d \in Coroutines : d # last + 1 => co'[d] = co[d]
        BY <2>1, <2>3 DEF TypeOK, Coroutines
    <2>5. PatienceInv'
        BY <2>1, <2>2, <2>3, <2>4, SpentFact, ConstantsFact DEF PatienceInv
    <2>6. ASSUME NEW d \in Calls
          PROVE  /\ answer'[d] = "none" <=> (d > last' \/ (d = last' /\ main' = "wait"))
                 /\ answer'[d] = "ok" => co'[d].at = "done" /\ d \in placed'
                 /\ co'[d].at = "served" => d \in placed'
                 /\ answer'[d] # "none" /\ co'[d].thr = 0 => co'[d].at = "done"
        <3>1. d \in Coroutines /\ d \in Int
            BY DEF Calls, Coroutines
        <3>2. CASE d # last + 1
            BY <2>1, <2>3, <2>4, <3>1, <3>2
        <3>3. CASE d = last + 1
            BY <2>1, <2>2, <2>3, <2>4, <3>1, <3>3
        <3> QED
            BY <3>2, <3>3
    <2> QED
        BY <2>5, <2>6
<1>3. CASE TimesOut
    <2>1. /\ main = "wait" /\ elapsed + Longest(last) > Patience(last) /\ main' = "idle"
          /\ answer' = IF last = 0 THEN answer ELSE [answer EXCEPT ![last] = "error"]
          /\ UNCHANGED <<last, co, placed>>
        BY <1>3 DEF TimesOut
    <2>2. ASSUME last # 0 PROVE co[last].thr # 0
        <3> SUFFICES ASSUME co[last].thr = 0 PROVE FALSE
            OBVIOUS
        <3>1. PICK r \in CoStates(made) : r = co[last]
            BY DEF TypeOK, CoStates
        <3>2. last \in Calls /\ last \in Coroutines /\ r.conn \in Nat /\ elapsed \in Nat
            BY <2>2, <3>1 DEF TypeOK, Calls, Coroutines, CoStates
        <3>3. AttemptOK(last, r)
            BY <3>1, <3>2 DEF AttemptInv
        <3>4. /\ r.at \in {"connect", "call", "served", "close", "sleep"}
              /\ r.conn < Retries
            BY <2>1, <2>2, <3>1, <3>3 DEF PatienceInv, AttemptOK
        <3>5. PICK spent \in Nat :
                  /\ spent = Spent(r.conn)
                  /\ spent + ConnectTime + CallTime <= Patience(last)
            BY <3>2, <3>4, SpentFact
        <3>6. Patience(last) \in Int /\ ConnectTime \in Nat /\ CallTime \in Nat /\ Backoff \in Nat
            BY ConstantsFact DEF Patience
        <3>7. CASE r.at = "connect"
            <4>1. Longest(last) = ConnectTime /\ elapsed <= spent
                BY <2>1, <2>2, <3>1, <3>5, <3>7 DEF Longest, PatienceInv
            <4> QED
                BY <2>1, <3>2, <3>5, <3>6, <4>1
        <3>8. CASE r.at \in {"call", "served"}
            <4>1. Longest(last) = CallTime
                BY <3>1, <3>8 DEF Longest
            <4>2. elapsed <= spent + ConnectTime
                BY <2>1, <2>2, <3>1, <3>5, <3>8 DEF PatienceInv
            <4> QED
                BY <2>1, <3>2, <3>5, <3>6, <4>1, <4>2
        <3>9. CASE r.at = "close"
            <4>1. Longest(last) = 0
                BY <3>1, <3>9 DEF Longest
            <4>2. elapsed <= spent + ConnectTime + CallTime
                BY <2>1, <2>2, <3>1, <3>5, <3>9 DEF PatienceInv
            <4> QED
                BY <2>1, <3>2, <3>5, <3>6, <4>1, <4>2
        <3>10. CASE r.at = "sleep"
            <4>1. Longest(last) = Backoff
                BY <3>1, <3>10 DEF Longest
            <4>2. elapsed + Backoff <= spent
                BY <2>1, <2>2, <3>1, <3>5, <3>10 DEF PatienceInv
            <4> QED
                BY <2>1, <3>2, <3>5, <3>6, <4>1, <4>2
        <3> QED
            BY <3>4, <3>7, <3>8, <3>9, <3>10
    <2>3. ASSUME NEW d \in Calls
          PROVE  /\ answer'[d] = "none" <=> (d > last' \/ (d = last' /\ main' = "wait"))
                 /\ answer'[d] = "ok" => co'[d].at = "done" /\ d \in placed'
                 /\ co'[d].at = "served" => d \in placed'
                 /\ answer'[d] # "none" /\ co'[d].thr = 0 => co'[d].at = "done"
        BY <2>1, <2>2 DEF TypeOK, Calls
    <2> QED
        BY <2>1, <2>3 DEF PatienceInv
<1>4. CASE Exit
    BY <1>4 DEF Exit, PatienceInv
<1>5. CASE Leave
    <2>1. /\ co' = [c \in Coroutines |-> Cancelled(c)] /\ main = "exit" /\ main' = "left"
          /\ UNCHANGED <<last, placed, answer>>
        BY <1>5 DEF Leave, Coroutines
    <2>2. ASSUME NEW d \in Calls
          PROVE  /\ answer'[d] = "none" <=> (d > last' \/ (d = last' /\ main' = "wait"))
                 /\ answer'[d] = "ok" => co'[d].at = "done" /\ d \in placed'
                 /\ co'[d].at = "served" => d \in placed'
                 /\ answer'[d] # "none" /\ co'[d].thr = 0 => co'[d].at = "done"
        <3>1. d \in Coroutines /\ co'[d] = Cancelled(d)
            BY <2>1 DEF Calls, Coroutines
        <3>2. /\ co'[d].thr = co[d].thr
              /\ co'[d] = co[d] \/ co'[d].at \in {"close", "sleep", "done"}
              /\ co[d].at = "done" => co'[d] = co[d]
            BY <3>1, CancelledFact
        <3> QED
            BY <2>1, <3>2
    <2> QED
        BY <2>1, <2>2 DEF PatienceInv
<1>6. CASE UNCHANGED vars
    BY <1>6 DEF vars, PatienceInv
<1> QED
    BY <1>1, <1>2, <1>3, <1>4, <1>5, <1>6 DEF Next, Main, Coroutines

\* Before the first call nothing has been asked or answered.
LEMMA InitCall == Init => PatienceInv /\ CallInv
<1> SUFFICES ASSUME Init PROVE PatienceInv /\ CallInv
    OBVIOUS
<1>1. ASSUME NEW c \in Calls
      PROVE  co[c] = NotStarted /\ answer[c] = "none" /\ c > last
    BY DEF Init, Calls
<1>2. last = 0
    BY DEF Init
<1> QED
    BY <1>1, <1>2 DEF PatienceInv, CallInv, CallerNotOrphaned, NotStarted

\* While calls fit their callers' patience, a call whose caller has its answer
\* has ended, unless it was throttled: no coroutine sends an order on behalf of
\* a caller that has given up.
THEOREM CallInvariant ==
    CallsFit => (Spec => [](TypeOK /\ AttemptInv /\ PatienceInv /\ CallInv))
<1> SUFFICES ASSUME CallsFit
             PROVE  Spec => [](TypeOK /\ AttemptInv /\ PatienceInv /\ CallInv)
    OBVIOUS
<1>1. TypeOK /\ AttemptInv /\ PatienceInv /\ CallInv /\ [Next]_vars => (PatienceInv /\ CallInv)'
    BY CallStep
<1> QED
    BY <1>1, InitCall, BridgeInvariant, PTL DEF Spec

\* The same of the caller alone.
THEOREM CallersAreNotOrphaned == CallsFit => (Spec => []CallerNotOrphaned)
<1>1. CallInv => CallerNotOrphaned
    BY DEF CallInv
<1> QED
    BY <1>1, CallInvariant, PTL

-----------------------------------------------------------------------------
(***************************************************************************)
(* One session.                                                            *)
(***************************************************************************)

\* The warm-up ends before its caller's patience does.
LEMMA WarmUpStep ==
    ASSUME WarmUpFits, TypeOK, AttemptInv, WarmUpInv, [Next]_vars
    PROVE  WarmUpInv'
<1> DEFINE time == ConnectTime + Backoff
<1>1. /\ 0 \in Coroutines /\ 0 \in 0 .. MaxCall /\ co[0] \in CoStates(made)
      /\ AttemptOK(0, co[0]) /\ elapsed \in Nat /\ last \in Nat
    BY ConstantsFact DEF TypeOK, AttemptInv, CoStates, Coroutines
<1>2. PICK r \in CoStates(made) : r = co[0]
    BY <1>1
<1>3. r.conn \in 0 .. Retries /\ r.thr \in 0 .. ThrottleMax /\ r.conn \in Nat
    BY DEF CoStates
<1>4. PICK spent \in Nat : spent = r.conn * time /\ (r.conn + 1) * time = spent + time
    BY <1>3, ConstantsFact
<1>5. ConnectTime \in Nat /\ Backoff \in Nat /\ time \in Nat
    BY ConstantsFact
<1>6. CASE main = "wait" /\ last = 0 /\ Coroutine(0)
    <2>1. PICK n \in CoStates(made') : Moves(0, n)
        BY <1>1, <1>6, MoveFact
    <2>2. co'[0] = n /\ last' = 0
        BY <1>1, <1>6, <2>1, MoveFact DEF Moves, TypeOK
    <2>3. (Returned(0) /\ n.at = "done") \/ UNCHANGED main
        BY <1>1, <1>6, <2>2, ReturnFact DEF Returned
    <2>4. CASE Returned(0)
        BY <2>2, <2>4 DEF WarmUpInv, Returned
    <2>5. CASE UNCHANGED main /\ n.at = "done"
        <3>1. PICK m, result : Goes(0, m, result)
            BY <1>1, <1>6 DEF Coroutine, ConnectOk, ConnectFails, Serve, Answers, Refuses,
               Throttles, Breaks, Close, Wake, AttemptOK
        <3>2. m = n
            BY <1>1, <2>2, <3>1 DEF Goes, TypeOK
        <3> QED
            BY <1>6, <2>5, <3>1, <3>2 DEF Goes, Awaited
    <2>6. CASE UNCHANGED main /\ n.at # "done" /\ ConnectOk(0)
        <3>1. n = [co[0] EXCEPT !.at = "done"]
            BY <1>1, <2>2, <2>6 DEF ConnectOk, Goes, TypeOK
        <3> QED
            BY <1>1, <2>6, <3>1 DEF CoStates
    <2>7. CASE UNCHANGED main /\ n.at # "done" /\ ConnectFails(0)
        <3>1. r.at = "connect" /\ n = Again(0) /\ elapsed' \in Nat /\ elapsed' <= elapsed + ConnectTime
            BY <1>1, <1>2, <1>5, <1>6, <2>2, <2>7
            DEF ConnectFails, Goes, Takes, Awaited, TypeOK
        <3>2. n.at = "sleep" /\ n.conn = r.conn + 1
            BY <1>1, <1>2, <2>7, <3>1, AgainFact
        <3>3. elapsed <= spent
            BY <1>2, <1>4, <1>6, <3>1 DEF WarmUpInv
        <3>4. elapsed' + Backoff <= (r.conn + 1) * time
            BY <1>1, <1>4, <1>5, <3>1, <3>3
        <3> QED
            BY <1>6, <2>2, <2>7, <3>2, <3>4 DEF WarmUpInv
    <2>8. CASE UNCHANGED main /\ n.at # "done" /\ Wake(0)
        <3>1. r.at = "sleep" /\ elapsed + Backoff <= spent
            BY <1>2, <1>4, <1>6, <2>8 DEF WarmUpInv, Wake
        <3>2. /\ n = Loop(0, r.conn, r.thr)
              /\ elapsed' \in Nat /\ elapsed' <= elapsed + Backoff
            BY <1>1, <1>2, <1>5, <1>6, <2>2, <2>8, <3>1
            DEF Wake, Goes, Takes, Awaited, TypeOK
        <3>3. n.at = "connect" /\ n.conn = r.conn
            BY <1>1, <1>3, <2>8, <3>2, LoopFact
        <3>4. elapsed' <= n.conn * time
            BY <1>1, <1>4, <1>5, <3>1, <3>2, <3>3
        <3> QED
            BY <1>6, <2>2, <2>8, <3>3, <3>4 DEF WarmUpInv
    <2> QED
        BY <1>1, <1>6, <2>3, <2>4, <2>5, <2>6, <2>7, <2>8
        DEF Coroutine, AttemptOK, Serve, Answers, Refuses, Throttles, Breaks, Close
<1>7. CASE ~ (main = "wait" /\ last = 0) /\ Coroutine(0)
    <2>1. PICK n : Moves(0, n)
        BY <1>1, <1>7, MoveFact
    <2> QED
        BY <1>7, <2>1 DEF Moves, WarmUpInv
<1>8. ASSUME NEW c \in Coroutines, c # 0, Coroutine(c) PROVE WarmUpInv'
    <2>1. PICK n : Moves(c, n)
        BY <1>8, MoveFact
    <2>2. co'[0] = co[0] /\ last' = last
        BY <1>1, <1>8, <2>1, MoveFact DEF Moves, TypeOK
    <2>3. \/ UNCHANGED main
          \/ last = c /\ main' = "idle" /\ main = "wait"
        BY <1>8, ReturnFact DEF Returned
    <2>4. main = "wait" /\ last = 0 => elapsed' = elapsed
        BY <1>8 DEF Coroutine, ConnectOk, ConnectFails, Serve, Answers, Refuses,
           Throttles, Breaks, Close, Wake, Takes, Awaited
    <2> QED
        BY <1>8, <2>2, <2>3, <2>4 DEF WarmUpInv
<1>9. CASE Call
    <2>1. co' = [co EXCEPT ![last + 1] = Loop(last + 1, 0, 0)] /\ last' = last + 1 /\ main = "idle"
        BY <1>9 DEF Call
    <2>2. co'[0] = co[0] /\ last' # 0
        BY <1>1, <2>1 DEF TypeOK
    <2> QED
        BY <2>1, <2>2 DEF WarmUpInv
<1>10. CASE TimesOut
    <2>1. ASSUME last = 0 PROVE FALSE
        <3>1. main = "wait" /\ elapsed + Longest(0) > 2 * CallTimeout
            BY <1>10, <2>1 DEF TimesOut, Patience
        <3>2. PICK m \in Nat : Retries = r.conn + m
            <4>1. Retries - r.conn \in Nat /\ Retries = r.conn + (Retries - r.conn)
                BY <1>3, ConstantsFact
            <4> QED
                BY <4>1
        <3>3. Retries * time = spent + m * time /\ m * time \in Nat
            BY <1>3, <1>4, <1>5, <3>2
        <3>4. CASE r.at = "connect"
            <4>1. Longest(0) = ConnectTime /\ elapsed <= spent
                BY <1>2, <1>4, <2>1, <3>1, <3>4 DEF Longest, WarmUpInv
            <4>2. m # 0
                BY <1>1, <1>2, <1>3, <3>2, <3>4 DEF AttemptOK
            <4>3. m - 1 \in Nat /\ m * time = (m - 1) * time + time
                BY <1>5, <4>2
            <4>4. (m - 1) * time \in Nat
                BY <1>5, <4>3
            <4> QED
                BY <1>1, <1>5, <3>1, <3>3, <4>1, <4>3, <4>4, ConstantsFact DEF WarmUpFits
        <3>5. CASE r.at = "sleep"
            <4>1. Longest(0) = Backoff
                BY <1>2, <3>5 DEF Longest
            <4>2. elapsed + Backoff <= spent
                BY <1>2, <1>4, <2>1, <3>1, <3>5 DEF WarmUpInv
            <4> QED
                BY <1>1, <1>5, <3>1, <3>3, <4>1, <4>2, ConstantsFact DEF WarmUpFits
        <3> QED
            BY <1>2, <2>1, <3>1, <3>4, <3>5 DEF WarmUpInv
    <2> QED
        BY <1>10, <2>1 DEF TimesOut, WarmUpInv
<1>11. CASE Exit
    BY <1>11 DEF Exit, WarmUpInv
<1>12. CASE Leave
    <2>1. co[0].at = "done" /\ co'[0] = Cancelled(0) /\ main' = "left"
        BY <1>1, <1>12 DEF Leave, WarmUpInv
    <2>2. co'[0] = co[0]
        BY <1>1, <2>1, CancelledFact
    <2> QED
        BY <2>1, <2>2 DEF WarmUpInv
<1>13. CASE UNCHANGED vars
    BY <1>13 DEF vars, WarmUpInv
<1> QED
    BY <1>6, <1>7, <1>8, <1>9, <1>10, <1>11, <1>12, <1>13 DEF Next, Main, Coroutines
\* Of a server that never throttles, only the coroutine that the main thread
\* waits for is under way.
LEMMA OnlyAwaited ==
    ASSUME TypeOK, AttemptInv, CallInv, WarmUpInv, Unthrottled, NEW c \in Coroutines,
           co[c].at \notin {"off", "done"}
    PROVE  main = "wait" /\ last = c
<1>1. CASE c = 0
    BY <1>1 DEF WarmUpInv
<1>2. CASE c # 0
    <2>1. c \in Calls /\ last \in Int /\ c \in Int
        BY <1>2 DEF Calls, Coroutines, TypeOK
    <2>2. ~ (c > last)
        BY DEF AttemptInv, NotStarted
    <2>3. answer[c] = "none"
        BY <2>1 DEF CallInv, CallerNotOrphaned, Unthrottled
    <2> QED
        BY <2>1, <2>2, <2>3 DEF CallInv
<1> QED
    BY <1>1, <1>2

\* Sessions are set up and closed one after the other.
LEMMA SessionStep ==
    ASSUME TypeOK, AttemptInv, CallInv, WarmUpInv, SessionInv, [Next]_vars
    PROVE  SessionInv'
<1> SUFFICES ASSUME Unthrottled' PROVE SessionInv'
    BY DEF SessionInv
<1>1. /\ open \subseteq 1 .. made /\ cur \in 0 .. made /\ made \in Nat
      /\ last \in Coroutines /\ DOMAIN co = Coroutines
    BY DEF TypeOK, Coroutines
<1>2. ASSUME NEW c \in Coroutines, Coroutine(c) PROVE SessionInv'
    <2>1. PICK n \in CoStates(made') : Moves(c, n)
        BY <1>2, MoveFact
    <2>2. last' = last /\ co' = [co EXCEPT ![c] = n] /\ co'[c] = n
        BY <1>1, <1>2, <2>1, MoveFact DEF Moves
    <2>3. PICK r \in CoStates(made) : r = co[c]
        BY DEF TypeOK, CoStates, Coroutines
    <2>4. n.thr \in Nat /\ r.thr \in Nat /\ n.thr >= r.thr
        BY <2>1, <2>3 DEF Moves, CoStates
    <2>5. Unthrottled
        <3>1. ASSUME NEW d \in Calls PROVE co[d].thr = 0
            <4>1. d \in Coroutines /\ co'[d].thr = 0
                BY DEF Unthrottled, Calls, Coroutines
            <4>2. CASE d = c
                BY <2>2, <2>3, <2>4, <4>1, <4>2
            <4>3. CASE d # c
                BY <1>1, <2>2, <4>1, <4>3
            <4> QED
                BY <4>2, <4>3
        <3> QED
            BY <3>1 DEF Unthrottled
    <2>6. main = "wait" /\ last = c
        BY <2>1, <2>5, OnlyAwaited DEF Moves
    <2>7. /\ open \subseteq {cur} /\ (last = 0 \/ r.at = "connect" => cur = 0)
          /\ r.at = "close" => r.ses = cur
        BY <2>3, <2>5, <2>6 DEF SessionInv
    <2>8. main' \in {"wait", "idle"} /\ (n.at = "done" => main' = "idle")
        <3>1. Returned(c) \/ UNCHANGED main
            BY <1>2, ReturnFact
        <3>2. UNCHANGED main /\ n.at = "done" => FALSE
            <4>1. PICK m, result : co' = [co EXCEPT ![c] = m]
                                   /\ (m.at = "done" => main' = "idle")
                <5>1. CASE Serve(c)
                    <6>1. n.at # "done" /\ (n.at = "done" => main' = "idle")
                        BY <2>2, <2>3, <5>1 DEF Serve, CoStates, TypeOK
                    <6> QED
                        BY <2>2, <6>1
                <5>2. CASE ~ Serve(c)
                    BY <1>2, <2>6, <5>2 DEF Coroutine, ConnectOk, ConnectFails, Answers, Refuses,
                       Throttles, Breaks, Close, Wake, Goes, Awaited
                <5> QED
                    BY <5>1, <5>2
            <4>2. m = n
                BY <1>1, <2>2, <4>1
            <4> QED
                BY <2>6, <4>1, <4>2
        <3> QED
            BY <2>6, <3>1, <3>2 DEF Returned
    <2>9. ASSUME UNCHANGED <<cur, open>>, n.at # "close", n.at = "connect" => cur = 0
          PROVE  SessionInv'
        BY <2>2, <2>6, <2>7, <2>8, <2>9 DEF SessionInv
    <2>10. CASE ConnectOk(c)
        <3>1. r.at = "connect" /\ open = {} /\ cur' = made + 1 /\ open' = {made + 1}
            BY <1>1, <2>3, <2>7, <2>10 DEF ConnectOk
        <3>2. n.at \in {"call", "done"} /\ (last = 0 => n.at = "done")
            <4>1. PICK m : m = made + 1
                OBVIOUS
            <4>2. \/ c = 0 /\ n = [r EXCEPT !.at = "done"]
                  \/ c # 0 /\ n = [r EXCEPT !.at = "call", !.ses = m]
                BY <1>1, <2>2, <2>3, <2>10, <4>1 DEF ConnectOk, Goes
            <4> QED
                BY <2>6, <4>2 DEF CoStates
        <3> QED
            BY <2>2, <2>6, <2>8, <3>1, <3>2 DEF SessionInv
    <2>11. CASE ConnectFails(c)
        <3>1. r.at = "connect" /\ cur = 0 /\ cur' = 0 /\ open' = open /\ n = Again(c)
            BY <1>1, <2>2, <2>3, <2>7, <2>11 DEF ConnectFails, Goes
        <3>2. n.at \in {"sleep", "done"}
            BY <2>3, <3>1, AgainFact
        <3> QED
            BY <2>9, <3>1, <3>2
    <2>12. CASE Serve(c)
        <3>1. n.at = "served" /\ UNCHANGED <<cur, open>>
            BY <1>1, <2>2, <2>3, <2>12 DEF Serve, CoStates
        <3> QED
            BY <2>9, <3>1
    <2>13. CASE Answers(c) \/ Refuses(c)
        <3>1. n.at = "done" /\ UNCHANGED <<cur, open>>
            BY <1>1, <2>2, <2>3, <2>13 DEF Answers, Refuses, Goes, CoStates
        <3> QED
            BY <2>9, <3>1
    <2>14. CASE Throttles(c)
        <3>1. n.at = "throttled" /\ UNCHANGED <<cur, open>>
            <4>1. PICK m : m = r.thr + 1
                OBVIOUS
            <4>2. n = [r EXCEPT !.at = "throttled", !.thr = m] /\ UNCHANGED open
                BY <1>1, <2>2, <2>3, <2>14, <4>1 DEF Throttles, Goes
            <4>3. UNCHANGED cur
                BY <1>1, <2>3, <2>7, <2>14 DEF Throttles
            <4> QED
                BY <4>2, <4>3 DEF CoStates
        <3> QED
            BY <2>9, <3>1
    <2>15. CASE Breaks(c)
        <3>1. UNCHANGED <<cur, open>> /\ r.at \in {"call", "served"}
            BY <2>3, <2>15 DEF Breaks
        <3>2. CASE cur = 0
            <4>1. n = Again(c)
                BY <1>1, <2>2, <2>15, <3>2 DEF Breaks, Goes
            <4>2. n.at \in {"sleep", "done"}
                BY <2>3, <3>1, <4>1, AgainFact
            <4> QED
                BY <2>9, <3>1, <4>2
        <3>3. CASE cur # 0
            <4>1. n.at = "close" /\ n.ses = cur
                <5>1. PICK m : m = cur
                    OBVIOUS
                <5>2. n = [r EXCEPT !.at = "close", !.ses = m]
                    BY <1>1, <2>2, <2>3, <2>15, <3>3, <5>1 DEF Breaks, Goes
                <5> QED
                    BY <5>1, <5>2 DEF CoStates
            <4>2. c # 0
                BY <2>3, <3>1 DEF AttemptInv, AttemptOK
            <4> QED
                BY <2>2, <2>6, <2>7, <2>8, <3>1, <4>1, <4>2 DEF SessionInv
        <3> QED
            BY <3>2, <3>3
    <2>16. CASE Close(c)
        <3>1. r.at = "close" /\ open' = open \ {r.ses} /\ cur' = 0 /\ n = Again(c)
            BY <1>1, <2>2, <2>3, <2>16 DEF Close, Closed, Goes
        <3>2. n.at \in {"sleep", "done"}
            BY <2>3, <3>1, AgainFact
        <3>3. open' = {}
            BY <2>7, <3>1
        <3> QED
            BY <2>2, <2>6, <2>8, <3>1, <3>2, <3>3 DEF SessionInv
    <2>17. CASE Wake(c)
        <3>1. n = Loop(c, r.conn, r.thr) /\ UNCHANGED <<cur, open>>
            BY <1>1, <2>2, <2>3, <2>17 DEF Wake, Goes
        <3>2. r.conn \in 0 .. Retries /\ r.thr \in 0 .. ThrottleMax
            BY DEF CoStates
        <3>3. n.at # "close" /\ (n.at = "connect" => cur = 0)
            BY <2>6, <2>7, <3>1, <3>2, LoopFact
        <3> QED
            BY <2>9, <3>1, <3>3
    <2> QED
        BY <1>2, <2>10, <2>11, <2>12, <2>13, <2>14, <2>15, <2>16, <2>17 DEF Coroutine
<1>3. CASE Call
    <2> DEFINE n == Loop(last + 1, 0, 0)
    <2>1. /\ last + 1 \in Coroutines /\ last + 1 \in Calls /\ last + 1 # 0
          /\ 0 \in 0 .. Retries /\ 0 \in 0 .. ThrottleMax /\ last + 1 > last
        BY <1>3, ConstantsFact DEF Call, TypeOK, Coroutines, Calls
    <2>2. n.at \in {"connect", "call"} /\ (n.at = "connect" => cur = 0)
        BY <2>1, LoopFact, ConstantsFact
    <2>3. /\ co' = [co EXCEPT ![last + 1] = n] /\ last' = last + 1 /\ main' = "wait"
          /\ UNCHANGED <<cur, open>>
        BY <1>3 DEF Call
    <2> HIDE DEF n
    <2>4. co'[last + 1] = n
        BY <1>1, <2>1, <2>3
    <2>5. Unthrottled
        <3>1. ASSUME NEW d \in Calls PROVE co[d].thr = 0
            <4>1. d \in Coroutines /\ co'[d].thr = 0
                BY DEF Unthrottled, Calls, Coroutines
            <4>2. CASE d = last + 1
                BY <2>1, <4>2 DEF AttemptInv, NotStarted
            <4>3. CASE d # last + 1
                BY <1>1, <2>3, <4>1, <4>3
            <4> QED
                BY <4>2, <4>3
        <3> QED
            BY <3>1 DEF Unthrottled
    <2> QED
        BY <2>1, <2>2, <2>3, <2>4, <2>5 DEF SessionInv
<1>4. CASE TimesOut
    BY <1>4 DEF TimesOut, SessionInv, Unthrottled
<1>5. CASE Exit
    <2>1. /\ open' = open \ {cur} /\ cur' = 0 /\ main' = "exit" /\ co' = co
        BY <1>5 DEF Exit, Closed
    <2>2. Unthrottled
        BY <2>1 DEF Unthrottled
    <2> QED
        BY <2>1, <2>2 DEF SessionInv
<1>6. CASE Leave
    <2>1. /\ co' = [c \in Coroutines |-> Cancelled(c)] /\ main = "exit" /\ main' = "left"
          /\ open' = open /\ cur' \in {0, cur}
        BY <1>6 DEF Leave, Coroutines
    <2>2. Unthrottled
        <3>1. ASSUME NEW d \in Calls PROVE co[d].thr = 0
            <4>1. d \in Coroutines /\ co'[d].thr = 0 /\ co'[d] = Cancelled(d)
                BY <2>1 DEF Unthrottled, Calls, Coroutines
            <4> QED
                BY <4>1, CancelledFact
        <3> QED
            BY <3>1 DEF Unthrottled
    <2> QED
        BY <2>1, <2>2 DEF SessionInv
<1>7. CASE UNCHANGED vars
    BY <1>7 DEF vars, SessionInv, Unthrottled
<1> QED
    BY <1>2, <1>3, <1>4, <1>5, <1>6, <1>7 DEF Next, Main, Coroutines

\* The sessions of a server that never throttles and that calls and warm-up
\* have the patience for.
THEOREM SessionInvariant == CallsFit /\ WarmUpFits => (Spec => [](TypeOK /\ SessionInv))
<1> SUFFICES ASSUME CallsFit, WarmUpFits PROVE Spec => [](TypeOK /\ SessionInv)
    OBVIOUS
<1>1. Init => WarmUpInv /\ SessionInv
    <2> SUFFICES ASSUME Init PROVE WarmUpInv /\ SessionInv
        OBVIOUS
    <2>1. co[0] = [NotStarted EXCEPT !.at = "connect"]
        BY ConstantsFact DEF Init
    <2>2. co[0].at = "connect" /\ co[0].conn = 0
        BY <2>1 DEF NotStarted
    <2>3. 0 <= 0 * (ConnectTime + Backoff)
        BY ConstantsFact
    <2> QED
        BY <2>2, <2>3 DEF Init, WarmUpInv, SessionInv
<1>2. TypeOK /\ AttemptInv /\ PatienceInv /\ CallInv /\ WarmUpInv /\ SessionInv /\ [Next]_vars
        => (WarmUpInv /\ SessionInv)'
    BY WarmUpStep, SessionStep
<1> QED
    BY <1>1, <1>2, CallInvariant, PTL DEF Spec

\* "Keeps ONE warm session": while calls and warm-up fit their callers' patience
\* and the server never throttles, no second session is open beside the first.
THEOREM SessionsAreSingle == CallsFit /\ WarmUpFits => (Spec => []OneSession)
<1>1. TypeOK /\ SessionInv => OneSession
    <2> SUFFICES ASSUME TypeOK, SessionInv, Unthrottled PROVE Cardinality(open) <= 1
        BY DEF OneSession
    <2>1. open \subseteq {cur}
        BY DEF SessionInv
    <2>2. IsFiniteSet({cur}) /\ Cardinality({cur}) = 1
        BY FS_Singleton
    <2> QED
        BY <2>1, <2>2, FS_Subset
<1> QED
    BY <1>1, SessionInvariant, PTL

\* "... for the life of the with block": after it, nothing is open.
THEOREM NothingOpenAfterExit == CallsFit /\ WarmUpFits => (Spec => []ClosedAfterExit)
<1>1. TypeOK /\ SessionInv => ClosedAfterExit
    <2> SUFFICES ASSUME TypeOK, SessionInv, Unthrottled, main = "left" PROVE open = {}
        BY DEF ClosedAfterExit
    <2>1. open \subseteq {0} /\ open \subseteq 1 .. made
        BY DEF SessionInv, TypeOK
    <2> QED
        BY <2>1
<1> QED
    BY <1>1, SessionInvariant, PTL
-----------------------------------------------------------------------------
(***************************************************************************)
(* What the executor takes for granted.                                    *)
(***************************************************************************)

\* The state of OrderCall in that of the bridge.
Waiting == main = "wait" /\ last > 0

Late == {c \in Calls : answer[c] = "error" /\ co[c].thr > 0}

\* A step of a coroutine places an order for its caller, who waits unless the
\* call was throttled, or returns, or is of no concern to the caller.
LEMMA CoroutineIsPromised ==
    ASSUME TypeOK, AttemptInv, CallInv, NEW c \in Coroutines, Coroutine(c)
    PROVE  [Promised!Next]_(Promised!vars)
<1>1. PICK n \in CoStates(made') : Moves(c, n)
    BY MoveFact
<1>2. last' = last /\ last \in Int /\ DOMAIN co = Coroutines /\ Calls \subseteq Coroutines
    BY MoveFact DEF TypeOK, Coroutines, Calls
<1>3. co' = [co EXCEPT ![c] = n] /\ co[c].at \notin {"off", "done"}
    BY <1>1 DEF Moves
<1>4. n.thr \in Nat /\ co[c].thr \in Nat /\ n.thr >= co[c].thr
    <2>1. co[c] \in CoStates(made)
        BY DEF TypeOK, CoStates, Coroutines
    <2>2. n.thr \in Nat /\ co[c].thr \in Nat
        BY <2>1 DEF CoStates
    <2> QED
        BY <1>1, <2>2 DEF Moves
<1>5. c \in Calls /\ answer[c] # "none" => answer[c] = "error" /\ co[c].thr > 0
    BY <1>3, <1>4 DEF CallInv, CallerNotOrphaned, TypeOK
<1>6. ASSUME answer' = answer PROVE Late' = Late
    <2>1. ASSUME NEW d \in Calls
          PROVE  answer[d] = "error" /\ co'[d].thr > 0 <=> answer[d] = "error" /\ co[d].thr > 0
        <3>1. CASE d # c
            BY <1>2, <1>3, <3>1
        <3>2. CASE d = c
            BY <1>2, <1>3, <1>4, <1>5, <3>2
        <3> QED
            BY <3>1, <3>2
    <2> QED
        BY <1>6, <2>1 DEF Late
<1>7. CASE UNCHANGED <<main, answer>> /\ placed' = placed
    <2>1. Late' = Late /\ Waiting' = Waiting
        BY <1>2, <1>6, <1>7 DEF Waiting
    <2> QED
        BY <1>2, <1>7, <2>1 DEF Promised!vars, Late, Waiting
<1>8. CASE UNCHANGED <<main, answer>> /\ placed' = placed \cup {c} /\ c \in Calls
    <2>1. Late' = Late /\ Waiting' = Waiting
        BY <1>2, <1>6, <1>8 DEF Waiting
    <2>2. c \in Late \cup (IF Waiting THEN {last} ELSE {})
        <3>1. CASE answer[c] = "none"
            <4>1. ~ (c > last)
                BY <1>3 DEF AttemptInv, NotStarted
            <4>2. c = last /\ main = "wait" /\ last > 0
                BY <1>2, <1>8, <3>1, <4>1 DEF CallInv, Calls
            <4> QED
                BY <4>2 DEF Waiting
        <3>2. CASE answer[c] # "none"
            BY <1>5, <1>8, <3>2 DEF Late
        <3> QED
            BY <3>1, <3>2
    <2>3. Promised!Place
        BY <1>2, <1>8, <2>1, <2>2 DEF Promised!Place, Late, Waiting
    <2> QED
        BY <2>3 DEF Promised!Next
<1>9. CASE Returned(c) /\ c = 0
    <2>1. answer' = answer /\ ~ Waiting /\ ~ Waiting' /\ placed' = placed
        BY <1>2, <1>9 DEF Returned, Waiting
    <2>2. Late' = Late
        BY <1>6, <2>1
    <2> QED
        BY <1>2, <2>1, <2>2 DEF Promised!vars, Late, Waiting
<1>10. CASE Returned(c) /\ c # 0
    <2>1. PICK result \in {"ok", "error"} :
              /\ answer' = [answer EXCEPT ![c] = result]
              /\ result = "ok" => co[c].at = "served"
        BY <1>10 DEF Returned
    <2>2. c \in Calls /\ c = last /\ Waiting /\ ~ Waiting' /\ placed' = placed
        BY <1>2, <1>10 DEF Returned, Waiting, Calls, Coroutines
    <2>3. result = "ok" => last \in placed
        BY <2>1, <2>2 DEF CallInv
    <2>4. answer[c] = "none"
        BY <1>2, <1>10, <2>2 DEF CallInv, Returned
    <2>5. \A d \in Calls : d # c => co'[d] = co[d] /\ answer'[d] = answer[d]
        BY <1>2, <1>3, <2>1 DEF TypeOK
    <2>6. answer'[c] = result
        BY <2>1, <2>2 DEF TypeOK
    <2>7. Late' = Late \/ (result = "error" /\ Late' = Late \cup {last})
        <3>1. CASE result = "error" /\ co'[c].thr > 0
            BY <2>2, <2>4, <2>5, <2>6, <3>1 DEF Late
        <3>2. CASE ~ (result = "error" /\ co'[c].thr > 0)
            BY <2>2, <2>4, <2>5, <2>6, <3>2 DEF Late
        <3> QED
            BY <3>1, <3>2
    <2>8. Promised!Return(result)
        BY <1>2, <2>1, <2>2, <2>3, <2>7 DEF Promised!Return, Late, Waiting
    <2> QED
        BY <2>8 DEF Promised!Next
<1> QED
    BY <1>7, <1>8, <1>9, <1>10, ReturnFact

\* The main thread calls, gives up, or leaves.
LEMMA MainIsPromised ==
    ASSUME TypeOK, AttemptInv, CallInv, Main
    PROVE  [Promised!Next]_(Promised!vars)
<1>1. last \in Nat /\ last \in Coroutines /\ DOMAIN co = Coroutines /\ Calls \subseteq Coroutines
    BY DEF TypeOK, Coroutines, Calls
<1>2. CASE Call
    <2>1. /\ main = "idle" /\ last < MaxCall /\ main' = "wait" /\ last' = last + 1
          /\ UNCHANGED <<placed, answer>>
          /\ co' = [co EXCEPT ![last + 1] = Loop(last + 1, 0, 0)]
        BY <1>2 DEF Call
    <2>2. answer[last + 1] = "none"
        <3>1. last + 1 \in Calls /\ last + 1 > last
            BY <1>1, <2>1, ConstantsFact DEF Calls
        <3> QED
            BY <3>1 DEF CallInv
    <2>3. \A d \in Calls : d # last + 1 => co'[d] = co[d]
        BY <1>1, <2>1
    <2>4. Late' = Late
        BY <2>1, <2>2, <2>3 DEF Late
    <2>5. ~ Waiting /\ Waiting'
        BY <1>1, <2>1 DEF Waiting
    <2>6. Promised!Call
        BY <2>1, <2>4, <2>5 DEF Promised!Call, Late, Waiting
    <2> QED
        BY <2>6 DEF Promised!Next
<1>3. CASE TimesOut
    <2>1. /\ main = "wait" /\ main' = "idle" /\ UNCHANGED <<last, co, placed>>
          /\ answer' = IF last = 0 THEN answer ELSE [answer EXCEPT ![last] = "error"]
        BY <1>3 DEF TimesOut
    <2>2. CASE last = 0
        BY <2>1, <2>2 DEF Promised!vars
    <2>3. CASE last # 0
        <3>1. last \in Calls /\ Waiting /\ ~ Waiting'
            BY <1>1, <2>1, <2>3 DEF Waiting, Calls, Coroutines
        <3>2. answer[last] = "none" /\ answer'[last] = "error"
            BY <2>1, <2>3, <3>1 DEF CallInv, TypeOK
        <3>3. \A d \in Calls : d # last => answer'[d] = answer[d]
            BY <2>1, <2>3 DEF TypeOK
        <3>4. Late' = Late \/ Late' = Late \cup {last}
            <4>1. CASE co[last].thr > 0
                BY <2>1, <3>1, <3>2, <3>3, <4>1 DEF Late
            <4>2. CASE ~ (co[last].thr > 0)
                BY <2>1, <3>1, <3>2, <3>3, <4>2 DEF Late
            <4> QED
                BY <4>1, <4>2
        <3>5. Promised!Return("error")
            BY <2>1, <2>3, <3>1, <3>4 DEF Promised!Return, Late, Waiting
        <3> QED
            BY <3>5 DEF Promised!Next
    <2> QED
        BY <2>2, <2>3
<1>4. CASE Exit
    BY <1>4 DEF Exit, Promised!vars
<1>5. CASE Leave
    <2>1. /\ co' = [c \in Coroutines |-> Cancelled(c)] /\ main = "exit" /\ main' = "left"
          /\ UNCHANGED <<last, placed, answer>>
        BY <1>5 DEF Leave, Coroutines
    <2>2. \A d \in Calls : co'[d].thr = co[d].thr
        BY <1>1, <2>1, CancelledFact
    <2>3. Late' = Late /\ Waiting' = Waiting
        BY <2>1, <2>2 DEF Late, Waiting
    <2> QED
        BY <2>1, <2>3 DEF Promised!vars, Late, Waiting
<1> QED
    BY <1>2, <1>3, <1>4, <1>5 DEF Main

\* While calls fit their callers' patience, the bridge is what the executor
\* takes it for: calls one after the other, an order at the broker only while
\* its caller waits, unless the caller gave up on a server that throttled the
\* call, and a good answer only for an order that is there.
THEOREM BridgeKeepsPromise == CallsFit => (Spec => OrderCallSpec)
<1> SUFFICES ASSUME CallsFit PROVE Spec => OrderCallSpec
    OBVIOUS
<1>1. Init => Promised!Init
    <2> SUFFICES ASSUME Init PROVE Promised!Init
        OBVIOUS
    <2>1. last = 0 /\ placed = {} /\ answer = [c \in Calls |-> "none"]
        BY DEF Init
    <2>2. Late = {} /\ ~ Waiting
        BY <2>1 DEF Late, Waiting
    <2> QED
        BY <2>1, <2>2 DEF Promised!Init, Late, Waiting, Calls
<1>2. TypeOK /\ AttemptInv /\ CallInv /\ [Next]_vars => [Promised!Next]_(Promised!vars)
    <2> SUFFICES ASSUME TypeOK, AttemptInv, CallInv, [Next]_vars
                 PROVE  [Promised!Next]_(Promised!vars)
        OBVIOUS
    <2>1. CASE UNCHANGED vars
        BY <2>1 DEF vars, Promised!vars
    <2> QED
        BY <2>1, CoroutineIsPromised, MainIsPromised DEF Next, Coroutines
<1> QED
    BY <1>1, <1>2, CallInvariant, PTL DEF Spec, OrderCallSpec, Promised!Spec

\* What a call that was not throttled has returned is final.  An order that is
\* not at the broker then never gets there, so that the executor, which gives up
\* on a call that raised, need not expect an order it does not watch; and the
\* account it reads afterwards already shows the order of a lost reply.
AnswersAreFinal ==
    [][\A c \in Calls : answer[c] # "none" /\ co[c].thr = 0 =>
          /\ c \in placed' <=> c \in placed
          /\ answer'[c] = answer[c] /\ co'[c].thr = 0]_vars

\* Nothing happens to a call behind the back of its caller, while calls fit their
\* callers' patience and the server does not throttle it.
THEOREM NothingAfterTheAnswer == CallsFit => (Spec => AnswersAreFinal)
<1> SUFFICES ASSUME CallsFit PROVE Spec => AnswersAreFinal
    OBVIOUS
<1> DEFINE Final == \A c \in Calls : answer[c] # "none" /\ co[c].thr = 0 =>
                        /\ c \in placed' <=> c \in placed
                        /\ answer'[c] = answer[c] /\ co'[c].thr = 0
<1>1. TypeOK /\ AttemptInv /\ CallInv /\ Next => Final
    <2> SUFFICES ASSUME TypeOK, AttemptInv, CallInv, Next,
                        NEW c \in Calls, answer[c] # "none", co[c].thr = 0
                 PROVE  /\ c \in placed' <=> c \in placed
                        /\ answer'[c] = answer[c] /\ co'[c].thr = 0
        OBVIOUS
    <2>1. /\ co[c].at = "done" /\ c \in Coroutines /\ DOMAIN co = Coroutines
          /\ DOMAIN answer = Calls
        BY DEF CallInv, CallerNotOrphaned, TypeOK, Calls, Coroutines
    <2>2. ASSUME NEW d \in Coroutines, Coroutine(d)
          PROVE  /\ c \in placed' <=> c \in placed
                 /\ answer'[c] = answer[c] /\ co'[c].thr = 0
        <3>1. PICK n \in CoStates(made') : Moves(d, n)
            BY <2>2, MoveFact
        <3>2. d # c /\ co'[c] = co[c]
            BY <2>1, <3>1 DEF Moves
        <3>3. CASE UNCHANGED <<main, answer>>
                   /\ (placed' = placed \/ placed' = placed \cup {d})
            BY <3>2, <3>3
        <3>4. CASE Returned(d)
            BY <2>1, <3>2, <3>4 DEF Returned
        <3> QED
            BY <2>2, <3>3, <3>4, ReturnFact
    <2>3. CASE Call
        <3>1. UNCHANGED <<placed, answer>> /\ last < MaxCall /\ last \in Nat
              /\ co' = [co EXCEPT ![last + 1] = Loop(last + 1, 0, 0)]
            BY <2>3 DEF Call, TypeOK
        <3>2. c # last + 1
            BY <3>1 DEF CallInv, Calls
        <3> QED
            BY <2>1, <3>1, <3>2
    <2>4. CASE TimesOut
        <3>1. /\ main = "wait" /\ UNCHANGED <<co, placed>>
              /\ answer' = IF last = 0 THEN answer ELSE [answer EXCEPT ![last] = "error"]
            BY <2>4 DEF TimesOut
        <3>2. c # last
            BY <3>1 DEF CallInv
        <3> QED
            BY <2>1, <3>1, <3>2
    <2>5. CASE Exit
        BY <2>5 DEF Exit
    <2>6. CASE Leave
        <3>1. co'[c] = Cancelled(c) /\ UNCHANGED <<placed, answer>>
            BY <2>1, <2>6 DEF Leave, Coroutines
        <3> QED
            BY <2>1, <3>1 DEF Cancelled
    <2> QED
        BY <2>2, <2>3, <2>4, <2>5, <2>6 DEF Next, Main, Coroutines
<1>2. TypeOK /\ AttemptInv /\ CallInv /\ [Next]_vars => [Final]_vars
    BY <1>1
<1> QED
    BY <1>2, CallInvariant, PTL DEF Spec, AnswersAreFinal
=============================================================================
