---------------------------- MODULE Executor ----------------------------
(***************************************************************************)
(* MirrorExecutor.execute_plan (src/src/executor.py) driving the live      *)
(* client (src/src/mcp/robinhood_client.py) against a shared brokerage     *)
(* account, with the ownership ledger and the idempotency file it keeps on *)
(* disk, the KILL_SWITCH file that other programs write, crashes, and      *)
(* replies that never arrive.                                              *)
(*                                                                         *)
(* One cycle walks through the phases                                      *)
(*   idle, build, sells, bp, buys, save, reread, confirm                   *)
(* and leaves "sells" and "buys" for submit and poll once per order.       *)
(* Weights, NAV and prices only matter through the target share count they *)
(* give, so an intent's target is any number of shares up to MaxTarget.    *)
(***************************************************************************)
EXTENDS Brokerage

CONSTANTS
    Trigger,      \* trigger ids, one per pair of filings
    NoneTrigger,  \* those that contain ":none"
    MaxTarget,    \* bound: target shares of an intent
    MinNotional,  \* CFG.fractional_min_notional
    PollMax,      \* CFG.order_poll_max_attempts
    CleanMax,     \* bound: the clean-cycle counter saturates here
    InitCash      \* bound: buying power the account starts with

ASSUME TriggerAssumption == NoneTrigger \subseteq Trigger
ASSUME BoundsAssumption ==
    /\ MaxTarget \in Nat
    /\ MinNotional \in Nat
    /\ PollMax \in Nat \ {0}
    /\ CleanMax \in Nat \ {0}
    /\ InitCash \in Nat

VARIABLES
    \* files
    ledger,     \* the ownership ledger
    idemp,      \* the idempotency keys on disk and in memory
    clean,      \* clean_cycles_since_failure
    killed,     \* the KILL_SWITCH file exists
    \* the process
    pc,         \* phase of execute_plan
    posCache,   \* _positions_cache, or NoCache
    trigger,    \* trigger_id of this plan
    todo,       \* tickers of the intents PASS 1 has not looked at yet
    ready,      \* ready[t]: delta of a prepared order, 0 when there is none
    keys,       \* keys_added_this_plan
    fills,      \* pending_fills: signed, 0 when there is none
    available,  \* available_bp
    polls,      \* polling attempts for the watched order
    placed,     \* cycle_had_placement
    gap,        \* cycle_intended_qty - cycle_confirmed_qty
    \* history
    reached,    \* keys of the orders accepted, or answered without an error,
                \* under a trigger whose keys are saved
    forgotten,  \* those of them the executor has no memory of
    declined,   \* keys recorded for an order PASS 1 decided not to place
    drained,    \* buying power gone since it was read, not charged to the plan
    afterKill   \* orders sent since the kill switch appeared

fileVars == <<ledger, idemp, clean>>
planVars == <<trigger, todo, ready, keys, fills, available, placed, gap>>
orderHistory == <<reached, forgotten, drained>>
historyVars == <<orderHistory, declined, afterKill>>
vars == <<brokerVars, fileVars, killed, pc, posCache, planVars, polls, historyVars>>

-----------------------------------------------------------------------------
Phases == {"idle", "build", "sells", "bp", "buys", "submit", "poll",
           "save", "reread", "confirm"}

NoCache == [t \in {} |-> 0]
NoTrigger == "none"

NoDelta == [t \in Ticker |-> 0]

\* f"{trigger_id}:{ticker}:{side}:{round(delta, 6)}"; the sign is the side.
Keys == Trigger \X Ticker \X Int

Key(t, q) == <<trigger, t, q>>

TypeOK ==
    /\ BrokerTypeOK
    /\ ledger \in Ledgers
    /\ idemp \subseteq Keys
    /\ clean \in 0 .. CleanMax
    /\ killed \in BOOLEAN
    /\ pc \in Phases
    /\ posCache \in Shares \cup {NoCache}
    /\ trigger \in Trigger \cup {NoTrigger}
    /\ todo \subseteq Ticker
    /\ ready \in [Ticker -> Int]
    /\ keys \subseteq Keys
    /\ fills \in [Ticker -> Int]
    /\ available \in Nat
    /\ polls \in 0 .. PollMax
    /\ placed \in BOOLEAN
    /\ gap \in Int
    /\ reached \subseteq Keys
    /\ forgotten \subseteq Keys
    /\ declined \subseteq Keys
    /\ drained \in Nat
    /\ afterKill \in Nat

OnGrid == {n \in 0 .. MaxTarget : n % Grain = 0}

\* The ledger is either not there yet, and truleo has bought nothing, or it
\* records exactly what truleo holds.
Init ==
    /\ foreign \in [Ticker -> 0 .. MaxForeign]
    /\ bot \in [Ticker -> OnGrid]
    /\ ledger \in {[file |-> "seeded", owned |-> bot]}
                  \cup (IF bot = NoShares THEN {Absent} ELSE {})
    /\ bp = InitCash
    /\ unsettled = 0
    /\ order = NoOrder
    /\ restBuy = NoShares
    /\ restPay = NoShares
    /\ restSell = NoShares
    /\ idemp = {}
    /\ clean = 0
    /\ killed = FALSE
    /\ pc = "idle"
    /\ posCache = NoCache
    /\ trigger = NoTrigger
    /\ todo = {}
    /\ ready = NoDelta
    /\ keys = {}
    /\ fills = NoDelta
    /\ available = 0
    /\ polls = 0
    /\ placed = FALSE
    /\ gap = 0
    /\ reached = {}
    /\ forgotten = {}
    /\ declined = {}
    /\ drained = 0
    /\ afterKill = 0
    /\ faults = 0

-----------------------------------------------------------------------------
(***************************************************************************)
(* The start of a process and of a cycle.                                  *)
(***************************************************************************)

\* The live runner seeds the ledger before its first cycle.  At the first
\* migration truleo really is the only tenant of what it adopts.
SeedLedger ==
    /\ pc = "idle"
    /\ ~ IsSeeded(ledger)
    /\ ledger' = Seed(ledger, Held)
    /\ posCache' = NoCache
    /\ IF ledger.file = "absent" /\ \A t \in Ticker : foreign[t] + bot[t] >= 0
       THEN /\ bot' = Held
            /\ foreign' = NoShares
       ELSE UNCHANGED <<bot, foreign>>
    /\ UNCHANGED <<bp, unsettled, order, restBuy, restPay, restSell, faults, idemp,
                   clean, killed, pc, planVars, polls, historyVars>>

\* get_portfolio_snapshot reads the positions through the process's cache.
Snapshot == posCache' = IF posCache = NoCache THEN Held ELSE posCache

\* A cycle that has no orders, or finds the kill switch on, stops after its
\* snapshot: nothing refreshes the cache before the process's next cycle.
QuietCycle ==
    /\ pc = "idle"
    /\ Snapshot
    /\ UNCHANGED <<brokerVars, fileVars, killed, pc, planVars, polls, historyVars>>

\* The one snapshot of the cycle is also what execute_plan compares targets
\* with.  The reconciler hands it at most one intent per ticker.
StartCycle ==
    /\ pc = "idle"
    /\ ~ killed
    /\ Snapshot
    /\ trigger' \in Trigger
    /\ todo' \in (SUBSET Ticker) \ {{}}
    /\ pc' = "build"
    /\ UNCHANGED <<brokerVars, fileVars, killed, ready, keys, fills, available,
                   placed, gap, polls, historyVars>>

-----------------------------------------------------------------------------
(***************************************************************************)
(* PASS 1: validate every intent, place nothing.                           *)
(***************************************************************************)

\* Mutant: the sell gate asks for a ledger record but forgets to cap the sell.
GatedDeltaUncapped(t, target) ==
    LET delta == target - posCache[t]
    IN  IF delta < 0 /\ (~ IsSeeded(ledger) \/ Owned(ledger, t) <= 0)
        THEN 0 ELSE delta

\* The signed order an intent leads to, after the ownership sell gate: 0 when
\* there is nothing to do or the gate blocks the sell.
GatedDelta(t, target) ==
    LET delta == target - posCache[t]
    IN  IF delta >= 0 THEN delta
        ELSE IF ~ IsSeeded(ledger) \/ Owned(ledger, t) <= 0 THEN 0
        ELSE IF - delta <= Owned(ledger, t) THEN delta ELSE - Owned(ledger, t)

Abs(n) == IF n >= 0 THEN n ELSE - n

\* A quote without a usable price, or a delta or key that stops the intent.
SkipIntent(t) ==
    /\ UNCHANGED <<ready, keys, declined>>

\* The history follows the keys that the cycle is going to save.
Savable(key) == IF trigger \in NoneTrigger THEN {} ELSE {key}

\* Too small, or vetoed for a halt, the spread or the volume: the key is
\* recorded although no order is placed.
DeclineIntent(t, q) ==
    /\ keys' = keys \cup {Key(t, q)}
    /\ declined' = declined \cup Savable(Key(t, q))
    /\ UNCHANGED ready

PrepareIntent(t, q) ==
    /\ ready' = [ready EXCEPT ![t] = q]
    /\ UNCHANGED <<keys, declined>>

\* One intent with the share count its weight comes to.
BuildIntentTo(t, target) ==
    /\ pc = "build"
    /\ t \in todo
    /\ ~ killed
    /\ todo' = todo \ {t}
    /\ \/ SkipIntent(t)                                 \* bad_price
       \/ LET q == GatedDelta(t, target)
          IN  IF q = 0 \/ Key(t, q) \in idemp THEN SkipIntent(t)
              ELSE IF Abs(q) < MinNotional THEN DeclineIntent(t, q)
              ELSE \/ PrepareIntent(t, q)
                   \/ "veto" \in Faults /\ DeclineIntent(t, q)
    /\ UNCHANGED <<brokerVars, fileVars, killed, pc, posCache, trigger, fills,
                   available, placed, gap, polls, orderHistory, afterKill>>

BuildIntent(t) == \E target \in 0 .. MaxTarget : BuildIntentTo(t, target)

\* Nothing reads the snapshot between here and Reread, which replaces it.
EndBuild ==
    /\ pc = "build"
    /\ todo = {} \/ killed
    /\ todo' = {}
    /\ posCache' = NoCache
    /\ pc' = "sells"
    /\ UNCHANGED <<brokerVars, fileVars, killed, trigger, ready, keys, fills, available, placed, gap, polls, historyVars>>

-----------------------------------------------------------------------------
(***************************************************************************)
(* PASS 2 and PASS 3: place the sells, read the buying power, place the    *)
(* buys it covers.  The kill check comes before the order is sent, so the  *)
(* switch may appear in between.                                           *)
(***************************************************************************)

Sells == {t \in Ticker : ready[t] < 0}
Buys == {t \in Ticker : ready[t] > 0}

\* order holds the request while it is on its way to the broker.
Request(t, pay) == [tkr |-> t, qty |-> ready[t], pay |-> pay, want |-> 0,
                    filled |-> 0, state |-> "closed"]

\* Mutant: the switch is only looked at when the plan starts.
GoAlways == TRUE

Go == ~ killed

\* Bound: between PASS 1 and the order a price at most doubles.
Requotes(q) == 0 .. 2 * q

\* place_market_order gets the shares and quotes a buy again to send dollars.
Prepare(t) ==
    /\ Go
    /\ \/ /\ order' = Request(t, IF ready[t] > 0 THEN ready[t] ELSE 0)
          /\ UNCHANGED faults
       \/ /\ ready[t] > 0
          /\ Fault("requote")
          /\ \E pay \in Requotes(ready[t]) : order' = Request(t, pay)
    /\ ready' = [ready EXCEPT ![t] = 0]
    /\ pc' = "submit"
    /\ UNCHANGED <<foreign, bot, bp, unsettled, restBuy, restPay, restSell,
                   fileVars, killed, posCache, trigger, todo, keys, fills,
                   available, placed, gap, polls, historyVars>>

PlaceSell(t) ==
    /\ pc = "sells"
    /\ t \in Sells
    /\ Prepare(t)

\* Mutant: the sells wait for the switch to go away.
EndSellsWaits ==
    /\ pc = "sells"
    /\ Sells = {}
    /\ pc' = "bp"
    /\ UNCHANGED <<brokerVars, fileVars, killed, posCache, trigger, todo, ready,
                   keys, fills, available, placed, gap, polls, historyVars>>

EndSells ==
    /\ pc = "sells"
    /\ Sells = {} \/ killed
    /\ ready' = [t \in Ticker |-> IF t \in Sells THEN 0 ELSE ready[t]]
    /\ pc' = "bp"
    /\ UNCHANGED <<brokerVars, fileVars, killed, posCache, trigger, todo,
                   keys, fills, available, placed, gap, polls, historyVars>>

\* A failing query counts as no buying power; without buys there is none.
ReadBuyingPower ==
    /\ pc = "bp"
    /\ available' \in IF Buys = {} THEN {0} ELSE {0, bp}
    /\ drained' = 0
    /\ pc' = "buys"
    /\ UNCHANGED <<brokerVars, fileVars, killed, posCache, trigger, todo,
                   ready, keys, fills, placed, gap, polls, reached, forgotten,
                   declined, afterKill>>

\* Mutant: buys are not capped.
CoveredAlways(t) == TRUE

Covered(t) == ready[t] <= available

PlaceBuy(t) ==
    /\ pc = "buys"
    /\ t \in Buys
    /\ Covered(t)
    /\ Prepare(t)

SkipBuy(t) ==
    /\ pc = "buys"
    /\ t \in Buys
    /\ Go
    /\ ~ Covered(t)
    /\ ready' = [ready EXCEPT ![t] = 0]
    /\ UNCHANGED <<brokerVars, fileVars, killed, pc, posCache, trigger, todo,
                   keys, fills, available, placed, gap, polls, historyVars>>

EndBuys ==
    /\ pc = "buys"
    /\ Buys = {} \/ killed
    /\ ready' = NoDelta
    /\ available' = 0
    /\ drained' = 0
    /\ pc' = "save"
    /\ UNCHANGED <<brokerVars, fileVars, killed, posCache, trigger, todo,
                   keys, fills, placed, gap, polls, reached, forgotten,
                   declined, afterKill>>

-----------------------------------------------------------------------------
(***************************************************************************)
(* place_market_order and _poll_until_filled_or_timeout, and what          *)
(* _place_prepared_order makes of the result.                              *)
(***************************************************************************)

\* Mutant: the key of a failed order is recorded as well.
KeysAfterFailure(ok, t, q, filled) == keys \cup {Key(t, q)}

\* Mutant: only a filled order is remembered.
KeysAfterFill(ok, t, q, filled) ==
    IF ok /\ filled > 0 THEN keys \cup {Key(t, q)} ELSE keys

\* IDEMP: only an order that reached the broker is remembered.
KeysAfter(ok, t, q, filled) == IF ok THEN keys \cup {Key(t, q)} ELSE keys

FillsAfter(ok, t, q, filled) ==
    IF ok /\ filled > 0
    THEN [fills EXCEPT ![t] = IF q < 0 THEN - filled ELSE filled]
    ELSE fills

\* Mutant: a buy does not use up the buying power.
AvailableUnspent(ok, q) == available

AvailableAfter(ok, q) == IF ok /\ q > 0 THEN available - q ELSE available

\* The client reports success or failure and a number of filled shares.  The
\* executor believes exactly that.
Return(ok, filled) ==
    LET t == order.tkr
        q == order.qty
    IN  /\ pc' = IF q < 0 THEN "sells" ELSE "buys"
        /\ keys' = KeysAfter(ok, t, q, filled)
        /\ fills' = FillsAfter(ok, t, q, filled)
        /\ available' = AvailableAfter(ok, q)
        /\ clean' = IF ok /\ filled = 0 THEN 0 ELSE clean
        /\ placed' = (placed \/ ok)
        /\ gap' = IF ok THEN gap + Abs(q) - filled ELSE gap
        /\ polls' = 0
        /\ UNCHANGED <<ledger, idemp, killed, posCache, trigger, todo, ready,
                       declined>>

Sent == afterKill' = IF killed THEN afterKill + 1 ELSE afterKill

TheKey == Key(order.tkr, order.qty)

\* What the dollars of a buy exceed what the plan charges itself for it.
Slip == IF order.qty > 0 /\ order.pay > order.qty
        THEN order.pay - order.qty ELSE 0

\* broker_error, below_min_notional, or a refusal by the broker: no order.
Refused ==
    /\ pc = "submit"
    /\ Sent
    /\ Return(FALSE, 0)
    /\ Unwatch
    /\ UNCHANGED <<orderHistory, faults>>

Accepted ==
    /\ pc = "submit"
    /\ Sent
    /\ Accept(order.tkr, order.qty, order.pay)
    /\ reached' = reached \cup Savable(TheKey)
    /\ drained' = drained + Slip
    /\ polls' = 0
    /\ pc' = "poll"
    /\ UNCHANGED <<fileVars, killed, posCache, planVars, declined, forgotten, faults>>

\* The broker has the order but the call raised.  Nobody watches the order.
ReplyLost ==
    /\ pc = "submit"
    /\ Fault("reply")
    /\ Sent
    /\ AcceptUnwatched(order.tkr, order.qty, order.pay)
    /\ reached' = reached \cup Savable(TheKey)
    /\ forgotten' = forgotten \cup Savable(TheKey)
    /\ drained' = drained + order.pay
    /\ Return(FALSE, 0)

\* The reply has neither an error nor an order id.  There is nothing to poll,
\* and it counts as a success whether or not there is an order behind it.
ReplyUnnamed ==
    /\ pc = "submit"
    /\ Fault("noid")
    /\ Sent
    /\ \/ AcceptUnwatched(order.tkr, order.qty, order.pay)
       \/ Unwatch
    /\ reached' = reached \cup Savable(TheKey)
    /\ forgotten' = forgotten \ Savable(TheKey)
    /\ drained' = drained + Slip
    /\ Return(TRUE, 0)

\* The order is still listed as open: try again.  On the last attempt the
\* client gives up with poll_timeout, which is a failure to the executor.
PollStillOpen ==
    /\ pc = "poll"
    /\ order.state = "open"
    /\ IF polls + 1 < PollMax
       THEN /\ polls' = polls + 1
            /\ UNCHANGED <<brokerVars, fileVars, pc, posCache, planVars, killed,
                           historyVars>>
       ELSE /\ Fault("slow")
            /\ Return(FALSE, 0)
            /\ Unwatch
            /\ forgotten' = forgotten \cup Savable(TheKey)
            /\ drained' = drained + (IF order.qty > 0 THEN order.qty ELSE 0)
            /\ UNCHANGED <<reached, afterKill>>

\* The order is no longer listed: its cumulative quantity is the fill.
PollCleared ==
    /\ pc = "poll"
    /\ order.state = "closed"
    /\ Return(TRUE, order.filled)
    /\ Unwatch
    /\ forgotten' = forgotten \ Savable(TheKey)
    /\ UNCHANGED <<reached, drained, afterKill, faults>>

\* get_open_orders swallows its errors, so a failing call looks like a
\* cleared order; get_order may fail too, and then nothing was filled.
PollBlind ==
    /\ pc = "poll"
    /\ Fault("poll")
    /\ \/ Return(TRUE, order.filled)
       \/ Return(TRUE, 0)
    /\ Unwatch
    /\ forgotten' = forgotten \ Savable(TheKey)
    /\ UNCHANGED <<reached, drained, afterKill>>

-----------------------------------------------------------------------------
(***************************************************************************)
(* After the last order: save the keys, read the positions again, update   *)
(* the ledger, count the cycle.                                            *)
(***************************************************************************)

SaveKeys ==
    /\ pc = "save"
    /\ idemp' = IF trigger \in NoneTrigger THEN idemp ELSE idemp \cup keys
    /\ keys' = {}
    /\ pc' = "reread"
    /\ UNCHANGED <<brokerVars, ledger, clean, killed, posCache, trigger, todo,
                   ready, fills, available, placed, gap, polls, historyVars>>

Reread ==
    /\ pc = "reread"
    /\ \/ posCache' = Held /\ UNCHANGED faults
       \/ posCache' = NoCache /\ Fault("reread")
    /\ pc' = "confirm"
    /\ UNCHANGED <<accountVars, fileVars, killed, planVars, polls, historyVars>>

ShownByBroker(t) == posCache # NoCache /\ posCache[t] > 0

\* Mutant: sells too are recorded only when the broker shows the ticker.
LedgerAfterShown(t, n) ==
    IF ~ IsSeeded(ledger) \/ ~ ShownByBroker(t) THEN ledger
    ELSE IF n < 0 THEN RecordSell(ledger, t, - n) ELSE RecordBuy(ledger, t, n)

\* A buy is recorded only when the broker shows a position in the ticker; a
\* sell is trusted.
LedgerAfter(t, n) ==
    IF ~ IsSeeded(ledger) THEN ledger
    ELSE IF n < 0 THEN RecordSell(ledger, t, - n)
    ELSE IF ShownByBroker(t) THEN RecordBuy(ledger, t, n)
    ELSE ledger

\* Every record rewrites the ledger file, so fills are recorded one by one.
ConfirmFill(t) ==
    /\ pc = "confirm"
    /\ fills[t] # 0
    /\ ledger' = LedgerAfter(t, fills[t])
    /\ fills' = [fills EXCEPT ![t] = 0]
    /\ UNCHANGED <<brokerVars, idemp, clean, killed, pc, posCache, trigger, todo,
                   ready, keys, available, placed, gap, polls, historyVars>>

\* The local variables of execute_plan go away.
Forget ==
    /\ pc' = "idle"
    /\ trigger' = NoTrigger
    /\ todo' = {}
    /\ ready' = NoDelta
    /\ keys' = {}
    /\ fills' = NoDelta
    /\ available' = 0
    /\ placed' = FALSE
    /\ gap' = 0
    /\ polls' = 0

\* A cycle without any accepted order counts as clean.
EndCycle ==
    /\ pc = "confirm"
    /\ fills = NoDelta
    /\ clean' = IF placed /\ gap # 0 THEN 0
                ELSE IF clean < CleanMax THEN clean + 1 ELSE clean
    /\ Forget
    /\ UNCHANGED <<brokerVars, ledger, idemp, killed, posCache, historyVars>>

-----------------------------------------------------------------------------
(***************************************************************************)
(* The end of a process, and the kill switch.                              *)
(***************************************************************************)

\* A process ends after its cycles; the next one starts without a cache.
EndProcess ==
    /\ pc = "idle"
    /\ posCache # NoCache
    /\ posCache' = NoCache
    /\ UNCHANGED <<brokerVars, fileVars, killed, pc, planVars, polls, historyVars>>

\* get_quote raises in PASS 1: the exception leaves execute_plan and ends the
\* process.  Nothing has been placed; the keys recorded so far are lost.
QuoteRaises ==
    /\ pc = "build"
    /\ todo # {}
    /\ ~ killed
    /\ Forget
    /\ posCache' = NoCache
    /\ UNCHANGED <<brokerVars, fileVars, killed, historyVars>>

\* The process dies.  It may die in the middle of rewriting the key file,
\* which then loads as the empty set, or of rewriting the ledger.
Crash ==
    /\ pc # "idle"
    /\ Fault("crash")
    /\ Forget
    /\ posCache' = NoCache
    /\ Unwatch
    /\ \/ UNCHANGED <<idemp, ledger>>
       \/ /\ "torn" \in Faults
          /\ pc = "save" /\ keys # {} /\ trigger \notin NoneTrigger
          /\ idemp' = {}
          /\ UNCHANGED ledger
       \/ /\ "torn" \in Faults
          /\ pc = "confirm" /\ fills # NoDelta /\ IsSeeded(ledger)
          /\ ledger' = Torn
          /\ UNCHANGED idemp
    /\ forgotten' = forgotten \cup (reached \ idemp')
    /\ drained' = 0
    /\ UNCHANGED <<clean, killed, reached, declined, afterKill>>

\* The drawdown guard or the operator.
SetKill ==
    /\ ~ killed
    /\ killed' = TRUE
    /\ afterKill' = 0
    /\ UNCHANGED <<brokerVars, fileVars, pc, posCache, planVars, polls,
                   orderHistory, declined>>

ClearKill ==
    /\ killed
    /\ killed' = FALSE
    /\ afterKill' = 0
    /\ UNCHANGED <<brokerVars, fileVars, pc, posCache, planVars, polls,
                   orderHistory, declined>>

-----------------------------------------------------------------------------
\* What follows PASS 1, where the weights of the plan no longer matter.
CarryOut ==
    \/ EndBuild \/ EndSells \/ ReadBuyingPower \/ EndBuys
    \/ \E t \in Ticker : PlaceSell(t) \/ PlaceBuy(t) \/ SkipBuy(t) \/ ConfirmFill(t)
    \/ Refused \/ Accepted \/ ReplyLost \/ ReplyUnnamed
    \/ PollStillOpen \/ PollCleared \/ PollBlind
    \/ SaveKeys \/ Reread \/ EndCycle

Execute == CarryOut \/ \E t \in Ticker : BuildIntent(t)

Broker ==
    /\ BrokerWorks \/ BrokerElse
    /\ drained' = IF available > 0 /\ bp' < bp THEN drained + (bp - bp') ELSE drained
    /\ UNCHANGED <<fileVars, killed, pc, posCache, planVars, polls, reached,
                   forgotten, declined, afterKill>>

Next ==
    \/ SeedLedger \/ QuietCycle \/ StartCycle \/ EndProcess
    \/ Execute
    \/ QuoteRaises \/ Crash
    \/ SetKill \/ ClearKill
    \/ Broker

Spec == Init /\ [][Next]_vars

\* A running process keeps running, and the broker keeps working an order.
FairSpec ==
    /\ Spec
    /\ WF_vars(Execute)
    /\ WF_vars(BrokerWorks /\ Broker)

-----------------------------------------------------------------------------
(***************************************************************************)
(* Properties that hold whatever the environment does.                     *)
(***************************************************************************)

\* The ownership sell gate: no sell is on its way, or working at the broker,
\* for more than the ledger records, give or take half a unit of rounding to
\* the broker's grid; without a ledger there is no sell at all.
SellWithinLedger ==
    order # NoOrder /\ order.qty < 0 =>
        /\ IsSeeded(ledger)
        /\ - order.qty <= Owned(ledger, order.tkr)
        /\ 2 * (order.want - Owned(ledger, order.tkr)) <= Grain

\* Orders are checked against the switch one by one, so however the switch
\* and the orders interleave at most one order leaves after it appears.
AtMostOneOrderAfterKill == killed => afterKill <= 1

\* A key on disk stands for an order that the broker took, or answered with
\* neither an error nor an id, or that PASS 1 declined: an order that failed
\* before the broker took it stays retryable.
SavedKeysAreJustified == idemp \subseteq reached \cup declined

\* Every cycle ends, whether or not its orders ever fill.
CycleEnds == pc # "idle" ~> pc = "idle"

-----------------------------------------------------------------------------
(***************************************************************************)
(* Properties of an account whose broker answers in time.                  *)
(***************************************************************************)

\* Between cycles the ledger says exactly what truleo's orders have bought,
\* through partial fills, cancellations, refusals and the kill switch.
LedgerMatchesHoldings ==
    pc = "idle" /\ IsSeeded(ledger) => ledger.owned = bot

\* truleo never sells a share it did not buy, but for half a unit of the
\* broker's grid when the last of a position is rounded up.
NeverSellsForeign == \A t \in Ticker : 2 * bot[t] >= - Grain

\* No buy is sent that the account's buying power does not cover, but for what
\* the plan cannot know of: what its price rose by when the client quoted it
\* again, and what slips, orders given up on and the owner have taken of the
\* buying power since the plan read it.
OverdraftHasACause ==
    pc = "submit" /\ order.qty > 0 => order.pay <= bp + drained + Slip

\* Without those causes nothing may be sent that is not covered.
NoOverdraftAttempt == pc = "submit" /\ order.qty > 0 => order.pay <= bp

\* Under a trigger whose keys are saved, no order is sent whose key has been
\* reached before, unless the executor was left without a memory of it: the
\* reply was lost, the client gave up on it, or the process died before the
\* save or tore the file.
NoSecondOrderForKey ==
    pc = "submit" => TheKey \notin reached \ forgotten

\* A buy the broker does not show after its fill, confirm_fill_failed, is one
\* of the events that reset the clean-cycle counter.
ConfirmFailureResetsClean ==
    [][\A t \in Ticker :
        pc = "confirm" /\ IsSeeded(ledger) /\ fills[t] > 0 /\ fills'[t] = 0
            /\ ledger' = ledger => clean' = 0]_vars

\* The ledger is seeded once, at the migration.
SeedIsOneTime ==
    [][~ IsSeeded(ledger) /\ IsSeeded(ledger') => ledger.file = "absent"]_vars

-----------------------------------------------------------------------------
(***************************************************************************)
(* What makes TypeOK, SellWithinLedger and SavedKeysAreJustified inductive.*)
(***************************************************************************)

Watching == pc \in {"submit", "poll"}

\* There is an order exactly while the client is busy with one.
OrderInv ==
    IF Watching
    THEN /\ order \in Orders
         /\ order.qty # 0
         /\ order.filled <= order.want
         /\ pc = "submit" => order.want = 0
    ELSE order = NoOrder

PlanInv ==
    /\ pc # "idle" => trigger \in Trigger
    /\ pc = "build" => posCache \in Shares
    /\ pc = "idle" => keys = {}
    /\ pc \in {"idle", "save", "reread", "confirm"} => ready = NoDelta

\* The ledger does not change between the sell gate and the confirm phase, so
\* what the gate let through stays covered.
SellInv ==
    \A t \in Ticker : ready[t] < 0 =>
        IsSeeded(ledger) /\ - ready[t] <= Owned(ledger, t)

BuyInv == Watching /\ order.qty > 0 => order.qty <= available

KeyInv ==
    trigger \notin NoneTrigger =>
        /\ keys \subseteq reached \cup declined
        /\ pc = "poll" => TheKey \in reached

IInv ==
    /\ TypeOK
    /\ OrderInv
    /\ PlanInv
    /\ SellInv
    /\ SellWithinLedger
    /\ BuyInv
    /\ KeyInv
    /\ SavedKeysAreJustified

\* What makes AtMostOneOrderAfterKill inductive: the one order that may still
\* leave is the one that was already past the check.
AfterKillInv ==
    killed => afterKill <= IF pc = "submit" THEN 0 ELSE 1
=============================================================================
