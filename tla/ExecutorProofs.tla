------------------------- MODULE ExecutorProofs -------------------------
(***************************************************************************)
(* Proofs about Executor for every set of tickers and triggers, every      *)
(* bound and every combination of faults; and, at the end, about the       *)
(* program as it is deployed (DailyMirror), whatever 13Fs are published.   *)
(***************************************************************************)
EXTENDS DailyMirror, TLAPS

ConstantsOK ==
    /\ Grain \in Nat \ {0}
    /\ MaxForeign \in Nat
    /\ MaxFaults \in Nat
    /\ MaxTarget \in Nat
    /\ PollMax \in Nat \ {0}
    /\ CleanMax \in Nat \ {0}
    /\ InitCash \in Nat
    /\ NoneTrigger \subseteq Trigger

\* The assumptions of the modules, as one fact.
LEMMA ConstantsFact == ConstantsOK
  BY GrainAssumption, MaxForeignAssumption, FaultsAssumption, TriggerAssumption,
     BoundsAssumption DEF ConstantsOK

-----------------------------------------------------------------------------
(***************************************************************************)
(* The initial states.                                                     *)
(***************************************************************************)

\* Every initial state of the executor satisfies the inductive invariant.
LEMMA InitInv == Init => IInv
<1> SUFFICES ASSUME Init PROVE IInv
  OBVIOUS
<1> USE ConstantsFact DEF ConstantsOK, Init
<1>1. BrokerTypeOK
  BY DEF BrokerTypeOK, Shares, NoShares, OnGrid
<1>2. ledger \in Ledgers
  BY DEF Ledgers, Absent, Shares, NoShares, OnGrid
<1>3. /\ idemp \subseteq Keys /\ keys \subseteq Keys
      /\ reached \subseteq Keys /\ forgotten \subseteq Keys /\ declined \subseteq Keys
  OBVIOUS
<1>4. /\ ready \in [Ticker -> Int]
      /\ fills \in [Ticker -> Int]
      /\ todo \subseteq Ticker
  BY DEF NoDelta
<1>5. /\ clean \in 0 .. CleanMax
      /\ polls \in 0 .. PollMax
      /\ gap \in Int
      /\ available \in Nat
      /\ drained \in Nat
      /\ afterKill \in Nat
  OBVIOUS
<1>6. TypeOK
  BY <1>1, <1>2, <1>3, <1>4, <1>5, Zenon DEF TypeOK, Phases
<1>7. OrderInv /\ PlanInv /\ SellInv /\ BuyInv /\ SellWithinLedger
  BY DEF OrderInv, PlanInv, SellInv, BuyInv, SellWithinLedger, Watching, NoDelta
<1>8. KeyInv /\ SavedKeysAreJustified
  BY DEF KeyInv, SavedKeysAreJustified
<1>9. QED
  BY <1>6, <1>7, <1>8 DEF IInv

-----------------------------------------------------------------------------
(***************************************************************************)
(* Steps of the broker and of the account's owner.                         *)
(***************************************************************************)

\* Division with remainder.
LEMMA Division ==
  ASSUME NEW g \in Nat \ {0}, NEW n \in Int
  PROVE  n \div g \in Int /\ n % g \in 0 .. g - 1 /\ n = g * (n \div g) + (n % g)
OBVIOUS

\* What has gone of an amount adds to what had gone before.
LEMMA Drainage ==
    \A m, n, d \in Nat : 0 <= m + d + 0 /\ (n < m => d + (m - n) \in Nat)
OBVIOUS

\* The share of an amount that goes with a part of an order is an amount.
LEMMA PartOfAmount ==
  ASSUME NEW m \in Nat, NEW k \in Nat, NEW n \in Nat \ {0}
  PROVE  (m * k) \div n \in Nat
<1>1. m * k \in Nat
  OBVIOUS
<1>2. \A j \in Nat : j \div n \in Nat
  OBVIOUS
<1>3. QED
  BY <1>1, <1>2

\* What an order has left to do, and holds of the buying power, is an amount.
LEMMA UnspentType ==
  ASSUME NEW o \in Orders
  PROVE  Rest(o) \in Nat /\ Unspent(o) \in Nat
<1>1. /\ o.pay \in Nat /\ o.want \in Nat /\ o.filled \in Nat /\ Rest(o) \in Nat
      /\ Rest(o) > 0 => o.want # 0
  BY DEF Orders, Rest
<1>2. CASE Rest(o) > 0
  <2>1. (o.pay * Rest(o)) \div o.want \in Nat
    BY <1>1, <1>2, PartOfAmount
  <2>2. QED
    BY <1>1, <2>1 DEF Unspent
<1>3. CASE ~ Rest(o) > 0
  BY <1>1, <1>3 DEF Unspent
<1>4. QED
  BY <1>2, <1>3

\* A watched order filling keeps its quantities in their ranges.
LEMMA FillOrderType ==
  ASSUME BrokerTypeOK, OrderInv, FillOrder
  PROVE  /\ BrokerTypeOK'
         /\ order' \in Orders
         /\ order'.tkr = order.tkr /\ order'.qty = order.qty
         /\ order'.want = order.want /\ order'.filled <= order'.want
<1> USE ConstantsFact DEF ConstantsOK
<1>1. order \in Orders
  BY DEF FillOrder, OrderInv
<1>2. PICK n \in Pieces(order.want - order.filled) :
        /\ order' = [order EXCEPT !.filled = @ + n,
                                  !.state = IF order.filled + n < order.want
                                             THEN "open" ELSE "closed"]
        /\ IF order.qty > 0
           THEN /\ bot' = [bot EXCEPT ![order.tkr] = @ + n]
                /\ UNCHANGED unsettled
           ELSE /\ bot' = [bot EXCEPT ![order.tkr] = @ - n]
                /\ unsettled' = unsettled + n
  BY DEF FillOrder
<1>3. n \in Nat /\ order.filled + n <= order.want
  BY <1>1 DEF Pieces, Orders
<1> DEFINE st == IF order.filled + n < order.want THEN "open" ELSE "closed"
           m == order.filled + n
<1>4. /\ st \in {"open", "closed"} /\ m \in Nat
      /\ order' = [order EXCEPT !.filled = m, !.state = st]
  BY <1>1, <1>2, <1>3 DEF Orders
<1>5. order' \in Orders
  <2> HIDE DEF st, m
  <2> QED BY <1>1, <1>4 DEF Orders
<1>6. /\ order'.tkr = order.tkr /\ order'.qty = order.qty
      /\ order'.want = order.want /\ order'.filled = order.filled + n
  BY <1>1, <1>4 DEF Orders
<1>7. bot' \in [Ticker -> Int] /\ unsettled' \in Nat
  BY <1>1, <1>2, <1>3 DEF Orders, BrokerTypeOK
<1>8. QED
  BY <1>3, <1>5, <1>6, <1>7 DEF BrokerTypeOK, FillOrder

\* So does a watched order being cancelled.
LEMMA CancelOrderType ==
  ASSUME BrokerTypeOK, OrderInv, CancelOrder
  PROVE  /\ BrokerTypeOK'
         /\ order' \in Orders
         /\ order'.tkr = order.tkr /\ order'.qty = order.qty
         /\ order'.want = order.want /\ order'.filled <= order'.want
<1>1. order \in Orders /\ order.filled <= order.want
  BY DEF CancelOrder, OrderInv
<1>2. order' = [order EXCEPT !.state = "closed"]
  BY DEF CancelOrder
<1>3. /\ order' \in Orders
      /\ order'.tkr = order.tkr /\ order'.qty = order.qty
      /\ order'.want = order.want /\ order'.filled <= order'.want
  BY <1>1, <1>2 DEF Orders
<1>4. bp' \in Nat
  BY <1>1, UnspentType DEF CancelOrder, BrokerTypeOK
<1>5. QED
  BY <1>3, <1>4 DEF BrokerTypeOK, CancelOrder

\* What else the account does leaves the watched order alone.
LEMMA BrokerElseType ==
  ASSUME BrokerTypeOK, BrokerElse
  PROVE  BrokerTypeOK' /\ order' = order
<1> USE ConstantsFact DEF ConstantsOK
<1>1. CASE Settle
  BY <1>1 DEF Settle, BrokerTypeOK
<1>2. ASSUME NEW t \in Ticker, FillResting(t) PROVE BrokerTypeOK' /\ order' = order
  <2>1. ASSUME NEW n \in Pieces(restBuy[t]),
               restBuy' = [restBuy EXCEPT ![t] = @ - n],
               restPay' = [restPay EXCEPT ![t] = (@ * (restBuy[t] - n)) \div restBuy[t]],
               bot' = [bot EXCEPT ![t] = @ + n],
               UNCHANGED <<foreign, bp, unsettled, order, restSell, faults>>
        PROVE  BrokerTypeOK' /\ order' = order
    <3>1. /\ restBuy[t] \in Nat /\ restPay[t] \in Nat /\ n \in Nat
          /\ n # 0 /\ n <= restBuy[t] /\ restBuy[t] # 0 /\ restBuy[t] - n \in Nat
      BY DEF Pieces, BrokerTypeOK, Shares
    <3>2. (restPay[t] * (restBuy[t] - n)) \div restBuy[t] \in Nat
      BY <3>1, PartOfAmount
    <3>3. restPay' \in Shares
      BY <2>1, <3>2 DEF BrokerTypeOK, Shares
    <3>4. restBuy' \in Shares /\ bot' \in [Ticker -> Int]
      BY <2>1, <3>1 DEF BrokerTypeOK, Shares
    <3>5. QED
      BY <2>1, <3>3, <3>4 DEF BrokerTypeOK
  <2>2. CASE \E n \in Pieces(restSell[t]) :
        /\ restSell' = [restSell EXCEPT ![t] = @ - n]
        /\ bot' = [bot EXCEPT ![t] = @ - n]
        /\ unsettled' = unsettled + n
        /\ UNCHANGED <<foreign, bp, order, restBuy, restPay, faults>>
    BY <2>2 DEF Pieces, BrokerTypeOK, Shares
  <2>3. QED
    BY <1>2, <2>1, <2>2 DEF FillResting
<1>3. ASSUME NEW t \in Ticker, CancelResting(t) PROVE BrokerTypeOK' /\ order' = order
  BY <1>3 DEF CancelResting, BrokerTypeOK, Shares
<1>4. ASSUME NEW t \in Ticker, OwnerTrade(t) PROVE BrokerTypeOK' /\ order' = order
  BY <1>4 DEF OwnerTrade, Fault, BrokerTypeOK, Shares
<1>5. QED
  BY <1>1, <1>2, <1>3, <1>4 DEF BrokerElse

\* A step of the broker keeps the inductive invariant.
LEMMA BrokerInv == IInv /\ Broker => IInv'
<1> SUFFICES ASSUME IInv, Broker PROVE IInv'
  OBVIOUS
<1>1. BrokerTypeOK /\ OrderInv
  BY DEF IInv, TypeOK
<1>2. /\ BrokerTypeOK'
      /\ \/ order' = order
         \/ /\ order # NoOrder /\ order' \in Orders
            /\ order'.tkr = order.tkr /\ order'.qty = order.qty
            /\ order'.want = order.want /\ order'.filled <= order'.want
  <2>1. CASE FillOrder
    BY <1>1, <2>1, FillOrderType DEF FillOrder
  <2>2. CASE CancelOrder
    BY <1>1, <2>2, CancelOrderType DEF CancelOrder
  <2>3. CASE BrokerElse
    BY <1>1, <2>3, BrokerElseType
  <2>4. QED
    BY <2>1, <2>2, <2>3 DEF Broker, BrokerWorks
<1> USE DEF Broker, fileVars, planVars
<1>3. TypeOK'
  <2>1. drained' \in Nat
    <3>1. drained \in Nat /\ bp \in Nat /\ bp' \in Nat
      BY <1>1, <1>2 DEF IInv, TypeOK, BrokerTypeOK
    <3>2. CASE drained' = drained
      BY <3>1, <3>2
    <3>3. CASE drained' = drained + (bp - bp') /\ bp' < bp
      BY <3>1, <3>3, Drainage
    <3>4. QED
      BY <3>2, <3>3
  <2>2. QED
    BY <1>2, <2>1 DEF IInv, TypeOK
<1>4. OrderInv'
  BY <1>1, <1>2 DEF OrderInv, Watching
<1>5. PlanInv' /\ SellInv'
  BY DEF IInv, PlanInv, SellInv
<1>6. SellWithinLedger'
  BY <1>1, <1>2 DEF IInv, SellWithinLedger
<1>7. BuyInv'
  BY <1>1, <1>2 DEF IInv, BuyInv, Watching, OrderInv
<1>8. KeyInv' /\ SavedKeysAreJustified'
  BY <1>1, <1>2 DEF IInv, KeyInv, SavedKeysAreJustified, TheKey, Key, OrderInv, Watching
<1>9. QED
  BY <1>3, <1>4, <1>5, <1>6, <1>7, <1>8 DEF IInv

-----------------------------------------------------------------------------
(***************************************************************************)
(* Steps of a process between its cycles, and of the kill switch.          *)
(***************************************************************************)

\* Adopting the positions the broker reports yields a ledger.
LEMMA SeedType ==
  ASSUME BrokerTypeOK, ledger \in Ledgers
  PROVE  Held \in Shares /\ Seed(ledger, Held) \in Ledgers
<1>1. Held \in Shares
  BY DEF Held, Shares, BrokerTypeOK
<1>2. QED
  BY <1>1 DEF Seed, IsSeeded, Ledgers

\* A step between cycles keeps the inductive invariant.
LEMMA IdleInv ==
  ASSUME IInv, SeedLedger \/ QuietCycle \/ StartCycle \/ EndProcess
  PROVE  IInv'
<1> USE DEF planVars, historyVars, orderHistory, brokerVars, accountVars, fileVars
<1>1. TypeOK /\ BrokerTypeOK /\ ledger \in Ledgers /\ Held \in Shares
  BY SeedType DEF IInv, TypeOK
<1>2. CASE SeedLedger
  <2>1. pc = "idle" /\ order = NoOrder /\ ready = NoDelta /\ pc' = pc /\ order' = order
    BY <1>2 DEF SeedLedger, IInv, OrderInv, Watching, PlanInv
  <2>2. BrokerTypeOK'
    BY <1>1, <1>2 DEF SeedLedger, BrokerTypeOK, Shares, NoShares
  <2>3. TypeOK'
    BY <1>1, <1>2, <2>2, SeedType DEF SeedLedger, TypeOK
  <2>4. OrderInv' /\ PlanInv' /\ SellInv' /\ SellWithinLedger'
    BY <1>2, <2>1 DEF SeedLedger, OrderInv, PlanInv, SellInv, SellWithinLedger,
       Watching, NoDelta, IInv
  <2>5. BuyInv' /\ KeyInv' /\ SavedKeysAreJustified'
    BY <1>2, <2>1 DEF SeedLedger, BuyInv, KeyInv, SavedKeysAreJustified, Watching, IInv
  <2>6. QED
    BY <2>3, <2>4, <2>5 DEF IInv
<1>3. CASE QuietCycle \/ EndProcess
  <2>1. posCache' \in Shares \cup {NoCache} /\ pc = "idle"
    BY <1>1, <1>3 DEF QuietCycle, EndProcess, Snapshot, TypeOK
  <2>2. TypeOK'
    BY <1>1, <1>3, <2>1 DEF QuietCycle, EndProcess, TypeOK, BrokerTypeOK
  <2>3. OrderInv' /\ PlanInv' /\ SellInv' /\ SellWithinLedger'
    BY <1>3, <2>1 DEF QuietCycle, EndProcess, OrderInv, PlanInv, SellInv,
       SellWithinLedger, Watching, IInv
  <2>4. BuyInv' /\ KeyInv' /\ SavedKeysAreJustified'
    BY <1>3, <2>1 DEF QuietCycle, EndProcess, BuyInv, KeyInv, TheKey, Key, SavedKeysAreJustified,
       Watching, IInv
  <2>5. QED
    BY <2>2, <2>3, <2>4 DEF IInv
<1>4. CASE StartCycle
  <2>1. /\ posCache' \in Shares /\ pc = "idle" /\ pc' = "build" /\ trigger' \in Trigger
        /\ order = NoOrder /\ order' = order /\ todo' \subseteq Ticker
    <3>1. posCache = NoCache \/ posCache \in Shares
      BY <1>1 DEF TypeOK
    <3>2. QED
      BY <1>1, <1>4, <3>1 DEF StartCycle, Snapshot, IInv, OrderInv, Watching
  <2>2. TypeOK'
    BY <1>1, <1>4, <2>1 DEF StartCycle, TypeOK, BrokerTypeOK, Phases
  <2>3. OrderInv' /\ PlanInv' /\ SellInv' /\ SellWithinLedger'
    BY <1>4, <2>1 DEF StartCycle, OrderInv, PlanInv, SellInv, SellWithinLedger,
       Watching, IInv
  <2>4. BuyInv' /\ KeyInv' /\ SavedKeysAreJustified'
    BY <1>4, <2>1 DEF StartCycle, BuyInv, KeyInv, PlanInv, SavedKeysAreJustified, Watching,
       IInv
  <2>5. QED
    BY <2>2, <2>3, <2>4 DEF IInv
<1>5. QED
  BY <1>2, <1>3, <1>4

\* So does a change of the kill switch.
LEMMA KillInv == IInv /\ (SetKill \/ ClearKill) => IInv'
<1> SUFFICES ASSUME IInv, SetKill \/ ClearKill PROVE IInv'
  OBVIOUS
<1> USE DEF SetKill, ClearKill, planVars, brokerVars, accountVars, fileVars, orderHistory
<1>1. TypeOK'
  <2>1. BrokerTypeOK'
    BY DEF IInv, TypeOK, BrokerTypeOK
  <2>2. killed' \in BOOLEAN
    BY Zenon
  <2>3. afterKill' \in Nat
    OBVIOUS
  <2>4. QED
    BY <2>1, <2>2, <2>3 DEF IInv, TypeOK
<1>2. OrderInv' /\ PlanInv' /\ SellInv' /\ SellWithinLedger'
  BY DEF OrderInv, PlanInv, SellInv, SellWithinLedger, Watching, IInv
<1>3. BuyInv' /\ KeyInv' /\ SavedKeysAreJustified'
  BY DEF BuyInv, KeyInv, TheKey, Key, SavedKeysAreJustified, Watching, IInv
<1>4. QED
  BY <1>1, <1>2, <1>3 DEF IInv

-----------------------------------------------------------------------------
(***************************************************************************)
(* PASS 1.                                                                 *)
(***************************************************************************)

\* The sell gate lets through no more than the ledger records.
LEMMA GatedDeltaFact ==
  ASSUME ledger \in Ledgers, posCache \in Shares, NEW t \in Ticker,
         NEW target \in Nat
  PROVE  /\ GatedDelta(t, target) \in Int
         /\ GatedDelta(t, target) < 0 =>
              IsSeeded(ledger) /\ - GatedDelta(t, target) <= Owned(ledger, t)
  BY DEF GatedDelta, Ledgers, Shares, Owned

\* Looking at one intent keeps the inductive invariant.
LEMMA BuildInv ==
  ASSUME IInv, NEW t \in Ticker, NEW target \in 0 .. MaxTarget,
         BuildIntentTo(t, target)
  PROVE  IInv'
<1> USE ConstantsFact DEF ConstantsOK, brokerVars, accountVars, fileVars, orderHistory
<1>1. /\ TypeOK /\ BrokerTypeOK /\ ledger \in Ledgers /\ posCache \in Shares
      /\ trigger \in Trigger /\ pc = "build" /\ pc' = "build" /\ order = NoOrder
      /\ order' = order /\ ledger' = ledger /\ trigger' = trigger
  BY DEF IInv, TypeOK, BuildIntentTo, PlanInv, OrderInv, Watching
<1>2. /\ ready' \in [Ticker -> Int]
      /\ keys' \subseteq Keys /\ declined' \subseteq Keys
      /\ trigger \notin NoneTrigger => keys' \subseteq reached \cup declined'
      /\ declined \subseteq declined'
      /\ \A s \in Ticker : ready'[s] < 0 =>
           IsSeeded(ledger) /\ - ready'[s] <= Owned(ledger, s)
  <2>1. CASE SkipIntent(t)
    BY <1>1, <2>1 DEF SkipIntent, TypeOK, IInv, KeyInv, SellInv
  <2>2. CASE DeclineIntent(t, GatedDelta(t, target))
    <3>1. Key(t, GatedDelta(t, target)) \in Keys
      BY <1>1, GatedDeltaFact DEF Key, Keys
    <3>2. QED
      BY <1>1, <2>2, <3>1 DEF DeclineIntent, Savable, TypeOK, IInv, KeyInv, SellInv
  <2>3. CASE PrepareIntent(t, GatedDelta(t, target))
    <3> DEFINE q == GatedDelta(t, target)
    <3>1. /\ q \in Int
          /\ q < 0 => IsSeeded(ledger) /\ - q <= Owned(ledger, t)
      BY <1>1, GatedDeltaFact
    <3>2. ready' = [ready EXCEPT ![t] = q] /\ UNCHANGED <<keys, declined>>
      BY <2>3 DEF PrepareIntent
    <3> HIDE DEF q
    <3>3. QED
      BY <1>1, <3>1, <3>2 DEF TypeOK, IInv, KeyInv, SellInv
  <2>4. QED
    BY <2>1, <2>2, <2>3 DEF BuildIntentTo
<1>3. todo' \subseteq Ticker
  BY <1>1 DEF BuildIntentTo, TypeOK
<1>4. TypeOK'
  BY <1>1, <1>2, <1>3 DEF BuildIntentTo, TypeOK, BrokerTypeOK
<1>5. OrderInv' /\ PlanInv' /\ BuyInv' /\ SellWithinLedger'
  BY <1>1 DEF BuildIntentTo, OrderInv, PlanInv, BuyInv, SellWithinLedger, Watching, IInv
<1>6. SellInv' /\ KeyInv' /\ SavedKeysAreJustified'
  BY <1>1, <1>2 DEF BuildIntentTo, SellInv, KeyInv, SavedKeysAreJustified, IInv
<1>7. QED
  BY <1>4, <1>5, <1>6 DEF IInv

-----------------------------------------------------------------------------
(***************************************************************************)
(* PASS 2 and PASS 3, up to the call of place_market_order.                *)
(***************************************************************************)

\* Handing a prepared order to the client keeps the inductive invariant.
LEMMA PrepareInv ==
  ASSUME IInv, NEW t \in Ticker, ready[t] # 0, pc \in {"sells", "buys"},
         ready[t] > 0 => ready[t] <= available, Prepare(t)
  PROVE  IInv'
<1> USE DEF fileVars, historyVars, orderHistory
<1>1. /\ TypeOK /\ BrokerTypeOK /\ ready[t] \in Int /\ trigger \in Trigger
      /\ pc' = "submit" /\ ledger' = ledger /\ available' = available
      /\ faults' \in 0 .. MaxFaults
  BY ConstantsFact DEF IInv, TypeOK, BrokerTypeOK, Prepare, PlanInv, Fault, ConstantsOK
<1>1a. PICK pay \in Nat : order' = Request(t, pay)
  BY <1>1 DEF Prepare, Requotes
<1>2. /\ order' \in Orders /\ order'.tkr = t /\ order'.qty = ready[t]
      /\ order'.want = 0 /\ order'.filled = 0
  BY <1>1, <1>1a DEF Request, Orders
<1>3. BrokerTypeOK'
  BY <1>1, <1>2, Zenon DEF BrokerTypeOK, Prepare
<1>4. ready' \in [Ticker -> Int]
  BY <1>1 DEF Prepare, TypeOK
<1>5. TypeOK'
  BY <1>1, <1>3, <1>4 DEF Prepare, TypeOK, Phases
<1>6. OrderInv' /\ BuyInv'
  BY <1>1, <1>2 DEF OrderInv, BuyInv, Watching
<1>7. PlanInv'
  BY <1>1 DEF Prepare, PlanInv
<1>8. SellInv'
  BY <1>1 DEF Prepare, SellInv, IInv, TypeOK
<1>9. SellWithinLedger'
  <2>1. ready[t] < 0 => /\ IsSeeded(ledger) /\ - ready[t] <= Owned(ledger, t)
                        /\ Owned(ledger, t) \in Nat /\ Grain \in Nat
    BY <1>1, ConstantsFact DEF IInv, SellInv, TypeOK, Ledgers, Shares, Owned, ConstantsOK
  <2>2. QED
    BY <1>1, <1>2, <2>1 DEF SellWithinLedger
<1>10. KeyInv' /\ SavedKeysAreJustified'
  BY <1>1 DEF Prepare, KeyInv, SavedKeysAreJustified, IInv
<1>11. QED
  BY <1>5, <1>6, <1>7, <1>8, <1>9, <1>10 DEF IInv

\* Every other step between two orders keeps the inductive invariant.
LEMMA BetweenOrdersInv ==
  ASSUME IInv,
         \/ EndBuild \/ EndSells \/ ReadBuyingPower \/ EndBuys
         \/ \E t \in Ticker : SkipBuy(t)
  PROVE  IInv'
<1> USE DEF brokerVars, accountVars, fileVars, historyVars, orderHistory
<1>1. /\ TypeOK /\ BrokerTypeOK
      /\ pc \in {"build", "sells", "bp", "buys"}
      /\ pc' \in {"sells", "bp", "buys", "save"}
      /\ order = NoOrder /\ order' = order /\ ledger' = ledger /\ trigger' = trigger
      /\ idemp' = idemp /\ keys' = keys /\ reached' = reached /\ declined' = declined
  BY DEF IInv, TypeOK, OrderInv, Watching, EndBuild, EndSells, ReadBuyingPower,
     EndBuys, SkipBuy
<1>2. /\ ready' \in [Ticker -> Int]
      /\ \A s \in Ticker : ready'[s] = ready[s] \/ ready'[s] = 0
      /\ pc' = "save" => ready' = NoDelta
  BY <1>1 DEF TypeOK, NoDelta, EndBuild, EndSells, ReadBuyingPower, EndBuys, SkipBuy
<1>3. available' \in Nat
  BY <1>1 DEF TypeOK, BrokerTypeOK, EndBuild, EndSells, ReadBuyingPower, EndBuys, SkipBuy
<1>4. todo' \subseteq Ticker /\ posCache' \in Shares \cup {NoCache}
  BY <1>1 DEF TypeOK, EndBuild, EndSells, ReadBuyingPower, EndBuys, SkipBuy
<1>5. TypeOK'
  <2>1. /\ UNCHANGED <<brokerVars, fileVars, killed, fills, placed, gap, polls, reached,
                        forgotten, declined, afterKill>>
        /\ drained' \in {drained, 0}
    BY DEF EndBuild, EndSells, ReadBuyingPower, EndBuys, SkipBuy
  <2>2. QED
    BY <1>1, <1>2, <1>3, <1>4, <2>1 DEF TypeOK, BrokerTypeOK, Phases
<1>6. OrderInv' /\ PlanInv' /\ SellWithinLedger' /\ BuyInv'
  BY <1>1, <1>2 DEF OrderInv, PlanInv, SellWithinLedger, BuyInv, Watching, IInv
<1>7. SellInv'
  BY <1>1, <1>2 DEF SellInv, IInv
<1>8. KeyInv' /\ SavedKeysAreJustified'
  BY <1>1 DEF KeyInv, SavedKeysAreJustified, IInv
<1>9. QED
  BY <1>5, <1>6, <1>7, <1>8 DEF IInv

-----------------------------------------------------------------------------
(***************************************************************************)
(* place_market_order and the polling of its order.                        *)
(***************************************************************************)

\* Turning away from an order leaves it resting at the broker.
LEMMA UnwatchType ==
  ASSUME BrokerTypeOK, OrderInv, Watching, Unwatch, faults' \in 0 .. MaxFaults
  PROVE  BrokerTypeOK' /\ order' = NoOrder
<1>1. order \in Orders /\ order.tkr \in Ticker
  BY DEF OrderInv, Orders
<1>2. Rest(order) \in Nat /\ Unspent(order) \in Nat
  BY <1>1, UnspentType
<1>3. /\ restBuy' \in {restBuy, [restBuy EXCEPT ![order.tkr] = @ + Rest(order)]}
      /\ restSell' \in {restSell, [restSell EXCEPT ![order.tkr] = @ + Rest(order)]}
      /\ restPay' \in {restPay, [restPay EXCEPT ![order.tkr] = @ + Unspent(order)]}
  BY Zenon DEF Unwatch
<1>4. restBuy' \in Shares /\ restSell' \in Shares /\ restPay' \in Shares
  BY <1>1, <1>2, <1>3 DEF Shares, BrokerTypeOK
<1>5. QED
  BY <1>4 DEF Unwatch, BrokerTypeOK

\* The shares the broker works an order for.
LEMMA WorkableFact ==
  ASSUME BrokerTypeOK, NEW t \in Ticker, NEW q \in Int, q # 0, NEW pay \in Nat,
         NEW w \in Workable(t, q, pay)
  PROVE  /\ w \in Nat
         /\ q > 0 => pay <= bp
         /\ q < 0 => 2 * (w + q) <= Grain
<1> USE ConstantsFact DEF ConstantsOK
<1>1. CASE q > 0
  <2>1. w \in BoughtShares(q, pay) /\ pay <= bp
    BY <1>1 DEF Workable
  <2>2. PICK n \in Nat : w = Grain * (n \div Grain)
    BY <1>1, <2>1 DEF BoughtShares
  <2>3. n \div Grain \in Nat
    OBVIOUS
  <2>4. \A k, m \in Nat : k * m \in Nat
    OBVIOUS
  <2>5. w \in Nat
    BY <2>2, <2>3, <2>4
  <2>6. QED
    BY <1>1, <2>1, <2>5
<1>2. CASE q < 0
  BY <1>2 DEF Workable, RoundedSell
<1>3. QED
  BY <1>1, <1>2

\* The broker taking an order, watched or not, keeps the types.
LEMMA AcceptType ==
  ASSUME BrokerTypeOK, NEW t \in Ticker, NEW q \in Int, q # 0, NEW pay \in Nat,
         Accept(t, q, pay), UNCHANGED faults
  PROVE  /\ BrokerTypeOK'
         /\ order' \in Orders /\ order'.tkr = t /\ order'.qty = q
         /\ order'.filled <= order'.want
         /\ q < 0 => 2 * (order'.want + q) <= Grain
<1>1. PICK w \in Workable(t, q, pay) :
        order' = [tkr |-> t, qty |-> q, pay |-> pay, want |-> w, filled |-> 0,
                  state |-> "open"]
  BY DEF Accept
<1>2. w \in Nat /\ (q > 0 => pay <= bp) /\ (q < 0 => 2 * (w + q) <= Grain)
  BY WorkableFact
<1>3. order' \in Orders /\ order'.tkr = t /\ order'.qty = q /\ order'.want = w
      /\ order'.filled = 0
  BY <1>1, <1>2 DEF Orders
<1>4. bp' \in Nat
  BY <1>2 DEF Accept, BrokerTypeOK
<1>5. QED
  BY <1>2, <1>3, <1>4 DEF Accept, BrokerTypeOK

\* An order that the client does not come to know rests, and the types are kept.
LEMMA AcceptUnwatchedType ==
  ASSUME BrokerTypeOK, NEW t \in Ticker, NEW q \in Int, q # 0, NEW pay \in Nat,
         AcceptUnwatched(t, q, pay), faults' \in 0 .. MaxFaults
  PROVE  BrokerTypeOK' /\ order' = NoOrder
<1>1. PICK w \in Workable(t, q, pay) :
        IF q > 0
        THEN /\ restBuy' = [restBuy EXCEPT ![t] = @ + w]
             /\ restPay' = [restPay EXCEPT ![t] = @ + pay]
             /\ UNCHANGED restSell
        ELSE /\ restSell' = [restSell EXCEPT ![t] = @ + w]
             /\ UNCHANGED <<restBuy, restPay>>
  BY DEF AcceptUnwatched
<1>2. w \in Nat /\ (q > 0 => pay <= bp)
  BY WorkableFact
<1>3. restBuy' \in Shares /\ restPay' \in Shares /\ restSell' \in Shares /\ bp' \in Nat
  BY <1>1, <1>2 DEF AcceptUnwatched, BrokerTypeOK, Shares
<1>4. QED
  BY <1>3 DEF AcceptUnwatched, BrokerTypeOK

\* Whatever the client reports, the executor's reaction keeps the inductive
\* invariant: a key is remembered only for an order the broker has taken, and
\* the buying power never becomes negative.
LEMMA ReturnInv ==
  ASSUME IInv, Watching, NEW ok \in BOOLEAN, NEW filled \in Nat, Return(ok, filled),
         BrokerTypeOK', order' = NoOrder,
         reached' \in {reached, reached \cup Savable(TheKey)},
         ok => Savable(TheKey) \subseteq reached',
         forgotten' \subseteq forgotten \cup Savable(TheKey),
         drained' \in Nat, afterKill' \in Nat
  PROVE  IInv'
<1> USE ConstantsFact DEF ConstantsOK
<1> DEFINE t == order.tkr
           q == order.qty
<1>1. /\ TypeOK /\ OrderInv /\ order \in Orders /\ t \in Ticker /\ q \in Int /\ q # 0
      /\ trigger \in Trigger /\ Key(t, q) \in Keys /\ TheKey = Key(t, q)
      /\ q > 0 => q <= available
  BY DEF IInv, OrderInv, Orders, PlanInv, Watching, BuyInv, TheKey, Key, Keys
<1>2. /\ pc' \in {"sells", "buys"}
      /\ keys' = KeysAfter(ok, t, q, filled)
      /\ fills' = FillsAfter(ok, t, q, filled)
      /\ available' = AvailableAfter(ok, q)
      /\ clean' \in {0, clean}
      /\ gap' = IF ok THEN gap + Abs(q) - filled ELSE gap
      /\ polls' = 0
      /\ UNCHANGED <<ledger, idemp, killed, posCache, trigger, todo, ready, declined>>
  BY DEF Return
<1>3. placed' \in BOOLEAN
  BY Zenon DEF Return
<1> HIDE DEF t, q
<1>4. /\ keys' \subseteq Keys
      /\ trigger \notin NoneTrigger => keys' \subseteq reached' \cup declined
  BY <1>1, <1>2 DEF KeysAfter, Savable, TypeOK, IInv, KeyInv
<1>5. fills' \in [Ticker -> Int]
  BY <1>1, <1>2 DEF FillsAfter, TypeOK
<1>6. available' \in Nat /\ gap' \in Int
  BY <1>1, <1>2 DEF AvailableAfter, Abs, TypeOK
<1>7. reached' \subseteq Keys /\ reached \subseteq reached' /\ forgotten' \subseteq Keys
  BY <1>1 DEF TypeOK, Savable
<1>8. clean' \in 0 .. CleanMax /\ polls' \in 0 .. PollMax
  BY <1>1, <1>2 DEF TypeOK
<1>9. TypeOK'
  BY <1>1, <1>2, <1>3, <1>4, <1>5, <1>6, <1>7, <1>8 DEF TypeOK, Phases
<1>10. OrderInv' /\ PlanInv' /\ SellWithinLedger' /\ BuyInv'
  BY <1>1, <1>2 DEF OrderInv, PlanInv, SellWithinLedger, BuyInv, Watching
<1>11. SellInv'
  BY <1>2 DEF SellInv, IInv
<1>12. KeyInv' /\ SavedKeysAreJustified'
  BY <1>2, <1>4, <1>7 DEF KeyInv, SavedKeysAreJustified, IInv
<1>13. QED
  BY <1>9, <1>10, <1>11, <1>12 DEF IInv

\* A step of a placement keeps the inductive invariant.
LEMMA PlacementInv ==
  ASSUME IInv, \/ Refused \/ Accepted \/ ReplyLost \/ ReplyUnnamed
               \/ PollStillOpen \/ PollCleared \/ PollBlind
  PROVE  IInv'
<1> USE ConstantsFact DEF ConstantsOK
<1> DEFINE t == order.tkr
           q == order.qty
<1>1. /\ TypeOK /\ BrokerTypeOK /\ OrderInv /\ Watching /\ order \in Orders
      /\ t \in Ticker /\ q \in Int /\ q # 0 /\ order.filled \in Nat /\ order.pay \in Nat
      /\ faults \in 0 .. MaxFaults /\ afterKill \in Nat /\ drained \in Nat /\ Slip \in Nat
  <2>1. TypeOK /\ BrokerTypeOK /\ OrderInv /\ Watching /\ order \in Orders /\ q # 0
    BY DEF IInv, TypeOK, OrderInv, Watching, Refused, Accepted, ReplyLost, ReplyUnnamed,
       PollStillOpen, PollCleared, PollBlind
  <2>2. t \in Ticker /\ q \in Int /\ order.filled \in Nat /\ order.pay \in Nat
    BY <2>1 DEF Orders
  <2>3. Slip \in Nat
    BY <2>2 DEF Slip
  <2>4. QED
    BY <2>1, <2>2, <2>3 DEF TypeOK, BrokerTypeOK
<1>2. ASSUME NEW f, Fault(f) PROVE faults' \in 0 .. MaxFaults
  BY <1>1, <1>2 DEF Fault
<1>3. Sent => afterKill' \in Nat
  BY <1>1 DEF Sent
<1>4. pc = "poll" => Savable(TheKey) \subseteq reached
  BY DEF IInv, KeyInv, Savable
<1>5. CASE Refused
  <2>1. BrokerTypeOK' /\ order' = NoOrder
    BY <1>1, <1>5, UnwatchType DEF Refused
  <2>2. QED
    BY <1>1, <1>3, <1>5, <2>1, ReturnInv DEF Refused, orderHistory
<1>6. CASE ReplyLost
  <2>1. BrokerTypeOK' /\ order' = NoOrder
    BY <1>1, <1>2, <1>6, AcceptUnwatchedType DEF ReplyLost
  <2>2. /\ reached' = reached \cup Savable(TheKey)
        /\ forgotten' = forgotten \cup Savable(TheKey)
        /\ drained' \in Nat
    BY <1>1, <1>6 DEF ReplyLost
  <2>3. QED
    BY <1>1, <1>3, <1>6, <2>1, <2>2, ReturnInv DEF ReplyLost
<1>6a. CASE ReplyUnnamed
  <2>1. BrokerTypeOK' /\ order' = NoOrder
    <3>1. CASE AcceptUnwatched(t, q, order.pay)
      BY <1>1, <1>2, <1>6a, <3>1, AcceptUnwatchedType DEF ReplyUnnamed
    <3>2. CASE Unwatch
      BY <1>1, <1>2, <1>6a, <3>2, UnwatchType DEF ReplyUnnamed
    <3>3. QED
      BY <1>6a, <3>1, <3>2 DEF ReplyUnnamed
  <2>2. /\ reached' = reached \cup Savable(TheKey)
        /\ forgotten' \subseteq forgotten
        /\ drained' \in Nat
    BY <1>1, <1>6a DEF ReplyUnnamed
  <2>3. QED
    BY <1>1, <1>3, <1>6a, <2>1, <2>2, ReturnInv DEF ReplyUnnamed
<1>7. CASE PollCleared
  <2>1. BrokerTypeOK' /\ order' = NoOrder
    BY <1>1, <1>7, UnwatchType DEF PollCleared
  <2>2. forgotten' \subseteq forgotten /\ drained' \in Nat /\ afterKill' \in Nat
    BY <1>1, <1>7 DEF PollCleared
  <2>3. QED
    BY <1>1, <1>4, <1>7, <2>1, <2>2, ReturnInv DEF PollCleared
<1>8. CASE PollBlind
  <2>1. BrokerTypeOK' /\ order' = NoOrder
    BY <1>1, <1>2, <1>8, UnwatchType DEF PollBlind
  <2>2. /\ reached' = reached /\ forgotten' \subseteq forgotten
        /\ drained' \in Nat /\ afterKill' \in Nat /\ pc = "poll"
    BY <1>1, <1>8 DEF PollBlind
  <2>3. CASE Return(TRUE, order.filled)
    BY <1>1, <1>4, <2>1, <2>2, <2>3, ReturnInv
  <2>4. CASE Return(TRUE, 0)
    BY <1>1, <1>4, <2>1, <2>2, <2>4, ReturnInv
  <2>5. QED
    BY <1>8, <2>3, <2>4 DEF PollBlind
<1>9. CASE PollStillOpen
  <2>1. CASE polls + 1 < PollMax
    <3>1. /\ polls' = polls + 1
          /\ UNCHANGED <<brokerVars, fileVars, pc, posCache, planVars, killed, historyVars>>
      BY <1>9, <2>1 DEF PollStillOpen
    <3> USE DEF brokerVars, accountVars, fileVars, planVars, historyVars, orderHistory
    <3>2. polls' \in 0 .. PollMax
      BY <1>1, <2>1, <3>1 DEF TypeOK
    <3>3. TypeOK'
      BY <1>1, <3>1, <3>2 DEF TypeOK, BrokerTypeOK
    <3>4. OrderInv' /\ PlanInv' /\ SellInv' /\ SellWithinLedger' /\ BuyInv'
      BY <3>1 DEF IInv, OrderInv, PlanInv, SellInv, SellWithinLedger, BuyInv, Watching
    <3>5. KeyInv' /\ SavedKeysAreJustified'
      BY <3>1 DEF IInv, KeyInv, SavedKeysAreJustified, TheKey, Key
    <3>6. QED
      BY <3>3, <3>4, <3>5 DEF IInv
  <2>2. CASE ~ (polls + 1 < PollMax)
    <3>1. /\ Fault("slow") /\ Return(FALSE, 0) /\ Unwatch
          /\ UNCHANGED <<reached, afterKill>>
          /\ forgotten' = forgotten \cup Savable(TheKey)
          /\ drained' = drained + (IF q > 0 THEN q ELSE 0)
      BY <1>9, <2>2 DEF PollStillOpen
    <3>2. BrokerTypeOK' /\ order' = NoOrder
      BY <1>1, <1>2, <3>1, UnwatchType
    <3>3. drained' \in Nat /\ afterKill' \in Nat
      BY <1>1, <3>1
    <3>4. QED
      BY <1>1, <3>1, <3>2, <3>3, ReturnInv
  <2>3. QED
    BY <2>1, <2>2
<1>10. CASE Accepted
  <2>1. /\ BrokerTypeOK' /\ order' \in Orders /\ order'.tkr = t /\ order'.qty = q
        /\ order'.filled <= order'.want /\ (q < 0 => 2 * (order'.want + q) <= Grain)
    BY <1>1, <1>10, AcceptType DEF Accepted
  <2>2. /\ UNCHANGED <<fileVars, killed, posCache, planVars, declined, forgotten>>
        /\ pc' = "poll" /\ polls' = 0 /\ drained' \in Nat
        /\ reached' = reached \cup Savable(TheKey)
    BY <1>1, <1>10 DEF Accepted
  <2> USE DEF fileVars, planVars
  <2>3. TheKey \in Keys /\ trigger \in Trigger
    BY <1>1 DEF IInv, PlanInv, Watching, TheKey, Key, Keys
  <2>4. TypeOK'
    <3>1. reached' \subseteq Keys /\ polls' \in 0 .. PollMax /\ afterKill' \in Nat
      BY <1>1, <1>3, <1>10, <2>2, <2>3 DEF TypeOK, Savable, Accepted
    <3>2. QED
      BY <1>1, <2>1, <2>2, <3>1 DEF TypeOK, Phases
  <2>5. OrderInv' /\ PlanInv' /\ BuyInv'
    BY <1>1, <2>1, <2>2 DEF IInv, OrderInv, PlanInv, BuyInv, Watching
  <2>6. SellInv'
    BY <2>2 DEF IInv, SellInv
  <2>7. SellWithinLedger'
    <3>1. q < 0 => IsSeeded(ledger) /\ - q <= Owned(ledger, t)
      <4>1. order \in Orders => order # NoOrder
        BY <1>1 DEF IInv, OrderInv, NoOrder, Orders
      <4>2. QED
        BY <1>1, <4>1 DEF IInv, SellWithinLedger
    <3>2. Owned(ledger, t) \in Nat /\ Grain \in Nat /\ order'.want \in Nat
      BY <1>1, <2>1 DEF TypeOK, Ledgers, Shares, Owned, Orders
    <3>3. Owned(ledger, order.tkr)' = Owned(ledger, t) /\ IsSeeded(ledger)' = IsSeeded(ledger)
      BY <2>1, <2>2 DEF Owned, IsSeeded
    <3>4. QED
      BY <1>1, <2>1, <3>1, <3>2, <3>3 DEF SellWithinLedger
  <2>8. KeyInv' /\ SavedKeysAreJustified'
    BY <2>1, <2>2 DEF IInv, KeyInv, SavedKeysAreJustified, Savable, TheKey, Key
  <2>9. QED
    BY <2>4, <2>5, <2>6, <2>7, <2>8 DEF IInv
<1>11. QED
  BY <1>5, <1>6, <1>6a, <1>7, <1>8, <1>9, <1>10

-----------------------------------------------------------------------------
(***************************************************************************)
(* The end of a plan, and the end of a process.                            *)
(***************************************************************************)

\* Recording a fill yields a ledger.
LEMMA RecordType ==
  ASSUME ledger \in Ledgers, NEW t \in Ticker, NEW n \in Int, n # 0
  PROVE  LedgerAfter(t, n) \in Ledgers
<1>1. ledger.owned \in Shares /\ ledger.file \in {"absent", "torn", "seeded"}
  BY DEF Ledgers
<1>2. ASSUME n < 0 PROVE RecordSell(ledger, t, - n) \in Ledgers
  <2> DEFINE o == IF - n <= ledger.owned[t] THEN ledger.owned[t] - (- n) ELSE 0
  <2>1. o \in Nat
    BY <1>1, <1>2 DEF Shares
  <2>2. RecordSell(ledger, t, - n) = [ledger EXCEPT !.owned[t] = o]
    BY DEF RecordSell
  <2> HIDE DEF o
  <2>3. QED
    BY <1>1, <2>1, <2>2 DEF Ledgers, Shares
<1>3. ASSUME n > 0 PROVE RecordBuy(ledger, t, n) \in Ledgers
  BY <1>1, <1>3 DEF RecordBuy, Ledgers, Shares
<1>4. QED
  BY <1>2, <1>3 DEF LedgerAfter

\* A step after the last order keeps the inductive invariant.
LEMMA EndOfPlanInv ==
  ASSUME IInv, SaveKeys \/ Reread \/ EndCycle \/ \E t \in Ticker : ConfirmFill(t)
  PROVE  IInv'
<1> USE ConstantsFact DEF ConstantsOK, brokerVars, accountVars, fileVars, planVars,
        historyVars, orderHistory
<1>1. /\ TypeOK /\ BrokerTypeOK /\ ledger \in Ledgers
      /\ order = NoOrder /\ order' = order /\ ready = NoDelta
  BY DEF IInv, TypeOK, OrderInv, PlanInv, Watching, SaveKeys, Reread, EndCycle, ConfirmFill
<1>2. CASE SaveKeys
  <2>1. /\ idemp' \subseteq Keys /\ keys' = {}
        /\ idemp' \subseteq reached \cup declined
    BY <1>1, <1>2 DEF SaveKeys, TypeOK, IInv, KeyInv, SavedKeysAreJustified
  <2>2. TypeOK'
    BY <1>1, <1>2, <2>1 DEF SaveKeys, TypeOK, BrokerTypeOK, Phases
  <2>3. OrderInv' /\ PlanInv' /\ SellInv' /\ SellWithinLedger' /\ BuyInv'
    BY <1>1, <1>2 DEF SaveKeys, IInv, OrderInv, PlanInv, SellInv, SellWithinLedger,
       BuyInv, Watching
  <2>4. KeyInv' /\ SavedKeysAreJustified'
    BY <1>2, <2>1 DEF SaveKeys, KeyInv, SavedKeysAreJustified
  <2>5. QED
    BY <2>2, <2>3, <2>4 DEF IInv
<1>3. CASE Reread
  <2>1. posCache' \in Shares \cup {NoCache} /\ faults' \in 0 .. MaxFaults
    BY <1>1, <1>3, SeedType DEF Reread, Fault, BrokerTypeOK
  <2>2. TypeOK'
    BY <1>1, <1>3, <2>1 DEF Reread, TypeOK, BrokerTypeOK, Phases
  <2>3. OrderInv' /\ PlanInv' /\ SellInv' /\ SellWithinLedger' /\ BuyInv'
    BY <1>1, <1>3 DEF Reread, IInv, OrderInv, PlanInv, SellInv, SellWithinLedger,
       BuyInv, Watching
  <2>4. KeyInv' /\ SavedKeysAreJustified'
    BY <1>3 DEF Reread, IInv, KeyInv, SavedKeysAreJustified
  <2>5. QED
    BY <2>2, <2>3, <2>4 DEF IInv
<1>4. CASE EndCycle
  <2>1. clean' \in 0 .. CleanMax
    BY <1>1, <1>4 DEF EndCycle, TypeOK
  <2>2. placed' \in BOOLEAN
    BY <1>4, Zenon DEF EndCycle, Forget
  <2>3. TypeOK'
    BY <1>1, <1>4, <2>1, <2>2 DEF EndCycle, Forget, TypeOK, BrokerTypeOK, Phases, NoDelta
  <2>4. OrderInv' /\ PlanInv' /\ SellInv' /\ SellWithinLedger' /\ BuyInv'
    BY <1>1, <1>4 DEF EndCycle, Forget, IInv, OrderInv, PlanInv, SellInv,
       SellWithinLedger, BuyInv, Watching, NoDelta
  <2>5. KeyInv' /\ SavedKeysAreJustified'
    BY <1>4 DEF EndCycle, Forget, IInv, KeyInv, SavedKeysAreJustified
  <2>6. QED
    BY <2>3, <2>4, <2>5 DEF IInv
<1>5. CASE \E t \in Ticker : ConfirmFill(t)
  <2>1. PICK t \in Ticker : ConfirmFill(t)
    BY <1>5
  <2>2. ledger' \in Ledgers /\ fills' \in [Ticker -> Int]
    <3>1. fills[t] \in Int /\ fills[t] # 0 /\ ledger' = LedgerAfter(t, fills[t])
      BY <1>1, <2>1 DEF ConfirmFill, TypeOK
    <3>2. QED
      BY <1>1, <2>1, <3>1, RecordType DEF ConfirmFill, TypeOK
  <2>3. TypeOK'
    BY <1>1, <2>1, <2>2 DEF ConfirmFill, TypeOK, BrokerTypeOK
  <2>4. OrderInv' /\ PlanInv' /\ SellInv' /\ SellWithinLedger' /\ BuyInv'
    BY <1>1, <2>1 DEF ConfirmFill, IInv, OrderInv, PlanInv, SellInv,
       SellWithinLedger, BuyInv, Watching, NoDelta
  <2>5. KeyInv' /\ SavedKeysAreJustified'
    BY <2>1 DEF ConfirmFill, IInv, KeyInv, SavedKeysAreJustified
  <2>6. QED
    BY <2>3, <2>4, <2>5 DEF IInv
<1>6. QED
  BY <1>2, <1>3, <1>4, <1>5

\* An exception or a crash keeps the inductive invariant.
LEMMA StopInv == IInv /\ (QuoteRaises \/ Crash) => IInv'
<1> SUFFICES ASSUME IInv, QuoteRaises \/ Crash PROVE IInv'
  OBVIOUS
<1> USE ConstantsFact DEF ConstantsOK, brokerVars, accountVars, fileVars, historyVars, orderHistory
<1>1. TypeOK /\ BrokerTypeOK /\ OrderInv /\ ledger \in Ledgers
  BY DEF IInv, TypeOK
<1>2. /\ Forget /\ posCache' = NoCache
      /\ UNCHANGED <<clean, killed, reached, declined, afterKill>>
      /\ forgotten' \subseteq forgotten \cup reached /\ drained' \in {drained, 0}
      /\ idemp' \in {idemp, {}} /\ ledger' \in {ledger, Torn}
  BY DEF QuoteRaises, Crash
<1>3. BrokerTypeOK' /\ order' = NoOrder
  <2>1. CASE QuoteRaises
    BY <1>1, <2>1 DEF QuoteRaises, BrokerTypeOK, OrderInv, Watching
  <2>2. CASE Crash
    <3>1. faults' \in 0 .. MaxFaults /\ Unwatch
      BY <1>1, <2>2 DEF Crash, Fault, BrokerTypeOK
    <3>2. CASE Watching
      BY <1>1, <3>1, <3>2, UnwatchType
    <3>3. CASE ~ Watching
      BY <1>1, <3>1, <3>3 DEF OrderInv, Unwatch, BrokerTypeOK
    <3>4. QED
      BY <3>2, <3>3
  <2>3. QED
    BY <2>1, <2>2
<1>4. ledger' \in Ledgers
  BY <1>1, <1>2 DEF Torn, NoShares, Ledgers, Shares
<1>5. placed' \in BOOLEAN
  BY <1>2, Zenon DEF Forget
<1>6. TypeOK'
  BY <1>1, <1>2, <1>3, <1>4, <1>5 DEF TypeOK, Forget, Phases, NoDelta
<1>7. OrderInv' /\ PlanInv' /\ SellInv' /\ SellWithinLedger' /\ BuyInv'
  BY <1>2, <1>3 DEF Forget, OrderInv, PlanInv, SellInv, SellWithinLedger, BuyInv,
     Watching, NoDelta
<1>8. KeyInv' /\ SavedKeysAreJustified'
  BY <1>2 DEF Forget, IInv, KeyInv, SavedKeysAreJustified
<1>9. QED
  BY <1>6, <1>7, <1>8 DEF IInv

-----------------------------------------------------------------------------
(***************************************************************************)
(* The theorems.                                                           *)
(***************************************************************************)

\* Every step, and every stuttering step, keeps the inductive invariant.
LEMMA NextInv == IInv /\ [Next]_vars => IInv'
<1> SUFFICES ASSUME IInv, [Next]_vars PROVE IInv'
  OBVIOUS
<1>1. CASE SeedLedger \/ QuietCycle \/ StartCycle \/ EndProcess
  BY <1>1, IdleInv
<1>2. ASSUME NEW t \in Ticker, BuildIntent(t) PROVE IInv'
  BY <1>2, BuildInv DEF BuildIntent
<1>3. ASSUME NEW t \in Ticker, PlaceSell(t) \/ PlaceBuy(t) PROVE IInv'
  <2>1. /\ ready[t] \in Int /\ ready[t] # 0 /\ pc \in {"sells", "buys"}
        /\ (ready[t] > 0 => ready[t] <= available) /\ Prepare(t)
    BY <1>3 DEF PlaceSell, PlaceBuy, Sells, Buys, Covered, IInv, TypeOK
  <2>2. QED
    BY <2>1, PrepareInv
<1>4. CASE \/ EndBuild \/ EndSells \/ ReadBuyingPower \/ EndBuys
           \/ \E t \in Ticker : SkipBuy(t)
  BY <1>4, BetweenOrdersInv
<1>5. CASE \/ Refused \/ Accepted \/ ReplyLost \/ ReplyUnnamed
           \/ PollStillOpen \/ PollCleared \/ PollBlind
  BY <1>5, PlacementInv
<1>6. CASE SaveKeys \/ Reread \/ EndCycle \/ \E t \in Ticker : ConfirmFill(t)
  BY <1>6, EndOfPlanInv
<1>7. CASE QuoteRaises \/ Crash
  BY <1>7, StopInv
<1>8. CASE SetKill \/ ClearKill
  BY <1>8, KillInv
<1>9. CASE Broker
  BY <1>9, BrokerInv
<1>10. CASE UNCHANGED vars
  <2> USE <1>10 DEF vars, brokerVars, accountVars, fileVars, planVars, historyVars, orderHistory
  <2>1. TypeOK'
    BY DEF IInv, TypeOK, BrokerTypeOK
  <2>2. OrderInv' /\ PlanInv' /\ SellInv' /\ SellWithinLedger' /\ BuyInv'
    BY DEF IInv, OrderInv, PlanInv, SellInv, SellWithinLedger, BuyInv, Watching
  <2>3. KeyInv' /\ SavedKeysAreJustified'
    BY DEF IInv, KeyInv, SavedKeysAreJustified, TheKey, Key
  <2>4. QED
    BY <2>1, <2>2, <2>3 DEF IInv
<1>11. QED
  BY <1>1, <1>2, <1>3, <1>4, <1>5, <1>6, <1>7, <1>8, <1>9, <1>10 DEF Next, Execute, CarryOut

\* The strengthened invariant holds in every reachable state.
THEOREM InductiveInvariant == Spec => []IInv
<1>1. QED
  BY InitInv, NextInv, PTL DEF Spec

\* Every variable keeps its type, through crashes, lost replies and late fills:
\* in particular the plan's buying power never becomes negative.
THEOREM TypeCorrect == Spec => []TypeOK
<1>1. IInv => TypeOK
  BY DEF IInv
<1>2. QED
  BY <1>1, InductiveInvariant, PTL

\* The ownership sell gate of execute_plan: no sell leaves, or is worked by the
\* broker, for more than the ledger records (up to the broker's rounding), and
\* none leaves without a seeded ledger, whatever fails and whenever.
THEOREM SellsStayWithinLedger == Spec => []SellWithinLedger
<1>1. IInv => SellWithinLedger
  BY DEF IInv
<1>2. QED
  BY <1>1, InductiveInvariant, PTL

\* The idempotency file holds only keys of orders that reached the broker or
\* that PASS 1 declined: an order that failed outright stays retryable.
THEOREM FailedOrdersStayRetryable == Spec => []SavedKeysAreJustified
<1>1. IInv => SavedKeysAreJustified
  BY DEF IInv
<1>2. QED
  BY <1>1, InductiveInvariant, PTL

\* The kill check before every order: once KILL_SWITCH exists, at most the one
\* order that was already past its check leaves, however many are prepared.
THEOREM KillStopsOrders == Spec => []AtMostOneOrderAfterKill
<1>1. Init => AfterKillInv
  BY DEF Init, AfterKillInv
<1>2. TypeOK /\ AfterKillInv /\ [Next]_vars => AfterKillInv'
  <2> SUFFICES ASSUME TypeOK, AfterKillInv, [Next]_vars PROVE AfterKillInv'
    OBVIOUS
  <2> USE DEF AfterKillInv, fileVars, planVars, historyVars, orderHistory
  <2>1. afterKill \in Nat
    BY DEF TypeOK
  <2>2. CASE \/ SeedLedger \/ QuietCycle \/ StartCycle \/ EndProcess
             \/ QuoteRaises \/ Crash
    <3>1. /\ afterKill' = afterKill /\ killed' = killed
          /\ pc' = pc \/ pc' = "build" \/ pc' = "idle"
      BY <2>2 DEF SeedLedger, QuietCycle, StartCycle, EndProcess, QuoteRaises,
         Crash, Forget
    <3>2. QED
      BY <2>1, <3>1
  <2>3. ASSUME NEW t \in Ticker, BuildIntent(t) \/ SkipBuy(t) \/ ConfirmFill(t)
        PROVE  AfterKillInv'
    BY <2>3 DEF BuildIntent, BuildIntentTo, SkipBuy, ConfirmFill
  <2>4. ASSUME NEW t \in Ticker, PlaceSell(t) \/ PlaceBuy(t) PROVE AfterKillInv'
    BY <2>4 DEF PlaceSell, PlaceBuy, Prepare, Go
  <2>5. CASE \/ EndBuild \/ EndSells \/ ReadBuyingPower \/ EndBuys
             \/ SaveKeys \/ Reread \/ EndCycle
    <3>1. /\ afterKill' = afterKill /\ killed' = killed
          /\ pc' \in Phases \ {"submit"} /\ pc # "submit"
      BY <2>5 DEF EndBuild, EndSells, ReadBuyingPower, EndBuys, SaveKeys, Reread,
         EndCycle, Forget, Phases
    <3>2. QED
      BY <2>1, <3>1
  <2>6. CASE Refused \/ Accepted \/ ReplyLost \/ ReplyUnnamed
    <3>1. pc = "submit" /\ killed' = killed /\ pc' \in {"poll", "sells", "buys"}
      BY <2>6 DEF Refused, Accepted, ReplyLost, ReplyUnnamed, Return
    <3>2. afterKill' = IF killed THEN afterKill + 1 ELSE afterKill
      BY <2>6 DEF Refused, Accepted, ReplyLost, ReplyUnnamed, Sent
    <3>3. QED
      BY <2>1, <3>1, <3>2
  <2>7. CASE PollStillOpen \/ PollCleared \/ PollBlind
    <3>1. afterKill' = afterKill /\ killed' = killed
      BY <2>7 DEF PollStillOpen, PollCleared, PollBlind, Return
    <3>2. pc' \in {pc, "sells", "buys"}
      BY <2>7 DEF PollStillOpen, PollCleared, PollBlind, Return
    <3>3. QED
      BY <2>1, <3>1, <3>2
  <2>8. CASE SetKill \/ ClearKill
    BY <2>8 DEF SetKill, ClearKill
  <2>9. CASE Broker
    BY <2>9 DEF Broker
  <2>10. CASE UNCHANGED vars
    BY <2>10 DEF vars
  <2>11. QED
    BY <2>2, <2>3, <2>4, <2>5, <2>6, <2>7, <2>8, <2>9, <2>10 DEF Next, Execute, CarryOut
<1>3. TypeOK /\ AfterKillInv => AtMostOneOrderAfterKill
  BY DEF TypeOK, AfterKillInv, AtMostOneOrderAfterKill
<1>4. QED
  BY <1>1, <1>2, <1>3, TypeCorrect, PTL DEF Spec

-----------------------------------------------------------------------------
(***************************************************************************)
(* The second half: what the buying-power check and the key file of        *)
(* src/src/executor.py achieve whatever happens, and what the ledger       *)
(* achieves when the broker answers in time and the process lives to write *)
(* its files.  Those theorems name the faults they have to exclude;        *)
(* refusals, partial fills, cancellations, vetoes, moving prices, the kill *)
(* switch and the owner's own trades are never among them.                 *)
(***************************************************************************)

\* No order is ever left at the broker without somebody watching it.
NobodyTurnsAway == Faults \cap {"slow", "reply", "noid"} = {}

\* Nor does a process die between an order and the files.
FilesFollow == NobodyTurnsAway /\ "crash" \notin Faults

\* Nor does a poll report a fill that is not the whole fill.
Timely == FilesFollow /\ "poll" \notin Faults

\* Nor does the read fail that confirms the buys, and there is no position
\* that is not a multiple of what the broker trades.
Exact ==
    /\ Timely
    /\ "reread" \notin Faults
    /\ Grain = 1 \/ MaxForeign = 0

-----------------------------------------------------------------------------
(***************************************************************************)
(* The invariants.                                                         *)
(***************************************************************************)

\* What is available to the plan's buys is in the account, or has left it for
\* something else, or is what the order under way has reserved.
AvailInv ==
    available <= bp + drained + (IF pc = "poll" /\ order.qty > 0 THEN order.qty ELSE 0)

\* The keys that the next plan, or the rest of this one, will find.
Remembered ==
    IF pc \in {"idle", "build", "reread", "confirm"} \/ trigger \in NoneTrigger
    THEN idemp
    ELSE idemp \cup keys \cup (IF pc = "poll" THEN {TheKey} ELSE {})

\* A ticker has one order per plan.
OneOrderInv == Watching => ready[order.tkr] = 0

\* What is still to be sent has not been sent before.
ReplayInv ==
    /\ reached \subseteq Remembered \cup forgotten
    /\ \A t \in Ticker : ready[t] # 0 => Key(t, ready[t]) \notin reached \ forgotten
    /\ NoSecondOrderForKey

NothingRests == restBuy = NoShares /\ restSell = NoShares

\* What the broker has filled of an order and the ledger does not know yet.
UnderWay(t) ==
    IF pc = "poll" /\ order.tkr = t
    THEN IF order.qty < 0 THEN - order.filled ELSE order.filled
    ELSE 0

\* What the ledger will say when everything is recorded.
Expected(t) == Owned(ledger, t) + fills[t] + UnderWay(t)

OnBrokerGrid(n) == n % Grain = 0

FillsInv ==
    /\ pc \in {"idle", "build"} => fills = NoDelta
    /\ Watching => fills[order.tkr] = 0
    /\ \A t \in Ticker :
        /\ ready[t] # 0 => fills[t] = 0
        /\ fills[t] < 0 => IsSeeded(ledger) /\ 2 * (- fills[t] - Owned(ledger, t)) <= Grain

GridInv ==
    /\ \A t \in Ticker : OnBrokerGrid(fills[t])
    /\ Watching => OnBrokerGrid(order.want) /\ OnBrokerGrid(order.filled)

\* The ledger never expects more than truleo has, but for what the rounding of
\* a position's last sale took; and from then on the position is on the grid.
BooksInv ==
    /\ ledger.file # "torn"
    /\ \A t \in Ticker :
        /\ ~ IsSeeded(ledger) => bot[t] >= 0
        /\ 2 * (Expected(t) - bot[t]) <= Grain
        /\ OnBrokerGrid(Owned(ledger, t)) \/ Expected(t) <= bot[t]

TimelyInv == OneOrderInv /\ NothingRests /\ FillsInv /\ GridInv /\ BooksInv

\* Once seeded it expects exactly what truleo has.
ExactInv ==
    /\ \A t \in Ticker :
        /\ OnBrokerGrid(foreign[t]) /\ OnBrokerGrid(bot[t])
        /\ IsSeeded(ledger) => OnBrokerGrid(Owned(ledger, t)) /\ Expected(t) = bot[t]
        /\ pc = "confirm" /\ fills[t] > 0 => ShownByBroker(t)

-----------------------------------------------------------------------------
(***************************************************************************)
(* Multiples of the broker's grain.                                        *)
(***************************************************************************)

\* A multiple of the grain is on the grid.
LEMMA MultipleOnGrid ==
  ASSUME NEW k \in Int
  PROVE  OnBrokerGrid(Grain * k)
<1> DEFINE q == (Grain * k) \div Grain
           r == (Grain * k) % Grain
<1>1. Grain \in Nat \ {0} /\ Grain * k \in Int
  BY ConstantsFact DEF ConstantsOK
<1>2. q \in Int /\ r \in 0 .. Grain - 1 /\ Grain * k = Grain * q + r
  BY <1>1, Division
<1> HIDE DEF q, r
<1>3. Grain * (k - q) = r
  BY <1>1, <1>2
<1>4. k = q
  BY <1>1, <1>2, <1>3
<1>5. r = 0
  BY <1>1, <1>3, <1>4
<1>6. QED
  BY <1>5 DEF OnBrokerGrid, r

\* What is on the grid is a multiple of the grain.
LEMMA GridFactor ==
  ASSUME NEW n \in Int, OnBrokerGrid(n)
  PROVE  n \div Grain \in Int /\ n = Grain * (n \div Grain)
<1>1. Grain \in Nat \ {0}
  BY ConstantsFact DEF ConstantsOK
<1>2. QED
  BY <1>1, Division DEF OnBrokerGrid

\* Sums and differences stay on the grid.
LEMMA GridSum ==
  ASSUME NEW m \in Int, NEW n \in Int, OnBrokerGrid(m), OnBrokerGrid(n)
  PROVE  OnBrokerGrid(m + n) /\ OnBrokerGrid(m - n)
<1> DEFINE a == m \div Grain
           b == n \div Grain
<1>1. a \in Int /\ b \in Int /\ m = Grain * a /\ n = Grain * b
  BY GridFactor
<1> HIDE DEF a, b
<1>2. Grain \in Nat
  BY ConstantsFact DEF ConstantsOK
<1>3. m + n = Grain * (a + b) /\ m - n = Grain * (a - b)
  BY <1>1, <1>2
<1>4. a + b \in Int /\ a - b \in Int
  BY <1>1
<1>5. OnBrokerGrid(Grain * (a + b)) /\ OnBrokerGrid(Grain * (a - b))
  BY <1>4, MultipleOnGrid
<1>6. QED
  BY <1>3, <1>5

\* Zero is on the grid.
LEMMA GridZero == OnBrokerGrid(0)
<1>1. Grain * 0 = 0
  BY ConstantsFact DEF ConstantsOK
<1>2. QED
  BY <1>1, MultipleOnGrid

\* So is the negative of what is on it.
LEMMA GridNegative ==
  ASSUME NEW n \in Int, OnBrokerGrid(n)
  PROVE  OnBrokerGrid(- n)
<1>1. OnBrokerGrid(0 - n)
  BY GridZero, GridSum
<1>2. 0 - n = - n
  OBVIOUS
<1>3. QED
  BY <1>1, <1>2

\* Of two multiples, one that is less than a grain above the other is not
\* above it.
LEMMA GridGap ==
  ASSUME NEW m \in Int, NEW n \in Int, OnBrokerGrid(m), OnBrokerGrid(n), m < n + Grain
  PROVE  m <= n
<1> DEFINE a == m \div Grain
           b == n \div Grain
<1>1. a \in Int /\ b \in Int /\ m = Grain * a /\ n = Grain * b
  BY GridFactor
<1> HIDE DEF a, b
<1>2. Grain \in Nat \ {0}
  BY ConstantsFact DEF ConstantsOK
<1>3. Grain * a < Grain * (b + 1)
  BY <1>1, <1>2
<1>4. a < b + 1
  BY <1>1, <1>2, <1>3
<1>5. a <= b
  BY <1>1, <1>4
<1>6. Grain * a <= Grain * b
  BY <1>1, <1>2, <1>5
<1>7. QED
  BY <1>1, <1>6

-----------------------------------------------------------------------------
(***************************************************************************)
(* Buying power.                                                           *)
(***************************************************************************)

\* A step keeps the buying power that a plan counts on within the account's and
\* what has left the account since.
LEMMA AvailStep ==
  ASSUME IInv, AvailInv, [Next]_vars
  PROVE  AvailInv'
<1> USE DEF AvailInv
<1>1. /\ TypeOK /\ BrokerTypeOK /\ OrderInv
      /\ available \in Nat /\ bp \in Nat /\ drained \in Nat
      /\ Watching => order.qty \in Int /\ order.pay \in Nat
  BY DEF IInv, TypeOK, BrokerTypeOK, OrderInv, Orders
<1>2. IInv' /\ available' \in Nat /\ bp' \in Nat /\ drained' \in Nat
  BY NextInv DEF IInv, TypeOK, BrokerTypeOK
<1>3. CASE SeedLedger \/ QuietCycle \/ StartCycle \/ EndProcess
  BY <1>1, <1>3 DEF SeedLedger, QuietCycle, StartCycle, EndProcess, brokerVars,
     accountVars, planVars, historyVars, orderHistory, Watching
<1>4. ASSUME NEW t \in Ticker,
             \/ BuildIntent(t) \/ PlaceSell(t) \/ PlaceBuy(t) \/ SkipBuy(t)
             \/ ConfirmFill(t)
      PROVE  AvailInv'
  BY <1>1, <1>4 DEF BuildIntent, BuildIntentTo, PlaceSell, PlaceBuy, Prepare, SkipBuy,
     ConfirmFill, brokerVars, accountVars, historyVars, orderHistory
<1>5. CASE EndBuild \/ EndSells \/ ReadBuyingPower \/ EndBuys
  BY <1>1, <1>5 DEF EndBuild, EndSells, ReadBuyingPower, EndBuys, brokerVars, accountVars,
     historyVars, orderHistory
<1>6. CASE SaveKeys \/ Reread \/ EndCycle \/ QuoteRaises \/ Crash
  <2>1. CASE SaveKeys \/ Reread
    BY <1>1, <2>1 DEF SaveKeys, Reread, brokerVars, accountVars, planVars, historyVars,
       orderHistory
  <2>2. CASE EndCycle \/ QuoteRaises \/ Crash
    <3>1. available' = 0 /\ ~ (pc' = "poll")
      BY <2>2 DEF EndCycle, QuoteRaises, Crash, Forget
    <3>2. bp' \in Nat /\ drained' \in Nat
      BY <1>2
    <3>3. 0 <= bp' + drained' + 0
      BY <3>2, Drainage
    <3>4. QED
      BY <3>1, <3>3
  <2>3. QED
    BY <1>6, <2>1, <2>2
<1>7. CASE Refused
  BY <1>1, <1>7 DEF Refused, Return, AvailableAfter, Unwatch, orderHistory
<1>8. CASE Accepted
  <2>1. /\ order'.qty = order.qty /\ pc' = "poll" /\ available' = available
        /\ bp' = IF order.qty > 0 THEN bp - order.pay ELSE bp
        /\ pc = "submit" /\ drained' = drained + Slip
    BY <1>8 DEF Accepted, Accept, planVars
  <2>2. QED
    BY <1>1, <2>1 DEF Watching, Slip
<1>9. CASE ReplyLost
  <2>1. /\ pc' \in {"sells", "buys"} /\ available' = available
        /\ bp' = IF order.qty > 0 THEN bp - order.pay ELSE bp
        /\ pc = "submit" /\ drained' = drained + order.pay
    BY <1>9 DEF ReplyLost, AcceptUnwatched, Return, AvailableAfter
  <2>2. QED
    BY <1>1, <2>1 DEF Watching
<1>10. CASE ReplyUnnamed
  <2>1. /\ pc' \in {"sells", "buys"} /\ pc = "submit" /\ drained' = drained + Slip
        /\ available' = IF order.qty > 0 THEN available - order.qty ELSE available
        /\ bp' \in {bp, IF order.qty > 0 THEN bp - order.pay ELSE bp}
    BY <1>10 DEF ReplyUnnamed, AcceptUnwatched, Unwatch, Return, AvailableAfter
  <2>2. QED
    BY <1>1, <2>1 DEF Watching, Slip
<1>11. CASE PollStillOpen
  <2>1. CASE polls + 1 < PollMax
    BY <1>1, <1>11, <2>1 DEF PollStillOpen, brokerVars, accountVars, planVars,
       historyVars, orderHistory
  <2>2. CASE ~ (polls + 1 < PollMax)
    <3>1. /\ Return(FALSE, 0) /\ Unwatch /\ pc = "poll"
          /\ drained' = drained + (IF order.qty > 0 THEN order.qty ELSE 0)
      BY <1>11, <2>2 DEF PollStillOpen
    <3>2. /\ available' = available /\ pc' \in {"sells", "buys"} /\ bp' = bp
      BY <3>1 DEF Return, AvailableAfter, Unwatch
    <3>3. QED
      BY <1>1, <3>1, <3>2 DEF Watching
  <2>3. QED
    BY <2>1, <2>2
<1>12. CASE PollCleared \/ PollBlind
  <2>1. PICK n : Return(TRUE, n) /\ pc = "poll" /\ bp' = bp /\ drained' = drained
    BY <1>12 DEF PollCleared, PollBlind, Unwatch
  <2>2. /\ available' = IF order.qty > 0 THEN available - order.qty ELSE available
        /\ pc' # "poll"
    BY <2>1 DEF Return, AvailableAfter
  <2>3. QED
    BY <1>1, <2>1, <2>2 DEF Watching
<1>13. CASE SetKill \/ ClearKill
  BY <1>13 DEF SetKill, ClearKill, brokerVars, accountVars, planVars, orderHistory
<1>14. CASE Broker
  <2>1. /\ pc' = pc /\ available' = available
        /\ drained' = IF available > 0 /\ bp' < bp THEN drained + (bp - bp') ELSE drained
    BY <1>14 DEF Broker, planVars
  <2>2. Watching => order'.qty = order.qty
    <3>1. CASE FillOrder
      BY <1>1, <3>1, FillOrderType
    <3>2. CASE CancelOrder
      BY <1>1, <3>2, CancelOrderType
    <3>3. CASE BrokerElse
      BY <1>1, <3>3, BrokerElseType
    <3>4. QED
      BY <1>14, <3>1, <3>2, <3>3 DEF Broker, BrokerWorks
  <2>3. QED
    BY <1>1, <1>2, <2>1, <2>2 DEF Watching
<1>15. CASE UNCHANGED vars
  BY <1>15 DEF vars, brokerVars, accountVars, planVars, historyVars, orderHistory
<1>16. QED
  BY <1>3, <1>4, <1>5, <1>6, <1>7, <1>8, <1>9, <1>10, <1>11, <1>12, <1>13, <1>14, <1>15
  DEF Next, Execute, CarryOut

\* What a buy is sent for is in the account, but for what the price has risen
\* by since PASS 1 and what others have taken since the buying power was read:
\* the plan never spends the same dollar twice, and never an unsettled one.
THEOREM OverdraftsHaveACause == Spec => []OverdraftHasACause
<1>1. Init => AvailInv
  BY ConstantsFact DEF ConstantsOK, Init, AvailInv
<1>2. IInv /\ AvailInv /\ [Next]_vars => AvailInv'
  BY AvailStep
<1>3. IInv /\ AvailInv => OverdraftHasACause
  <2> SUFFICES ASSUME IInv, AvailInv, pc = "submit", order.qty > 0
               PROVE  order.pay <= bp + drained + Slip
    BY DEF OverdraftHasACause
  <2>1. /\ order.qty \in Int /\ order.pay \in Nat /\ order.qty <= available
        /\ available \in Nat /\ bp \in Nat /\ drained \in Nat
    BY DEF IInv, TypeOK, BrokerTypeOK, BuyInv, OrderInv, Watching, Orders
  <2>2. QED
    BY <2>1 DEF AvailInv, Slip
<1>4. QED
  BY <1>1, <1>2, <1>3, InductiveInvariant, PTL DEF Spec

-----------------------------------------------------------------------------
(***************************************************************************)
(* Keys.                                                                   *)
(***************************************************************************)

\* Whatever happens, the order under way is no longer among those to be sent.
LEMMA OneOrderStep ==
  ASSUME IInv, OneOrderInv, [Next]_vars
  PROVE  OneOrderInv'
<1> USE DEF OneOrderInv, Watching
<1>1. /\ TypeOK /\ BrokerTypeOK /\ OrderInv /\ ready \in [Ticker -> Int]
      /\ Watching => order \in Orders
  BY DEF IInv, TypeOK, OrderInv
<1>2. CASE SeedLedger \/ QuietCycle \/ StartCycle \/ EndProcess
  BY <1>2 DEF SeedLedger, QuietCycle, StartCycle, EndProcess
<1>3. ASSUME NEW t \in Ticker, BuildIntent(t) \/ SkipBuy(t) \/ ConfirmFill(t)
      PROVE  OneOrderInv'
  BY <1>3 DEF BuildIntent, BuildIntentTo, SkipBuy, ConfirmFill
<1>4. ASSUME NEW t \in Ticker, PlaceSell(t) \/ PlaceBuy(t) PROVE OneOrderInv'
  BY <1>1, <1>4 DEF PlaceSell, PlaceBuy, Prepare, Request, Requotes
<1>5. CASE \/ EndBuild \/ EndSells \/ ReadBuyingPower \/ EndBuys \/ SaveKeys \/ Reread
           \/ EndCycle \/ QuoteRaises \/ Crash
  BY <1>5 DEF EndBuild, EndSells, ReadBuyingPower, EndBuys, SaveKeys, Reread, EndCycle,
     QuoteRaises, Crash, Forget
<1>6. CASE Refused \/ ReplyLost \/ ReplyUnnamed \/ PollCleared \/ PollBlind
  BY <1>6 DEF Refused, ReplyLost, ReplyUnnamed, PollCleared, PollBlind, Return
<1>7. CASE Accepted
  <2>1. order'.tkr = order.tkr
    BY <1>7 DEF Accepted, Accept
  <2>2. QED
    BY <1>7, <2>1 DEF Accepted, planVars
<1>8. CASE PollStillOpen
  BY <1>8 DEF PollStillOpen, Return, brokerVars, accountVars, planVars
<1>9. CASE SetKill \/ ClearKill
  BY <1>9 DEF SetKill, ClearKill, brokerVars, accountVars, planVars
<1>10. CASE Broker
  <2>1. pc' = pc /\ ready' = ready /\ (Watching => order'.tkr = order.tkr)
    <3>1. CASE FillOrder
      BY <1>1, <1>10, <3>1, FillOrderType DEF Broker, planVars
    <3>2. CASE CancelOrder
      BY <1>1, <1>10, <3>2, CancelOrderType DEF Broker, planVars
    <3>3. CASE BrokerElse
      BY <1>1, <1>10, <3>3, BrokerElseType DEF Broker, planVars
    <3>4. QED
      BY <1>10, <3>1, <3>2, <3>3 DEF Broker, BrokerWorks
  <2>2. QED
    BY <2>1
<1>11. CASE UNCHANGED vars
  BY <1>11 DEF vars, brokerVars, accountVars, planVars
<1>12. QED
  BY <1>2, <1>3, <1>4, <1>5, <1>6, <1>7, <1>8, <1>9, <1>10, <1>11
  DEF Next, Execute, CarryOut

\* A step keeps every key that was reached remembered or known to be forgotten,
\* and every key that is still to be sent new.
LEMMA ReplayStep ==
  ASSUME IInv, OneOrderInv, ReplayInv, [Next]_vars
  PROVE  ReplayInv'
<1> USE DEF ReplayInv, NoSecondOrderForKey, Remembered, TheKey, Key, Savable
<1>1. /\ TypeOK /\ OrderInv /\ PlanInv /\ ready \in [Ticker -> Int]
      /\ Watching => order \in Orders /\ ready[order.tkr] = 0
  BY DEF IInv, TypeOK, OrderInv, OneOrderInv
<1>2. CASE SeedLedger \/ QuietCycle \/ EndProcess
  BY <1>2 DEF SeedLedger, QuietCycle, EndProcess, fileVars, planVars, historyVars,
     orderHistory
<1>3. CASE StartCycle
  BY <1>1, <1>3 DEF StartCycle, fileVars, historyVars, orderHistory, PlanInv, NoDelta
<1>4. ASSUME NEW t \in Ticker, BuildIntent(t) PROVE ReplayInv'
  <2>1. PICK target \in 0 .. MaxTarget : BuildIntentTo(t, target)
    BY <1>4 DEF BuildIntent
  <2>2. /\ pc = "build" /\ pc' = pc /\ trigger' = trigger /\ reached' = reached
        /\ forgotten' = forgotten /\ idemp' = idemp
        /\ \/ ready' = ready
           \/ \E q : /\ ready' = [ready EXCEPT ![t] = q]
                    /\ Key(t, q) \notin idemp
    BY <2>1, Zenon DEF BuildIntentTo, SkipIntent, DeclineIntent, PrepareIntent, fileVars,
       orderHistory
  <2>3. QED
    BY <1>1, <2>2
<1>5. ASSUME NEW t \in Ticker, PlaceSell(t) \/ PlaceBuy(t) PROVE ReplayInv'
  <2>1. /\ pc \in {"sells", "buys"} /\ pc' = "submit" /\ ready[t] # 0
        /\ trigger' = trigger /\ reached' = reached /\ forgotten' = forgotten
        /\ idemp' = idemp /\ keys' = keys
        /\ ready' = [ready EXCEPT ![t] = 0]
        /\ order'.tkr = t /\ order'.qty = ready[t]
    BY <1>1, <1>5 DEF PlaceSell, PlaceBuy, Sells, Buys, Prepare, Request, Requotes,
       fileVars, historyVars, orderHistory
  <2>2. QED
    BY <1>1, <2>1
<1>6. CASE \/ EndBuild \/ EndSells \/ ReadBuyingPower \/ EndBuys
           \/ \E t \in Ticker : SkipBuy(t)
  <2>1. /\ trigger' = trigger /\ reached' = reached /\ forgotten' = forgotten
        /\ idemp' = idemp /\ keys' = keys
        /\ pc \in {"build", "sells", "bp", "buys"} /\ pc' \in {"sells", "bp", "buys", "save"}
    BY <1>6 DEF EndBuild, EndSells, ReadBuyingPower, EndBuys, SkipBuy, fileVars,
       historyVars, orderHistory
  <2>2. \A t \in Ticker : ready'[t] = ready[t] \/ ready'[t] = 0
    BY <1>1, <1>6 DEF EndBuild, EndSells, ReadBuyingPower, EndBuys, SkipBuy, NoDelta
  <2>3. QED
    BY <1>1, <2>1, <2>2
<1>7. CASE Refused \/ ReplyLost
  <2>1. /\ trigger' = trigger /\ idemp' = idemp /\ ready' = ready /\ keys' = keys
        /\ pc = "submit" /\ pc' \in {"sells", "buys"}
        /\ reached' \in {reached, reached \cup Savable(TheKey)}
        /\ forgotten' = forgotten \cup (reached' \ reached)
           \/ forgotten' = forgotten \cup Savable(TheKey)
    BY <1>7 DEF Refused, ReplyLost, Return, KeysAfter, orderHistory
  <2>2. QED
    BY <2>1
<1>8. CASE ReplyUnnamed \/ PollCleared \/ PollBlind
  <2>1. PICK n : Return(TRUE, n)
    BY <1>8 DEF ReplyUnnamed, PollCleared, PollBlind
  <2>2. /\ trigger' = trigger /\ idemp' = idemp /\ ready' = ready
        /\ pc \in {"submit", "poll"} /\ pc' \in {"sells", "buys"}
        /\ reached' \in {reached, reached \cup Savable(TheKey)}
        /\ forgotten' = forgotten \ Savable(TheKey)
        /\ keys' = keys \cup {TheKey}
    BY <1>8, <2>1 DEF ReplyUnnamed, PollCleared, PollBlind, Return, KeysAfter
  <2>3. \A t \in Ticker : ready[t] # 0 => Key(t, ready[t]) # TheKey
    BY <1>1, <2>2 DEF Watching
  <2>4. QED
    BY <2>2, <2>3
<1>9. CASE Accepted
  <2>1. /\ order'.tkr = order.tkr /\ order'.qty = order.qty
        /\ order.tkr \in Ticker /\ ready[order.tkr] = 0
    BY <1>1, <1>9 DEF Accepted, Accept, Watching, Orders
  <2>2. /\ trigger' = trigger /\ idemp' = idemp /\ ready' = ready /\ keys' = keys
        /\ reached' = reached \cup Savable(TheKey) /\ forgotten' = forgotten
        /\ pc = "submit" /\ pc' = "poll"
    BY <1>9 DEF Accepted, fileVars, planVars
  <2>3. QED
    BY <2>1, <2>2
<1>10. CASE PollStillOpen
  <2>1. CASE polls + 1 < PollMax
    BY <1>10, <2>1 DEF PollStillOpen, brokerVars, accountVars, fileVars, planVars,
       historyVars, orderHistory
  <2>2. CASE ~ (polls + 1 < PollMax)
    <3>1. /\ trigger' = trigger /\ idemp' = idemp /\ ready' = ready /\ keys' = keys
          /\ pc = "poll" /\ pc' \in {"sells", "buys"}
          /\ reached' = reached /\ forgotten' = forgotten \cup Savable(TheKey)
      BY <1>10, <2>2 DEF PollStillOpen, Return, KeysAfter
    <3>2. QED
      BY <3>1
  <2>3. QED
    BY <2>1, <2>2
<1>11. CASE SaveKeys
  BY <1>11 DEF SaveKeys, historyVars, orderHistory
<1>12. CASE Reread \/ \E t \in Ticker : ConfirmFill(t)
  BY <1>12 DEF Reread, ConfirmFill, fileVars, planVars, historyVars, orderHistory
<1>13. CASE EndCycle \/ QuoteRaises
  BY <1>13 DEF EndCycle, QuoteRaises, Forget, fileVars, historyVars, orderHistory, NoDelta
<1>14. CASE Crash
  BY <1>14 DEF Crash, Forget, NoDelta
<1>15. CASE SetKill \/ ClearKill
  BY <1>15 DEF SetKill, ClearKill, brokerVars, accountVars, fileVars, planVars, orderHistory
<1>16. CASE Broker
  <2>1. Watching => order'.tkr = order.tkr /\ order'.qty = order.qty
    <3>1. CASE FillOrder
      BY <1>1, <1>16, <3>1, FillOrderType DEF TypeOK
    <3>2. CASE CancelOrder
      BY <1>1, <1>16, <3>2, CancelOrderType DEF TypeOK
    <3>3. CASE BrokerElse
      BY <1>1, <1>16, <3>3, BrokerElseType DEF TypeOK
    <3>4. QED
      BY <1>16, <3>1, <3>2, <3>3 DEF Broker, BrokerWorks
  <2>2. UNCHANGED <<pc, fileVars, planVars, reached, forgotten>>
    BY <1>16 DEF Broker
  <2>3. QED
    BY <2>1, <2>2 DEF Watching, fileVars, planVars
<1>17. CASE UNCHANGED vars
  BY <1>17 DEF vars, brokerVars, accountVars, fileVars, planVars, historyVars, orderHistory
<1>18. QED
  BY <1>2, <1>3, <1>4, <1>5, <1>6, <1>7, <1>8, <1>9, <1>10, <1>11, <1>12, <1>13, <1>14,
     <1>15, <1>16, <1>17
  DEF Next, Execute, CarryOut

\* The key file of execute_plan: under a trigger whose keys are saved, a key that
\* was reached is sent again only if the executor was left without a memory of
\* it, through refusals, partial fills, failing polls, torn files, the kill
\* switch and owners' trades.
THEOREM ReplaysSendNothingTwice == Spec => []NoSecondOrderForKey
<1>1. Init => OneOrderInv /\ ReplayInv
  BY DEF Init, OneOrderInv, Watching, ReplayInv, Remembered, NoSecondOrderForKey, NoDelta
<1>2. IInv /\ OneOrderInv /\ ReplayInv /\ [Next]_vars => OneOrderInv' /\ ReplayInv'
  BY OneOrderStep, ReplayStep
<1>3. ReplayInv => NoSecondOrderForKey
  BY DEF ReplayInv
<1>4. QED
  BY <1>1, <1>2, <1>3, InductiveInvariant, PTL DEF Spec

-----------------------------------------------------------------------------
(***************************************************************************)
(* Orders at the broker, and fills on their way to the ledger.             *)
(***************************************************************************)

\* What the faults that Timely excludes would do does not happen.
LEMMA TimelySteps ==
  ASSUME Timely
  PROVE  /\ ~ ReplyLost /\ ~ ReplyUnnamed /\ ~ PollBlind /\ ~ Crash
         /\ PollStillOpen =>
              UNCHANGED <<brokerVars, fileVars, pc, posCache, planVars, killed, historyVars>>
<1>1. \A f \in {"slow", "reply", "noid", "crash", "poll"} : ~ Fault(f)
  BY DEF Timely, FilesFollow, NobodyTurnsAway, Fault
<1>2. QED
  BY <1>1, Zenon DEF ReplyLost, ReplyUnnamed, PollBlind, Crash, PollStillOpen

\* The client turns away only from an order that is not open any more.
LEMMA NothingRestsStep ==
  ASSUME Timely, IInv, NothingRests, [Next]_vars
  PROVE  NothingRests'
<1> USE DEF NothingRests, NoShares
<1>1. /\ TypeOK /\ BrokerTypeOK /\ OrderInv
      /\ Watching => order \in Orders /\ order.want \in Nat /\ order.filled \in Nat
                     /\ order.filled <= order.want
      /\ \A t \in Ticker : restBuy[t] = 0 /\ restSell[t] = 0
  BY DEF IInv, TypeOK, OrderInv, Orders
<1>2. CASE SeedLedger \/ QuietCycle \/ StartCycle \/ EndProcess
  BY <1>2 DEF SeedLedger, QuietCycle, StartCycle, EndProcess, brokerVars, accountVars
<1>3. ASSUME NEW t \in Ticker,
             \/ BuildIntent(t) \/ PlaceSell(t) \/ PlaceBuy(t) \/ SkipBuy(t)
             \/ ConfirmFill(t)
      PROVE  NothingRests'
  BY <1>3 DEF BuildIntent, BuildIntentTo, PlaceSell, PlaceBuy, Prepare, SkipBuy,
     ConfirmFill, brokerVars, accountVars
<1>4. CASE \/ EndBuild \/ EndSells \/ ReadBuyingPower \/ EndBuys \/ SaveKeys \/ Reread
           \/ EndCycle \/ QuoteRaises
  BY <1>4 DEF EndBuild, EndSells, ReadBuyingPower, EndBuys, SaveKeys, Reread, EndCycle,
     QuoteRaises, brokerVars, accountVars
<1>5. CASE Refused \/ PollCleared
  <2>1. Rest(order) = 0 /\ order.tkr \in Ticker
    <3>1. pc = "submit" \/ (pc = "poll" /\ order.state = "closed")
      BY <1>5 DEF Refused, PollCleared
    <3>2. order.tkr \in Ticker /\ (pc = "submit" => order.want = 0)
      BY <1>1, <3>1 DEF OrderInv, Watching, Orders
    <3>3. pc = "submit" => ~ order.filled < order.want
      BY <1>1, <3>2 DEF Watching
    <3>4. QED
      BY <3>1, <3>2, <3>3 DEF Rest
  <2>2. /\ restBuy' \in {restBuy, [restBuy EXCEPT ![order.tkr] = @ + Rest(order)]}
        /\ restSell' \in {restSell, [restSell EXCEPT ![order.tkr] = @ + Rest(order)]}
    BY <1>5, Zenon DEF Refused, PollCleared, Unwatch
  <2>3. restBuy[order.tkr] + Rest(order) = 0 /\ restSell[order.tkr] + Rest(order) = 0
    BY <1>1, <2>1
  <2>4. /\ [restBuy EXCEPT ![order.tkr] = @ + Rest(order)] = NoShares
        /\ [restSell EXCEPT ![order.tkr] = @ + Rest(order)] = NoShares
    BY <2>1, <2>3
  <2>5. QED
    BY <2>2, <2>4
<1>6. CASE Accepted \/ PollStillOpen
  BY <1>6, TimelySteps DEF Accepted, Accept, brokerVars, accountVars
<1>7. CASE SetKill \/ ClearKill
  BY <1>7 DEF SetKill, ClearKill, brokerVars, accountVars
<1>8. CASE Broker
  <2>1. CASE FillOrder \/ CancelOrder \/ Settle
    BY <2>1 DEF FillOrder, CancelOrder, Settle
  <2>2. ASSUME NEW t \in Ticker, FillResting(t) \/ CancelResting(t) \/ OwnerTrade(t)
        PROVE  NothingRests'
    <3>1. Pieces(restBuy[t]) = {} /\ Pieces(restSell[t]) = {}
      BY <1>1 DEF Pieces
    <3>2. ~ FillResting(t) /\ ~ CancelResting(t)
      BY <1>1, <3>1 DEF FillResting, CancelResting
    <3>3. QED
      BY <2>2, <3>2 DEF OwnerTrade
  <2>3. QED
    BY <1>8, <2>1, <2>2 DEF Broker, BrokerWorks, BrokerElse
<1>9. CASE UNCHANGED vars
  BY <1>9 DEF vars, brokerVars, accountVars
<1>10. QED
  BY <1>2, <1>3, <1>4, <1>5, <1>6, <1>7, <1>8, <1>9, TimelySteps
  DEF Next, Execute, CarryOut

\* The broker steps that are left.
LEMMA TimelyBroker ==
  ASSUME IInv, NothingRests, Broker
  PROVE  \/ FillOrder \/ CancelOrder
         \/ Settle \/ \E t \in Ticker : OwnerTrade(t)
<1>1. \A t \in Ticker : restBuy[t] = 0 /\ restSell[t] = 0
  BY DEF NothingRests, NoShares
<1>2. ASSUME NEW t \in Ticker, FillResting(t) \/ CancelResting(t) PROVE FALSE
  <2>1. Pieces(restBuy[t]) = {} /\ Pieces(restSell[t]) = {}
    BY <1>1 DEF Pieces
  <2>2. QED
    BY <1>1, <1>2, <2>1 DEF FillResting, CancelResting
<1>3. QED
  BY <1>2 DEF Broker, BrokerWorks, BrokerElse

\* A fill belongs to a ticker that has no order any more, and a sale is one
\* that the ledger can take, give or take half a grain.
LEMMA FillsStep ==
  ASSUME Timely, IInv, OneOrderInv, NothingRests, FillsInv, [Next]_vars
  PROVE  FillsInv'
<1> USE DEF FillsInv, Watching
<1>1. /\ TypeOK /\ BrokerTypeOK /\ OrderInv /\ ledger \in Ledgers
      /\ ready \in [Ticker -> Int] /\ fills \in [Ticker -> Int]
      /\ \A t \in Ticker : Owned(ledger, t) \in Nat
      /\ Watching => order \in Orders /\ order.tkr \in Ticker /\ order.filled \in Nat
  BY DEF IInv, TypeOK, OrderInv, Orders, Ledgers, Shares, Owned
<1>2. CASE SeedLedger
  BY <1>1, <1>2 DEF SeedLedger, planVars, NoDelta
<1>3. CASE QuietCycle \/ StartCycle \/ EndProcess
  BY <1>3 DEF QuietCycle, StartCycle, EndProcess, brokerVars, accountVars, planVars, fileVars
<1>4. ASSUME NEW t \in Ticker, BuildIntent(t) PROVE FillsInv'
  BY <1>1, <1>4 DEF BuildIntent, BuildIntentTo, brokerVars, accountVars, fileVars, NoDelta
<1>5. ASSUME NEW t \in Ticker, PlaceSell(t) \/ PlaceBuy(t) PROVE FillsInv'
  <2>1. /\ pc' = "submit" /\ ready[t] # 0 /\ ledger' = ledger /\ fills' = fills
        /\ ready' = [ready EXCEPT ![t] = 0] /\ order'.tkr = t
    BY <1>1, <1>5 DEF PlaceSell, PlaceBuy, Sells, Buys, Prepare, Request, fileVars
  <2>2. QED
    BY <1>1, <2>1
<1>6. CASE \/ EndBuild \/ EndSells \/ ReadBuyingPower \/ EndBuys
           \/ \E t \in Ticker : SkipBuy(t)
  <2>1. /\ ledger' = ledger /\ fills' = fills
        /\ pc' \notin {"idle", "build", "submit", "poll"}
    BY <1>6 DEF EndBuild, EndSells, ReadBuyingPower, EndBuys, SkipBuy, fileVars
  <2>2. \A t \in Ticker : ready'[t] = ready[t] \/ ready'[t] = 0
    BY <1>1, <1>6 DEF EndBuild, EndSells, ReadBuyingPower, EndBuys, SkipBuy, NoDelta
  <2>3. QED
    BY <2>1, <2>2
<1>7. CASE Refused
  <2>1. fills' = fills /\ ready' = ready /\ ledger' = ledger /\ pc' \in {"sells", "buys"}
    BY <1>7 DEF Refused, Return, FillsAfter
  <2>2. QED
    BY <2>1
<1>8. CASE PollCleared
  <2> DEFINE t == order.tkr
             n == IF order.qty < 0 THEN - order.filled ELSE order.filled
  <2>1. /\ t \in Ticker /\ n \in Int /\ ready[t] = 0
        /\ n < 0 => IsSeeded(ledger) /\ 2 * (- n - Owned(ledger, t)) <= Grain
    <3>1. t \in Ticker /\ n \in Int /\ ready[t] = 0
      BY <1>1, <1>8 DEF PollCleared, OneOrderInv
    <3>2. /\ order.want \in Nat /\ order.filled <= order.want /\ order # NoOrder
          /\ order.qty \in Int
      <4>1. order \in Orders /\ order.filled <= order.want
        BY <1>1, <1>8 DEF PollCleared, OrderInv
      <4>2. QED
        BY <4>1 DEF Orders, NoOrder
    <3>3. n < 0 => order.qty < 0 /\ n = - order.filled
      BY <1>1, <1>8, <3>2 DEF PollCleared
    <3>4. order.qty < 0 => IsSeeded(ledger) /\ 2 * (order.want - Owned(ledger, t)) <= Grain
      BY <3>2 DEF IInv, SellWithinLedger
    <3>5. Owned(ledger, t) \in Nat /\ Grain \in Nat /\ order.filled \in Nat
      BY <1>1, <1>8, <3>1, ConstantsFact DEF ConstantsOK, PollCleared
    <3> HIDE DEF t, n
    <3>6. QED
      BY <3>1, <3>2, <3>3, <3>4, <3>5
  <2>2. /\ fills' = fills \/ fills' = [fills EXCEPT ![t] = n]
        /\ ready' = ready /\ ledger' = ledger /\ pc' \in {"sells", "buys"}
    BY <1>8 DEF PollCleared, Return, FillsAfter
  <2> HIDE DEF t, n
  <2>3. QED
    BY <1>1, <2>1, <2>2
<1>9. CASE Accepted \/ PollStillOpen
  <2>1. /\ UNCHANGED <<ledger, fills, ready>>
        /\ pc \in {"submit", "poll"} /\ pc' = "poll" /\ order'.tkr = order.tkr
    <3>1. CASE Accepted
      BY <3>1 DEF Accepted, Accept, fileVars, planVars
    <3>2. CASE PollStillOpen
      <4>1. pc = "poll"
        BY <3>2 DEF PollStillOpen
      <4>2. QED
        BY <3>2, <4>1, TimelySteps DEF brokerVars, accountVars, fileVars, planVars
    <3>3. QED
      BY <1>9, <3>1, <3>2
  <2>2. QED
    BY <2>1
<1>10. CASE SaveKeys \/ Reread
  BY <1>10 DEF SaveKeys, Reread, fileVars, planVars
<1>11. ASSUME NEW t \in Ticker, ConfirmFill(t) PROVE FillsInv'
  <2>1. /\ fills[t] # 0 /\ fills' = [fills EXCEPT ![t] = 0] /\ ready' = ready
        /\ ledger' = LedgerAfter(t, fills[t]) /\ pc' = "confirm"
    BY <1>11 DEF ConfirmFill
  <2>2. /\ IsSeeded(ledger') = IsSeeded(ledger)
        /\ \A s \in Ticker \ {t} : Owned(ledger', s) = Owned(ledger, s)
    BY <1>1, <2>1 DEF LedgerAfter, RecordSell, RecordBuy, IsSeeded, Owned, Ledgers, Shares
  <2>3. QED
    BY <1>1, <2>1, <2>2 DEF IsSeeded, Owned
<1>12. CASE EndCycle \/ QuoteRaises
  BY <1>12 DEF EndCycle, QuoteRaises, Forget, NoDelta
<1>13. CASE SetKill \/ ClearKill
  BY <1>13 DEF SetKill, ClearKill, brokerVars, accountVars, planVars, fileVars
<1>14. CASE Broker
  <2>1. Watching => order'.tkr = order.tkr
    BY <1>1, <1>14, TimelyBroker, FillOrderType, CancelOrderType DEF Settle, OwnerTrade
  <2>2. UNCHANGED <<ledger, fills, ready, pc>>
    BY <1>14 DEF Broker, fileVars, planVars
  <2>3. QED
    BY <2>1, <2>2
<1>15. CASE UNCHANGED vars
  BY <1>15 DEF vars, brokerVars, accountVars, planVars, fileVars
<1>16. QED
  BY <1>2, <1>3, <1>4, <1>5, <1>6, <1>7, <1>8, <1>9, <1>10, <1>11, <1>12, <1>13, <1>14,
     <1>15, TimelySteps
  DEF Next, Execute, CarryOut

\* The broker works an order for a multiple of its grain.
LEMMA WorkableOnGrid ==
  ASSUME NEW t \in Ticker, NEW q \in Int, NEW pay \in Nat, NEW w \in Workable(t, q, pay)
  PROVE  OnBrokerGrid(w)
<1>1. CASE q > 0
  <2>1. PICK n \in Nat : w = Grain * (n \div Grain)
    BY <1>1 DEF Workable, BoughtShares
  <2>2. n \div Grain \in Int
    BY ConstantsFact, Division DEF ConstantsOK
  <2>3. QED
    BY <2>1, <2>2, MultipleOnGrid
<1>2. CASE ~ (q > 0)
  BY <1>2 DEF Workable, RoundedSell, OnBrokerGrid
<1>3. QED
  BY <1>1, <1>2

\* So every fill is a multiple of the grain.
LEMMA GridStep ==
  ASSUME Timely, IInv, NothingRests, GridInv, [Next]_vars
  PROVE  GridInv'
<1> USE DEF GridInv, Watching
<1>1. /\ TypeOK /\ BrokerTypeOK /\ OrderInv /\ fills \in [Ticker -> Int]
      /\ Watching => /\ order \in Orders /\ order.tkr \in Ticker /\ order.qty \in Int
                     /\ order.filled \in Nat
  BY DEF IInv, TypeOK, OrderInv, Orders
<1>2. CASE SeedLedger \/ QuietCycle \/ StartCycle \/ EndProcess
  BY <1>2 DEF SeedLedger, QuietCycle, StartCycle, EndProcess, planVars
<1>3. ASSUME NEW t \in Ticker, BuildIntent(t) \/ SkipBuy(t) PROVE GridInv'
  BY <1>3 DEF BuildIntent, BuildIntentTo, SkipBuy
<1>4. ASSUME NEW t \in Ticker, PlaceSell(t) \/ PlaceBuy(t) PROVE GridInv'
  <2>1. fills' = fills /\ order'.want = 0 /\ order'.filled = 0
    BY <1>4 DEF PlaceSell, PlaceBuy, Prepare, Request, Requotes
  <2>2. QED
    BY <2>1, GridZero
<1>5. CASE \/ EndBuild \/ EndSells \/ ReadBuyingPower \/ EndBuys \/ SaveKeys \/ Reread
  BY <1>5 DEF EndBuild, EndSells, ReadBuyingPower, EndBuys, SaveKeys, Reread, planVars
<1>6. CASE Refused
  BY <1>6 DEF Refused, Return, FillsAfter
<1>7. CASE PollCleared
  <2> DEFINE n == IF order.qty < 0 THEN - order.filled ELSE order.filled
  <2>1. OnBrokerGrid(n)
    BY <1>1, <1>7, GridNegative DEF PollCleared
  <2>2. /\ fills' = fills \/ fills' = [fills EXCEPT ![order.tkr] = n]
        /\ pc' \in {"sells", "buys"}
    BY <1>7 DEF PollCleared, Return, FillsAfter
  <2> HIDE DEF n
  <2>3. QED
    BY <1>1, <2>1, <2>2
<1>8. CASE Accepted
  <2>1. PICK w \in Workable(order.tkr, order.qty, order.pay) :
          order' = [tkr |-> order.tkr, qty |-> order.qty, pay |-> order.pay, want |-> w,
                    filled |-> 0, state |-> "open"]
    BY <1>8 DEF Accepted, Accept
  <2>2. OnBrokerGrid(w)
    <3>1. order.pay \in Nat
      BY <1>1, <1>8 DEF Accepted, Orders
    <3>2. QED
      BY <1>1, <1>8, <3>1, WorkableOnGrid DEF Accepted
  <2>3. order'.want = w /\ order'.filled = 0 /\ fills' = fills
    BY <1>8, <2>1 DEF Accepted, planVars
  <2>4. QED
    BY <2>2, <2>3, GridZero
<1>9. CASE PollStillOpen
  BY <1>9, TimelySteps DEF brokerVars, accountVars, planVars
<1>10. ASSUME NEW t \in Ticker, ConfirmFill(t) PROVE GridInv'
  BY <1>1, <1>10, GridZero DEF ConfirmFill
<1>11. CASE EndCycle \/ QuoteRaises
  BY <1>11, GridZero DEF EndCycle, QuoteRaises, Forget, NoDelta
<1>12. CASE SetKill \/ ClearKill
  BY <1>12 DEF SetKill, ClearKill, brokerVars, accountVars, planVars
<1>13. CASE Broker
  <2>1. pc' = pc /\ fills' = fills
    BY <1>13 DEF Broker, planVars
  <2>2. CASE FillOrder
    <3>1. Watching /\ order \in Orders /\ order.filled \in Nat /\ order.want \in Nat
      BY <1>1, <2>2 DEF FillOrder, OrderInv, Orders
    <3>2. PICK n \in Pieces(order.want - order.filled) : order'.filled = order.filled + n
      BY <3>1, <2>2 DEF FillOrder, Orders
    <3>3. n \in Int /\ OnBrokerGrid(n)
      BY <3>1, <3>2 DEF Pieces, OnBrokerGrid
    <3>4. OnBrokerGrid(order.filled + n)
      <4>1. order.filled \in Int /\ OnBrokerGrid(order.filled)
        BY <3>1
      <4>2. QED
        BY <3>3, <4>1, GridSum, Zenon
    <3>5. order'.want = order.want
      BY <1>1, <2>2, FillOrderType, Zenon
    <3>6. QED
      BY <2>1, <3>1, <3>2, <3>4, <3>5
  <2>3. CASE CancelOrder
    <3>1. order' = [order EXCEPT !.state = "closed"]
      BY <2>3 DEF CancelOrder
    <3>2. QED
      BY <1>1, <2>1, <3>1 DEF Orders
  <2>4. CASE Settle \/ \E t \in Ticker : OwnerTrade(t)
    BY <2>1, <2>4 DEF Settle, OwnerTrade
  <2>5. QED
    BY <1>13, <2>2, <2>3, <2>4, TimelyBroker
<1>14. CASE UNCHANGED vars
  BY <1>14 DEF vars, brokerVars, accountVars, planVars
<1>15. QED
  BY <1>2, <1>3, <1>4, <1>5, <1>6, <1>7, <1>8, <1>9, <1>10, <1>11, <1>12, <1>13, <1>14,
     TimelySteps
  DEF Next, Execute, CarryOut

-----------------------------------------------------------------------------
(***************************************************************************)
(* The books.                                                              *)
(***************************************************************************)

\* The shares the books count are whole numbers of ledger units.
LEMMA BookTypes ==
  ASSUME IInv, NEW t \in Ticker
  PROVE  /\ Owned(ledger, t) \in Nat /\ fills[t] \in Int /\ bot[t] \in Int
         /\ UnderWay(t) \in Int /\ Expected(t) \in Int
<1>1. Owned(ledger, t) \in Nat /\ fills[t] \in Int /\ bot[t] \in Int
  BY DEF IInv, TypeOK, BrokerTypeOK, Ledgers, Shares, Owned
<1>2. UnderWay(t) \in Int
  BY DEF IInv, OrderInv, Watching, Orders, UnderWay
<1>3. QED
  BY <1>1, <1>2 DEF Expected

\* What a step does to the books: nothing, unless it is one of three.
LEMMA BookSteps ==
  ASSUME Timely, IInv, OneOrderInv, NothingRests, FillsInv, [Next]_vars
  PROVE  \/ /\ UNCHANGED <<ledger, bot>>
            /\ \A t \in Ticker : Expected(t)' = Expected(t)
         \/ SeedLedger
         \/ FillOrder /\ UNCHANGED <<ledger, fills, pc>>
         \/ \E t \in Ticker : ConfirmFill(t)
<1> DEFINE Same == /\ UNCHANGED <<ledger, bot>>
                   /\ \A t \in Ticker : Expected(t)' = Expected(t)
<1>1. /\ TypeOK /\ BrokerTypeOK /\ OrderInv /\ fills \in [Ticker -> Int]
      /\ Watching => order \in Orders /\ order.tkr \in Ticker /\ order.filled \in Int
  BY DEF IInv, TypeOK, OrderInv, Orders
<1>2. ASSUME UNCHANGED <<ledger, bot, fills>>, pc # "poll", pc' # "poll" PROVE Same
  BY <1>2 DEF Expected, UnderWay, Owned
<1>3. ASSUME UNCHANGED <<ledger, bot, fills, pc, order>> PROVE Same
  BY <1>3 DEF Expected, UnderWay, Owned
<1>4. CASE \/ QuietCycle \/ StartCycle \/ EndProcess \/ SetKill \/ ClearKill
  <2>1. /\ UNCHANGED <<ledger, bot, fills, order>>
        /\ pc' = pc \/ (pc # "poll" /\ pc' # "poll")
    BY <1>4 DEF QuietCycle, StartCycle, EndProcess, SetKill, ClearKill, brokerVars,
       accountVars, fileVars, planVars
  <2>2. QED
    BY <1>2, <1>3, <2>1
<1>5. ASSUME NEW t \in Ticker,
             BuildIntent(t) \/ PlaceSell(t) \/ PlaceBuy(t) \/ SkipBuy(t)
      PROVE  Same
  <2>1. UNCHANGED <<ledger, bot, fills>> /\ pc # "poll" /\ pc' # "poll"
    BY <1>5 DEF BuildIntent, BuildIntentTo, PlaceSell, PlaceBuy, Prepare, SkipBuy,
       brokerVars, accountVars, fileVars
  <2>2. QED
    BY <1>2, <2>1
<1>6. CASE \/ EndBuild \/ EndSells \/ ReadBuyingPower \/ EndBuys \/ SaveKeys \/ Reread
  <2>1. UNCHANGED <<ledger, bot, fills>> /\ pc # "poll" /\ pc' # "poll"
    BY <1>6 DEF EndBuild, EndSells, ReadBuyingPower, EndBuys, SaveKeys, Reread,
       brokerVars, accountVars, fileVars, planVars
  <2>2. QED
    BY <1>2, <2>1
<1>7. CASE EndCycle \/ QuoteRaises
  <2>1. UNCHANGED <<ledger, bot, fills>> /\ pc # "poll" /\ pc' # "poll"
    BY <1>7 DEF EndCycle, QuoteRaises, Forget, FillsInv, brokerVars, accountVars, fileVars
  <2>2. QED
    BY <1>2, <2>1
<1>8. CASE Refused
  <2>1. UNCHANGED <<ledger, bot, fills>> /\ pc # "poll" /\ pc' # "poll"
    BY <1>8 DEF Refused, Return, FillsAfter, Unwatch
  <2>2. QED
    BY <1>2, <2>1
<1>9. CASE Accepted
  <2>1. UNCHANGED <<ledger, bot, fills>> /\ pc # "poll" /\ order'.filled = 0
    BY <1>9 DEF Accepted, Accept, fileVars, planVars
  <2>2. ASSUME NEW t \in Ticker PROVE UnderWay(t)' = 0 /\ UnderWay(t) = 0
    <3>1. UnderWay(t)' \in {0, order'.filled, - order'.filled} /\ UnderWay(t) = 0
      BY <2>1, Zenon DEF UnderWay
    <3>2. QED
      BY <2>1, <3>1
  <2>3. QED
    BY <2>1, <2>2 DEF Expected, Owned
<1>10. CASE PollStillOpen
  <2>1. UNCHANGED <<ledger, bot, fills, pc, order>>
    BY <1>10, TimelySteps DEF brokerVars, accountVars, fileVars, planVars
  <2>2. QED
    BY <1>3, <2>1
<1>11. CASE PollCleared
  <2>1. /\ UNCHANGED <<ledger, bot>> /\ pc = "poll" /\ pc' # "poll"
        /\ order.tkr \in Ticker /\ fills[order.tkr] = 0 /\ order.filled \in Nat
        /\ fills' = IF order.filled > 0
                    THEN [fills EXCEPT ![order.tkr] = UnderWay(order.tkr)]
                    ELSE fills
    BY <1>1, <1>11 DEF PollCleared, Return, FillsAfter, Unwatch, FillsInv, Watching,
       UnderWay, Orders
  <2>2. order.filled = 0 => UnderWay(order.tkr) = 0
    <3>1. UnderWay(order.tkr) \in {0, order.filled, - order.filled}
      BY <2>1, Zenon DEF UnderWay
    <3>2. QED
      BY <3>1
  <2>3. UnderWay(order.tkr) \in Int
    BY <2>1, BookTypes
  <2>4. ASSUME NEW t \in Ticker PROVE Expected(t)' = Expected(t)
    <3>1. UnderWay(t)' = 0 /\ Owned(ledger, t)' = Owned(ledger, t)
      BY <2>1 DEF UnderWay, Owned
    <3>2. CASE t = order.tkr
      <4>1. fills'[t] = UnderWay(t) /\ fills[t] = 0
        BY <1>1, <2>1, <2>2, <3>2
      <4>2. QED
        BY <3>1, <4>1, BookTypes DEF Expected
    <3>3. CASE t # order.tkr
      <4>1. fills'[t] = fills[t] /\ UnderWay(t) = 0
        BY <1>1, <2>1, <3>3 DEF UnderWay
      <4>2. QED
        BY <3>1, <4>1 DEF Expected
    <3>4. QED
      BY <3>2, <3>3
  <2>5. QED
    BY <2>1, <2>4
<1>12. CASE Broker
  <2>1. UNCHANGED <<ledger, fills, pc>>
    BY <1>12 DEF Broker, fileVars, planVars
  <2>2. CASE CancelOrder
    <3>1. order' = [order EXCEPT !.state = "closed"] /\ bot' = bot /\ order # NoOrder
      BY <2>2 DEF CancelOrder
    <3>2. /\ order'.tkr = order.tkr /\ order'.qty = order.qty
          /\ order'.filled = order.filled
      BY <1>1, <3>1 DEF OrderInv, Orders
    <3>3. QED
      BY <2>1, <3>1, <3>2 DEF Expected, UnderWay, Owned
  <2>3. CASE Settle \/ \E t \in Ticker : OwnerTrade(t)
    BY <1>3, <2>1, <2>3 DEF Settle, OwnerTrade
  <2>4. QED
    BY <1>12, <2>1, <2>2, <2>3, TimelyBroker
<1>13. CASE UNCHANGED vars
  BY <1>3, <1>13 DEF vars, brokerVars, accountVars, fileVars, planVars
<1>14. QED
  BY <1>4, <1>5, <1>6, <1>7, <1>8, <1>9, <1>10, <1>11, <1>12, <1>13, TimelySteps
  DEF Next, Execute, CarryOut

\* A fill changes the account and what the ledger will say by the same amount.
LEMMA FillBooks ==
  ASSUME IInv, FillOrder, UNCHANGED <<ledger, fills, pc>>
  PROVE  \E k \in Int :
           /\ OnBrokerGrid(k)
           /\ k < 0 => IsSeeded(ledger)
           /\ pc = "poll" /\ order.qty # 0
           /\ IF order.qty > 0 THEN k \in 1 .. order.want - order.filled
              ELSE - k \in 1 .. order.want - order.filled
           /\ \A t \in Ticker :
                IF t = order.tkr
                THEN bot'[t] = bot[t] + k /\ Expected(t)' = Expected(t) + k
                ELSE bot'[t] = bot[t] /\ Expected(t)' = Expected(t)
<1>1. /\ BrokerTypeOK /\ OrderInv /\ Watching /\ order \in Orders /\ order # NoOrder
      /\ bot \in [Ticker -> Int]
  BY DEF IInv, TypeOK, BrokerTypeOK, FillOrder, OrderInv
<1>2. /\ order.tkr \in Ticker /\ order.qty \in Int /\ order.qty # 0
      /\ order.want \in Nat /\ order.filled \in Nat /\ order.filled <= order.want
      /\ pc = "submit" => order.want = 0
  BY <1>1 DEF OrderInv, Orders
<1>3. PICK n \in Pieces(order.want - order.filled) :
        /\ order' = [order EXCEPT !.filled = @ + n,
                                  !.state = IF order.filled + n < order.want
                                             THEN "open" ELSE "closed"]
        /\ IF order.qty > 0
           THEN /\ bot' = [bot EXCEPT ![order.tkr] = @ + n]
                /\ UNCHANGED unsettled
           ELSE /\ bot' = [bot EXCEPT ![order.tkr] = @ - n]
                /\ unsettled' = unsettled + n
  BY DEF FillOrder
<1>4. n \in Nat \ {0} /\ n <= order.want - order.filled /\ OnBrokerGrid(n)
  BY <1>2 DEF Pieces, OnBrokerGrid
<1>5. /\ order'.tkr = order.tkr /\ order'.qty = order.qty
      /\ order'.filled = order.filled + n
  BY <1>1, <1>3 DEF Orders
<1>6. pc = "poll" /\ pc' = "poll"
  BY <1>1, <1>2, <1>4 DEF Watching
<1> DEFINE k == IF order.qty > 0 THEN n ELSE - n
<1>7. k \in Int /\ OnBrokerGrid(k)
  BY <1>4, GridNegative
<1>8. IF order.qty > 0 THEN k \in 1 .. order.want - order.filled
       ELSE - k \in 1 .. order.want - order.filled
  BY <1>2, <1>4
<1>9. k < 0 => IsSeeded(ledger)
  <2>1. k < 0 => order.qty < 0
    BY <1>2, <1>4
  <2>2. QED
    BY <1>1, <2>1 DEF IInv, SellWithinLedger
<1>10. bot' = [bot EXCEPT ![order.tkr] = @ + k]
  <2>1. bot[order.tkr] \in Int /\ bot[order.tkr] - n = bot[order.tkr] + (- n)
    BY <1>1, <1>2, <1>4
  <2>2. QED
    BY <1>3, <2>1
<1>11. UnderWay(order.tkr)' = UnderWay(order.tkr) + k
  <2>1. CASE order.qty > 0
    <3>1. UnderWay(order.tkr)' = order'.filled /\ UnderWay(order.tkr) = order.filled /\ k = n
      BY <1>2, <1>5, <1>6, <2>1 DEF UnderWay
    <3>2. QED
      BY <1>5, <3>1
  <2>2. CASE order.qty < 0
    <3>1. /\ UnderWay(order.tkr)' = - order'.filled /\ UnderWay(order.tkr) = - order.filled
          /\ k = - n
      BY <1>2, <1>5, <1>6, <2>2 DEF UnderWay
    <3>2. QED
      BY <1>2, <1>4, <1>5, <3>1
  <2>3. QED
    BY <1>2, <2>1, <2>2
<1> HIDE DEF k
<1>12. ASSUME NEW t \in Ticker
       PROVE  IF t = order.tkr
              THEN bot'[t] = bot[t] + k /\ Expected(t)' = Expected(t) + k
              ELSE bot'[t] = bot[t] /\ Expected(t)' = Expected(t)
  <2>1. Owned(ledger, t)' = Owned(ledger, t) /\ fills'[t] = fills[t]
    BY DEF Owned
  <2>2. CASE t = order.tkr
    <3>1. bot'[t] = bot[t] + k
      BY <1>1, <1>10, <2>2
    <3>2. UnderWay(t)' = UnderWay(t) + k
      BY <1>11, <1>5, <2>2 DEF UnderWay
    <3>3. /\ Expected(t) = Owned(ledger, t) + fills[t] + UnderWay(t)
          /\ Expected(t)' = Owned(ledger, t) + fills[t] + (UnderWay(t) + k)
      BY <2>1, <3>2 DEF Expected
    <3>4. Expected(t)' = Expected(t) + k
      BY <1>7, <3>3, BookTypes
    <3>5. QED
      BY <2>2, <3>1, <3>4
  <2>3. CASE t # order.tkr
    <3>1. UnderWay(t)' = UnderWay(t)
      BY <1>5, <1>6, <2>3 DEF UnderWay
    <3>2. QED
      BY <1>1, <1>10, <2>1, <2>3, <3>1 DEF Expected
  <2>4. QED
    BY <2>2, <2>3
<1>13. QED
  BY <1>2, <1>6, <1>7, <1>9, <1>12, <1>8

\* Confirming a fill records it, drops a buy that the broker does not show or
\* that there is no ledger for, or takes the last of a position.
LEMMA ConfirmBooks ==
  ASSUME IInv, FillsInv, NEW t \in Ticker, ConfirmFill(t)
  PROVE  /\ bot' = bot /\ ledger'.file = ledger.file /\ IsSeeded(ledger)' = IsSeeded(ledger)
         /\ \A s \in Ticker \ {t} :
              Owned(ledger, s)' = Owned(ledger, s) /\ Expected(s)' = Expected(s)
         /\ Expected(t) = Owned(ledger, t) + fills[t]
         /\ Expected(t)' = Owned(ledger, t)'
         /\ \/ Owned(ledger, t)' = Owned(ledger, t) + fills[t]
            \/ /\ Owned(ledger, t)' = Owned(ledger, t) /\ fills[t] > 0
               /\ IsSeeded(ledger) => ~ ShownByBroker(t)
            \/ /\ Owned(ledger, t)' = 0 /\ fills[t] < 0 /\ IsSeeded(ledger)
               /\ Owned(ledger, t) < - fills[t]
<1>1. /\ ledger \in Ledgers /\ fills \in [Ticker -> Int] /\ fills[t] # 0 /\ fills[t] \in Int
      /\ ledger' = LedgerAfter(t, fills[t]) /\ fills' = [fills EXCEPT ![t] = 0]
      /\ bot' = bot /\ pc = "confirm" /\ pc' = "confirm"
  BY DEF IInv, TypeOK, ConfirmFill, brokerVars, accountVars
<1>2. \A s \in Ticker : UnderWay(s) = 0 /\ UnderWay(s)' = 0
  BY <1>1 DEF UnderWay
<1>3. /\ ledger'.file = ledger.file
      /\ \A s \in Ticker \ {t} : Owned(ledger, s)' = Owned(ledger, s)
  BY <1>1 DEF LedgerAfter, RecordSell, RecordBuy, Owned, Ledgers, Shares
<1>4. IsSeeded(ledger)' = IsSeeded(ledger)
  BY <1>3 DEF IsSeeded
<1>5. \A s \in Ticker \ {t} : Expected(s)' = Expected(s)
  BY <1>1, <1>2, <1>3 DEF Expected
<1>6. Expected(t) = Owned(ledger, t) + fills[t] /\ Expected(t)' = Owned(ledger, t)'
  <2>1. LedgerAfter(t, fills[t]) \in Ledgers
    BY <1>1, RecordType
  <2>2. Owned(ledger, t)' \in Nat
    BY <1>1, <2>1 DEF Owned, Ledgers, Shares
  <2>3. fills'[t] = 0
    BY <1>1
  <2>4. QED
    BY <1>2, <2>2, <2>3, BookTypes DEF Expected
<1>7. \/ Owned(ledger, t)' = Owned(ledger, t) + fills[t]
      \/ /\ Owned(ledger, t)' = Owned(ledger, t) /\ fills[t] > 0
         /\ IsSeeded(ledger) => ~ ShownByBroker(t)
      \/ /\ Owned(ledger, t)' = 0 /\ fills[t] < 0 /\ IsSeeded(ledger)
         /\ Owned(ledger, t) < - fills[t]
  <2>1. CASE fills[t] < 0
    <3>1. IsSeeded(ledger)
      BY <2>1 DEF FillsInv
    <3>2. ledger' = RecordSell(ledger, t, - fills[t])
      BY <1>1, <2>1, <3>1 DEF LedgerAfter
    <3>3. Owned(ledger, t)' = IF - fills[t] <= Owned(ledger, t)
                              THEN Owned(ledger, t) - (- fills[t]) ELSE 0
      BY <1>1, <3>2 DEF RecordSell, Owned, Ledgers, Shares
    <3>4. QED
      BY <1>1, <2>1, <3>1, <3>3, BookTypes
  <2>2. CASE fills[t] > 0
    <3>1. CASE IsSeeded(ledger) /\ ShownByBroker(t)
      <4>1. ledger' = RecordBuy(ledger, t, fills[t])
        BY <1>1, <2>2, <3>1 DEF LedgerAfter
      <4>2. QED
        BY <1>1, <4>1 DEF RecordBuy, Owned, Ledgers, Shares
    <3>2. CASE ~ (IsSeeded(ledger) /\ ShownByBroker(t))
      <4>1. ledger' = ledger
        BY <1>1, <2>2, <3>2 DEF LedgerAfter
      <4>2. QED
        BY <2>2, <3>2, <4>1 DEF Owned
    <3>3. QED
      BY <3>1, <3>2
  <2>3. QED
    BY <1>1, <2>1, <2>2
<1>8. QED
  BY <1>1, <1>3, <1>4, <1>5, <1>6, <1>7

\* The sale of a position's last shares: it takes at most what half a grain of
\* rounding adds, and nothing more when the record is on the grid.
LEMMA SaleFitsRecord ==
  ASSUME NEW n \in Int, NEW o \in Nat, n < 0, OnBrokerGrid(n), 2 * (- n - o) <= Grain,
         OnBrokerGrid(o)
  PROVE  - n <= o
<1>1. Grain \in Nat \ {0}
  BY ConstantsFact DEF ConstantsOK
<1>2. - n \in Int /\ OnBrokerGrid(- n)
  BY GridNegative
<1>3. - n < o + Grain
  BY <1>1
<1>4. QED
  BY <1>2, <1>3, GridGap

\* A step keeps what the ledger expects at or below what truleo has.
LEMMA BooksStep ==
  ASSUME Timely, IInv, TimelyInv, [Next]_vars
  PROVE  BooksInv'
<1>1. OneOrderInv /\ NothingRests /\ FillsInv /\ GridInv /\ BooksInv
  BY DEF TimelyInv
<1>2. Grain \in Nat \ {0}
  BY ConstantsFact DEF ConstantsOK
<1>3. CASE UNCHANGED <<ledger, bot>> /\ \A t \in Ticker : Expected(t)' = Expected(t)
  BY <1>1, <1>3 DEF BooksInv, IsSeeded, Owned
<1>4. CASE SeedLedger
  <2>1. /\ pc = "idle" /\ pc' = "idle" /\ ~ IsSeeded(ledger) /\ fills' = fills
        /\ ledger' = [file |-> "seeded", owned |-> Held]
        /\ foreign \in Shares /\ fills = NoDelta
    BY <1>1, <1>4 DEF SeedLedger, Seed, IInv, TypeOK, BrokerTypeOK, FillsInv, planVars
  <2>2. /\ ledger.file = "absent" /\ \A t \in Ticker : bot[t] \in Int /\ bot[t] >= 0
    BY <1>1, <2>1, BookTypes DEF BooksInv, IInv, TypeOK, Ledgers, IsSeeded
  <2>3. \A t \in Ticker : foreign[t] + bot[t] >= 0
    BY <2>1, <2>2 DEF Shares
  <2>4. bot' = Held
    BY <1>4, <2>2, <2>3 DEF SeedLedger
  <2>5. ASSUME NEW t \in Ticker PROVE Expected(t)' = bot'[t] /\ bot'[t] \in Nat
    <3>1. Held[t] \in Nat
      BY <2>1, <2>2 DEF Held, Shares
    <3>2. UnderWay(t)' = 0 /\ fills'[t] = 0 /\ Owned(ledger, t)' = Held[t]
      BY <2>1 DEF UnderWay, NoDelta, Owned
    <3>3. QED
      BY <2>4, <3>1, <3>2 DEF Expected
  <2>6. ledger'.file = "seeded" /\ IsSeeded(ledger)'
    BY <2>1 DEF IsSeeded
  <2>7. QED
    BY <1>2, <2>5, <2>6 DEF BooksInv
<1>5. CASE FillOrder /\ UNCHANGED <<ledger, fills, pc>>
  <2>1. PICK k \in Int :
           /\ OnBrokerGrid(k)
           /\ k < 0 => IsSeeded(ledger)
           /\ \A t \in Ticker :
                IF t = order.tkr
                THEN bot'[t] = bot[t] + k /\ Expected(t)' = Expected(t) + k
                ELSE bot'[t] = bot[t] /\ Expected(t)' = Expected(t)
    BY <1>5, FillBooks
  <2>2. ledger' = ledger
    BY <1>5
  <2>3. ASSUME NEW t \in Ticker
        PROVE  /\ ~ IsSeeded(ledger) => bot'[t] >= 0
               /\ 2 * (Expected(t)' - bot'[t]) <= Grain
               /\ OnBrokerGrid(Owned(ledger, t)) \/ Expected(t)' <= bot'[t]
    <3>1. /\ bot[t] \in Int /\ Expected(t) \in Int
          /\ ~ IsSeeded(ledger) => bot[t] >= 0
          /\ 2 * (Expected(t) - bot[t]) <= Grain
          /\ OnBrokerGrid(Owned(ledger, t)) \/ Expected(t) <= bot[t]
      BY <1>1, BookTypes DEF BooksInv
    <3>2. CASE t = order.tkr
      BY <1>2, <2>1, <3>1, <3>2
    <3>3. CASE t # order.tkr
      BY <2>1, <3>1, <3>3
    <3>4. QED
      BY <3>2, <3>3
  <2>4. QED
    BY <1>1, <2>2, <2>3 DEF BooksInv, IsSeeded, Owned
<1>6. ASSUME NEW t \in Ticker, ConfirmFill(t) PROVE BooksInv'
  <2>1. /\ bot' = bot /\ ledger'.file = ledger.file /\ IsSeeded(ledger)' = IsSeeded(ledger)
        /\ \A s \in Ticker \ {t} :
             Owned(ledger, s)' = Owned(ledger, s) /\ Expected(s)' = Expected(s)
        /\ Expected(t) = Owned(ledger, t) + fills[t]
        /\ Expected(t)' = Owned(ledger, t)'
        /\ \/ Owned(ledger, t)' = Owned(ledger, t) + fills[t]
           \/ /\ Owned(ledger, t)' = Owned(ledger, t) /\ fills[t] > 0
              /\ IsSeeded(ledger) => ~ ShownByBroker(t)
           \/ /\ Owned(ledger, t)' = 0 /\ fills[t] < 0 /\ IsSeeded(ledger)
              /\ Owned(ledger, t) < - fills[t]
    BY <1>1, <1>6, ConfirmBooks
  <2>2. /\ Owned(ledger, t) \in Nat /\ fills[t] \in Int /\ bot[t] \in Int
        /\ OnBrokerGrid(fills[t])
        /\ 2 * (Expected(t) - bot[t]) <= Grain
        /\ OnBrokerGrid(Owned(ledger, t)) \/ Expected(t) <= bot[t]
        /\ fills[t] < 0 => 2 * (- fills[t] - Owned(ledger, t)) <= Grain
    BY <1>1, BookTypes DEF BooksInv, GridInv, FillsInv
  <2>3. /\ 2 * (Expected(t)' - bot[t]) <= Grain
        /\ OnBrokerGrid(Owned(ledger, t)') \/ Expected(t)' <= bot[t]
    <3>1. CASE Owned(ledger, t)' = Owned(ledger, t) + fills[t]
      <4>1. Expected(t)' = Expected(t)
        BY <2>1, <3>1
      <4>2. OnBrokerGrid(Owned(ledger, t)) => OnBrokerGrid(Owned(ledger, t) + fills[t])
        <5>1. Owned(ledger, t) \in Int
          BY <2>2
        <5>2. QED
          BY <2>2, <5>1, GridSum, Zenon
      <4>3. OnBrokerGrid(Owned(ledger, t)) => OnBrokerGrid(Owned(ledger, t)')
        BY <3>1, <4>2 DEF OnBrokerGrid
      <4>4. QED
        BY <2>2, <4>1, <4>3, Zenon
    <3>2. CASE Owned(ledger, t)' = Owned(ledger, t) /\ fills[t] > 0
      BY <1>2, <2>1, <2>2, <3>2
    <3>3. CASE /\ Owned(ledger, t)' = 0 /\ fills[t] < 0
               /\ Owned(ledger, t) < - fills[t]
      <4>1. ~ OnBrokerGrid(Owned(ledger, t))
        BY <2>2, <3>3, SaleFitsRecord
      <4>2. Expected(t) <= bot[t]
        BY <2>2, <4>1
      <4>3. 2 * (0 - bot[t]) <= Grain
        BY <1>2, <2>1, <2>2, <3>3, <4>2
      <4>4. QED
        BY <2>1, <3>3, <4>3, GridZero
    <3>4. QED
      BY <2>1, <3>1, <3>2, <3>3
  <2>4. QED
    BY <1>1, <2>1, <2>3 DEF BooksInv
<1>7. QED
  BY <1>1, <1>3, <1>4, <1>5, <1>6, BookSteps

\* The first state satisfies the invariants.
LEMMA TimelyInit == Init => TimelyInv
<1> SUFFICES ASSUME Init PROVE TimelyInv
  OBVIOUS
<1>1. IInv /\ Grain \in Nat \ {0} /\ MaxTarget \in Nat
  BY InitInv, ConstantsFact DEF ConstantsOK
<1>2. OneOrderInv /\ NothingRests /\ FillsInv
  BY DEF Init, OneOrderInv, NothingRests, FillsInv, Watching, NoDelta
<1>3. GridInv
  BY GridZero DEF Init, GridInv, Watching, NoDelta
<1>4. ASSUME NEW t \in Ticker PROVE Expected(t) = Owned(ledger, t)
  BY BookTypes, <1>1 DEF Init, Expected, UnderWay, NoDelta
<1>5. ASSUME NEW t \in Ticker PROVE Owned(ledger, t) = bot[t] /\ bot[t] \in Nat
  BY DEF Init, Owned, Absent, NoShares, OnGrid
<1>6. ledger.file # "torn"
  BY DEF Init, Absent
<1>7. BooksInv
  BY <1>1, <1>4, <1>5, <1>6 DEF BooksInv
<1>8. QED
  BY <1>2, <1>3, <1>7 DEF TimelyInv

\* The invariants of a timely account hold in every reachable state.
THEOREM TimelyInvariant == Timely => (Spec => [](IInv /\ TimelyInv))
<1> SUFFICES ASSUME Timely PROVE Spec => [](IInv /\ TimelyInv)
  OBVIOUS
<1>1. IInv /\ TimelyInv /\ [Next]_vars => TimelyInv'
  <2> SUFFICES ASSUME IInv, TimelyInv, [Next]_vars PROVE TimelyInv'
    OBVIOUS
  <2>1. OneOrderInv /\ NothingRests /\ FillsInv /\ GridInv
    BY DEF TimelyInv
  <2>2. OneOrderInv' /\ NothingRests' /\ FillsInv' /\ GridInv'
    BY <2>1, OneOrderStep, NothingRestsStep, FillsStep, GridStep
  <2>3. BooksInv'
    BY BooksStep
  <2>4. QED
    BY <2>2, <2>3 DEF TimelyInv
<1>2. QED
  BY <1>1, TimelyInit, InductiveInvariant, PTL DEF Spec

\* What is recorded, and what is still to be recorded, cannot add up to more
\* than half a grain of somebody else's shares.
LEMMA NoForeignSale == IInv /\ TimelyInv => NeverSellsForeign
<1> SUFFICES ASSUME IInv, TimelyInv, NEW t \in Ticker PROVE 2 * bot[t] >= - Grain
  BY DEF NeverSellsForeign
<1> DEFINE sale == fills[t] + UnderWay(t)
<1>1. /\ Owned(ledger, t) \in Nat /\ fills[t] \in Int /\ bot[t] \in Int
      /\ UnderWay(t) \in Int /\ Grain \in Nat \ {0} /\ sale \in Int
  BY BookTypes, ConstantsFact DEF ConstantsOK
<1>2. /\ ~ IsSeeded(ledger) => bot[t] >= 0
      /\ 2 * (Expected(t) - bot[t]) <= Grain
      /\ OnBrokerGrid(Owned(ledger, t)) \/ Expected(t) <= bot[t]
  BY DEF TimelyInv, BooksInv
<1>3. Expected(t) = Owned(ledger, t) + sale
  BY <1>1 DEF Expected
<1>4. sale < 0 => OnBrokerGrid(sale) /\ 2 * (- sale - Owned(ledger, t)) <= Grain
  <2>1. CASE UnderWay(t) = 0
    <3>1. sale = fills[t]
      BY <1>1, <2>1
    <3>2. QED
      BY <3>1 DEF TimelyInv, FillsInv, GridInv
  <2>2. CASE UnderWay(t) # 0
    <3>1. pc = "poll" /\ order.tkr = t
      BY <2>2 DEF UnderWay
    <3>2. /\ fills[t] = 0 /\ order \in Orders
          /\ order.filled <= order.want /\ OnBrokerGrid(order.filled)
      BY <3>1, Zenon DEF TimelyInv, FillsInv, GridInv, IInv, OrderInv, Watching
    <3>3. /\ order.qty \in Int /\ order.want \in Nat /\ order.filled \in Nat
          /\ order # NoOrder
      BY <3>2 DEF Orders, NoOrder
    <3>4. sale = UnderWay(t)
      BY <1>1, <3>2
    <3>5. UnderWay(t) < 0 => order.qty < 0 /\ UnderWay(t) = - order.filled
      BY <3>1, <3>3 DEF UnderWay
    <3>6. order.qty < 0 => 2 * (order.want - Owned(ledger, t)) <= Grain
      BY <3>1, <3>3 DEF IInv, SellWithinLedger
    <3>7. OnBrokerGrid(- order.filled)
      BY <3>2, <3>3, GridNegative
    <3> HIDE DEF sale
    <3>8. QED
      BY <1>1, <3>2, <3>3, <3>4, <3>5, <3>6, <3>7
  <2>3. QED
    BY <2>1, <2>2
<1> HIDE DEF sale
<1>5. sale < 0 /\ OnBrokerGrid(Owned(ledger, t)) => - sale <= Owned(ledger, t)
  BY <1>1, <1>4, SaleFitsRecord
<1>6. QED
  BY <1>1, <1>2, <1>3, <1>4, <1>5

\* truleo's own orders never sell more than they bought, but for half a grain
\* when the broker rounds up the sale of a position's last shares: the sell
\* gate of PASS 1 and the confirm phase keep the ledger from claiming more.
THEOREM ForeignSharesUntouched == Timely => (Spec => []NeverSellsForeign)
<1> SUFFICES ASSUME Timely PROVE Spec => []NeverSellsForeign
  OBVIOUS
<1>1. QED
  BY NoForeignSale, TimelyInvariant, PTL

\* Where positions are multiples of the grain, a position one might find is one.
LEMMA ForeignOnGrid ==
  ASSUME Exact, NEW n \in 0 .. MaxForeign
  PROVE  OnBrokerGrid(n)
<1>1. MaxForeign \in Nat
  BY ConstantsFact DEF ConstantsOK
<1>2. CASE Grain = 1
  BY <1>1, <1>2, Division DEF OnBrokerGrid
<1>3. CASE MaxForeign = 0
  BY <1>1, <1>3, GridZero
<1>4. QED
  BY <1>2, <1>3 DEF Exact

\* What a step does to the shares that are not truleo's.
LEMMA ForeignSteps ==
  ASSUME Timely, IInv, NothingRests, [Next]_vars
  PROVE  foreign' = foreign \/ SeedLedger \/ \E t \in Ticker : OwnerTrade(t)
<1>1. CASE Broker
  BY <1>1, TimelyBroker, Zenon DEF FillOrder, CancelOrder, Settle
<1>2. CASE UNCHANGED vars
  BY <1>2 DEF vars, brokerVars, accountVars
<1>3. CASE \/ QuietCycle \/ StartCycle \/ EndProcess \/ QuoteRaises \/ SetKill \/ ClearKill
  BY <1>3 DEF QuietCycle, StartCycle, EndProcess, QuoteRaises, SetKill, ClearKill,
     brokerVars, accountVars
<1>4. ASSUME NEW t \in Ticker,
             \/ BuildIntent(t) \/ PlaceSell(t) \/ PlaceBuy(t) \/ SkipBuy(t)
             \/ ConfirmFill(t)
      PROVE  foreign' = foreign
  BY <1>4 DEF BuildIntent, BuildIntentTo, PlaceSell, PlaceBuy, Prepare, SkipBuy,
     ConfirmFill, brokerVars, accountVars
<1>5. CASE \/ EndBuild \/ EndSells \/ ReadBuyingPower \/ EndBuys \/ SaveKeys \/ Reread
           \/ EndCycle
  BY <1>5 DEF EndBuild, EndSells, ReadBuyingPower, EndBuys, SaveKeys, Reread, EndCycle,
     brokerVars, accountVars
<1>6. CASE Refused \/ Accepted \/ PollStillOpen \/ PollCleared
  BY <1>6, TimelySteps, Zenon DEF Refused, Accepted, Accept, PollCleared, Unwatch,
     brokerVars, accountVars
<1>7. QED
  BY <1>1, <1>2, <1>3, <1>4, <1>5, <1>6, TimelySteps DEF Next, Execute, CarryOut

\* What a step does to the confirmation of the fills.
LEMMA ConfirmSteps ==
  ASSUME Timely, IInv, [Next]_vars, pc' = "confirm"
  PROVE  \/ UNCHANGED <<pc, fills, posCache>>
         \/ Reread /\ UNCHANGED fills
         \/ \E t \in Ticker : ConfirmFill(t)
<1>1. CASE Broker \/ UNCHANGED vars \/ SetKill \/ ClearKill
  BY <1>1 DEF Broker, SetKill, ClearKill, vars, planVars
<1>2. CASE SeedLedger \/ QuietCycle \/ StartCycle \/ EndProcess \/ QuoteRaises
  BY <1>2 DEF SeedLedger, QuietCycle, StartCycle, EndProcess, QuoteRaises, Forget
<1>3. ASSUME NEW t \in Ticker, BuildIntent(t) \/ PlaceSell(t) \/ PlaceBuy(t) \/ SkipBuy(t)
      PROVE  FALSE
  BY <1>3 DEF BuildIntent, BuildIntentTo, PlaceSell, PlaceBuy, Prepare, SkipBuy
<1>4. CASE \/ EndBuild \/ EndSells \/ ReadBuyingPower \/ EndBuys \/ SaveKeys \/ EndCycle
  BY <1>4 DEF EndBuild, EndSells, ReadBuyingPower, EndBuys, SaveKeys, EndCycle, Forget
<1>5. CASE Reread
  BY <1>5 DEF Reread, planVars
<1>6. CASE Refused \/ Accepted \/ PollStillOpen \/ PollCleared
  <2>1. ~ (Refused \/ PollCleared)
    BY DEF Refused, PollCleared, Return
  <2>2. QED
    BY <1>6, <2>1, TimelySteps DEF Accepted, PollStillOpen
<1>7. QED
  BY <1>1, <1>2, <1>3, <1>4, <1>5, <1>6, TimelySteps DEF Next, Execute, CarryOut

\* When the positions are on the grid, what the ledger expects of a buy is in
\* the account by the time the positions are read again.
LEMMA BuysAreShown ==
  ASSUME IInv, TimelyInv, ExactInv, NEW t \in Ticker, pc # "poll", fills[t] > 0
  PROVE  Held[t] > 0
<1>1. /\ Owned(ledger, t) \in Nat /\ fills[t] \in Int /\ bot[t] \in Int
      /\ Grain \in Nat \ {0}
  BY BookTypes, ConstantsFact DEF ConstantsOK
<1>2. UnderWay(t) = 0
  BY DEF UnderWay
<1>3. Expected(t) = Owned(ledger, t) + fills[t]
  BY <1>1, <1>2 DEF Expected
<1>4. OnBrokerGrid(fills[t]) /\ OnBrokerGrid(bot[t]) /\ 2 * (Expected(t) - bot[t]) <= Grain
  BY DEF TimelyInv, GridInv, BooksInv, ExactInv
<1>5. fills[t] < bot[t] + Grain
  BY <1>1, <1>3, <1>4
<1>6. fills[t] <= bot[t]
  BY <1>1, <1>4, <1>5, GridGap
<1>7. foreign[t] \in Nat
  BY DEF IInv, TypeOK, BrokerTypeOK, Shares
<1>8. QED
  BY <1>1, <1>6, <1>7 DEF Held

\* A step keeps the books exact.
LEMMA ExactStep ==
  ASSUME Exact, IInv, TimelyInv, ExactInv, [Next]_vars
  PROVE  ExactInv'
<1>1. /\ Timely /\ OneOrderInv /\ NothingRests /\ FillsInv /\ GridInv /\ BooksInv
      /\ Grain \in Nat \ {0}
  BY ConstantsFact DEF TimelyInv, Exact, ConstantsOK
<1>2. /\ foreign \in [Ticker -> Nat] /\ bot \in [Ticker -> Int]
      /\ \A t \in Ticker : OnBrokerGrid(foreign[t]) /\ OnBrokerGrid(bot[t])
  BY DEF IInv, TypeOK, BrokerTypeOK, Shares, ExactInv
<1>3. ASSUME NEW t \in Ticker PROVE OnBrokerGrid(Held[t])
  <2>1. foreign[t] \in Int /\ bot[t] \in Int
    BY <1>2
  <2>2. OnBrokerGrid(foreign[t] + bot[t])
    BY <1>2, <2>1, GridSum, Zenon
  <2>3. QED
    BY <2>2, GridZero DEF Held
<1>4. ASSUME NEW t \in Ticker PROVE OnBrokerGrid(foreign[t])'
  <2>1. CASE foreign' = foreign
    BY <1>2, <2>1 DEF OnBrokerGrid
  <2>2. CASE SeedLedger
    <3>1. foreign'[t] = foreign[t] \/ foreign'[t] = 0
      BY <2>2 DEF SeedLedger, NoShares
    <3>2. QED
      BY <1>2, <3>1, GridZero DEF OnBrokerGrid
  <2>3. ASSUME NEW s \in Ticker, OwnerTrade(s) PROVE OnBrokerGrid(foreign[t])'
    <3>1. PICK n \in 0 .. MaxForeign : foreign' = [foreign EXCEPT ![s] = n]
      BY <2>3 DEF OwnerTrade
    <3>2. foreign'[t] = foreign[t] \/ foreign'[t] = n
      BY <1>2, <3>1
    <3>3. OnBrokerGrid(n)
      BY ForeignOnGrid
    <3>4. QED
      BY <1>2, <3>2, <3>3 DEF OnBrokerGrid
  <2>4. QED
    BY <1>1, <2>1, <2>2, <2>3, ForeignSteps
<1>5. ASSUME NEW t \in Ticker, fills[t] > 0, pc = "confirm" PROVE ShownByBroker(t)
  BY <1>5 DEF ExactInv
<1>6. ASSUME NEW t \in Ticker
      PROVE  /\ OnBrokerGrid(bot[t])'
             /\ IsSeeded(ledger)' =>
                  OnBrokerGrid(Owned(ledger, t))' /\ Expected(t)' = bot'[t]
  <2>1. /\ Owned(ledger, t) \in Int /\ fills[t] \in Int /\ bot[t] \in Int
        /\ Expected(t) \in Int /\ OnBrokerGrid(bot[t]) /\ OnBrokerGrid(fills[t])
        /\ IsSeeded(ledger) => OnBrokerGrid(Owned(ledger, t)) /\ Expected(t) = bot[t]
    BY <1>1, BookTypes DEF ExactInv, GridInv
  <2>2. CASE UNCHANGED <<ledger, bot>> /\ \A s \in Ticker : Expected(s)' = Expected(s)
    BY <2>1, <2>2 DEF IsSeeded, Owned, OnBrokerGrid
  <2>3. CASE SeedLedger
    <3>1. /\ pc' = "idle" /\ ~ IsSeeded(ledger) /\ fills' = NoDelta
          /\ ledger' = [file |-> "seeded", owned |-> Held]
      BY <1>1, <2>3 DEF SeedLedger, Seed, FillsInv, planVars
    <3>2. /\ ledger.file = "absent" /\ \A s \in Ticker : bot[s] >= 0
      BY <1>1, <3>1 DEF BooksInv, IInv, TypeOK, Ledgers, IsSeeded
    <3>3. \A s \in Ticker : foreign[s] + bot[s] >= 0
      BY <1>2, <3>2
    <3>4. bot' = Held
      BY <2>3, <3>2, <3>3 DEF SeedLedger
    <3>5. Held[t] \in Nat
      BY <1>2 DEF Held
    <3>6. UnderWay(t)' = 0 /\ fills'[t] = 0 /\ Owned(ledger, t)' = Held[t]
      BY <3>1 DEF UnderWay, NoDelta, Owned
    <3>7. Expected(t)' = Held[t]
      BY <3>5, <3>6 DEF Expected
    <3>8. QED
      BY <1>3, <3>4, <3>6, <3>7 DEF OnBrokerGrid
  <2>4. CASE FillOrder /\ UNCHANGED <<ledger, fills, pc>>
    <3>1. PICK k \in Int :
             /\ OnBrokerGrid(k)
             /\ k < 0 => IsSeeded(ledger)
             /\ \A s \in Ticker :
                  IF s = order.tkr
                  THEN bot'[s] = bot[s] + k /\ Expected(s)' = Expected(s) + k
                  ELSE bot'[s] = bot[s] /\ Expected(s)' = Expected(s)
      BY <2>4, FillBooks
    <3>2. OnBrokerGrid(bot[t] + k)
      BY <2>1, <3>1, GridSum, Zenon
    <3>3. OnBrokerGrid(bot[t])'
      BY <2>1, <3>1, <3>2 DEF OnBrokerGrid
    <3>4. Expected(t) = bot[t] => Expected(t)' = bot'[t]
      BY <3>1
    <3>5. IsSeeded(ledger)' = IsSeeded(ledger) /\ Owned(ledger, t)' = Owned(ledger, t)
      BY <2>4 DEF IsSeeded, Owned
    <3>6. QED
      BY <2>1, <3>3, <3>4, <3>5 DEF OnBrokerGrid
  <2>5. ASSUME NEW s \in Ticker, ConfirmFill(s)
        PROVE  /\ OnBrokerGrid(bot[t])'
               /\ IsSeeded(ledger)' =>
                    OnBrokerGrid(Owned(ledger, t))' /\ Expected(t)' = bot'[t]
    <3>1. /\ bot' = bot /\ IsSeeded(ledger)' = IsSeeded(ledger)
          /\ \A r \in Ticker \ {s} :
               Owned(ledger, r)' = Owned(ledger, r) /\ Expected(r)' = Expected(r)
          /\ Expected(s) = Owned(ledger, s) + fills[s]
          /\ Expected(s)' = Owned(ledger, s)'
          /\ \/ Owned(ledger, s)' = Owned(ledger, s) + fills[s]
             \/ /\ Owned(ledger, s)' = Owned(ledger, s) /\ fills[s] > 0
                /\ IsSeeded(ledger) => ~ ShownByBroker(s)
             \/ /\ Owned(ledger, s)' = 0 /\ fills[s] < 0 /\ IsSeeded(ledger)
                /\ Owned(ledger, s) < - fills[s]
      BY <1>1, <2>5, ConfirmBooks
    <3>2. OnBrokerGrid(bot[t])'
      BY <2>1, <3>1 DEF OnBrokerGrid
    <3>3. CASE t # s
      BY <2>1, <3>1, <3>2, <3>3 DEF OnBrokerGrid
    <3>4. CASE t = s /\ IsSeeded(ledger)
      <4>1. OnBrokerGrid(Owned(ledger, t))
        BY <2>1, <3>4
      <4>2. ~ (fills[t] < 0 /\ Owned(ledger, t) < - fills[t])
        BY <1>1, <2>1, <4>1, BookTypes, SaleFitsRecord DEF FillsInv
      <4>3. ~ (fills[t] > 0 /\ ~ ShownByBroker(t))
        BY <1>5, <2>5, <3>4 DEF ConfirmFill
      <4>4. Owned(ledger, t)' = Owned(ledger, t) + fills[t]
        BY <3>1, <3>4, <4>2, <4>3
      <4>5. OnBrokerGrid(Owned(ledger, t) + fills[t])
        BY <2>1, <4>1, GridSum, Zenon
      <4>6. Expected(t)' = bot'[t]
        BY <2>1, <3>1, <3>4, <4>4
      <4>7. QED
        BY <3>2, <4>4, <4>5, <4>6 DEF OnBrokerGrid
    <3>5. QED
      BY <3>1, <3>2, <3>3, <3>4
  <2>6. QED
    BY <1>1, <2>2, <2>3, <2>4, <2>5, BookSteps
<1>7. ASSUME NEW t \in Ticker, pc' = "confirm", fills'[t] > 0 PROVE ShownByBroker(t)'
  <2>1. CASE UNCHANGED <<pc, fills, posCache>>
    BY <1>5, <1>7, <2>1 DEF ShownByBroker
  <2>2. CASE Reread /\ UNCHANGED fills
    <3>1. posCache' = Held
      <4>1. ~ Fault("reread")
        BY DEF Exact, Fault
      <4>2. QED
        BY <2>2, <4>1 DEF Reread
    <3>2. Held[t] > 0
      BY <1>7, <2>2, BuysAreShown DEF Reread
    <3>3. Held # NoCache
      <4>1. DOMAIN Held = Ticker /\ DOMAIN NoCache = {}
        BY DEF Held, NoCache
      <4>2. QED
        BY <4>1
    <3>4. QED
      BY <3>1, <3>2, <3>3 DEF ShownByBroker, NoCache
  <2>3. ASSUME NEW s \in Ticker, ConfirmFill(s) PROVE ShownByBroker(t)'
    <3>1. fills' = [fills EXCEPT ![s] = 0] /\ posCache' = posCache /\ pc = "confirm"
      BY <2>3 DEF ConfirmFill
    <3>2. fills[t] > 0
      BY <1>7, <3>1 DEF IInv, TypeOK
    <3>3. QED
      BY <1>5, <3>1, <3>2 DEF ShownByBroker
  <2>4. QED
    BY <1>1, <1>7, <2>1, <2>2, <2>3, ConfirmSteps
<1>8. QED
  BY <1>4, <1>6, <1>7 DEF ExactInv

\* Between cycles the ledger says exactly what truleo's orders have bought: no
\* refusal, partial fill, cancellation, veto, kill switch, crash-free process
\* end or trade of the account's owner makes the two drift apart.
THEOREM LedgerIsExact == Exact => (Spec => []LedgerMatchesHoldings)
<1> SUFFICES ASSUME Exact PROVE Spec => []LedgerMatchesHoldings
  OBVIOUS
<1>1. Timely
  BY DEF Exact
<1>2. Init => ExactInv
  <2> SUFFICES ASSUME Init, NEW t \in Ticker
               PROVE  /\ OnBrokerGrid(foreign[t]) /\ OnBrokerGrid(bot[t])
                      /\ OnBrokerGrid(Owned(ledger, t)) /\ Expected(t) = bot[t]
                      /\ pc # "confirm"
    BY DEF ExactInv
  <2>1. foreign[t] \in 0 .. MaxForeign /\ OnBrokerGrid(bot[t]) /\ bot[t] \in Int
    BY ConstantsFact DEF Init, OnGrid, OnBrokerGrid, ConstantsOK
  <2>2. OnBrokerGrid(foreign[t])
    BY <2>1, ForeignOnGrid
  <2>3. Owned(ledger, t) = bot[t] /\ UnderWay(t) = 0 /\ fills[t] = 0
    BY DEF Init, Owned, Absent, NoShares, UnderWay, NoDelta
  <2>4. Expected(t) = bot[t]
    BY <2>1, <2>3 DEF Expected
  <2>5. QED
    BY <2>1, <2>2, <2>3, <2>4 DEF Init, OnBrokerGrid
<1>3. IInv /\ TimelyInv /\ ExactInv /\ [Next]_vars => ExactInv'
  BY ExactStep
<1>4. IInv /\ TimelyInv /\ ExactInv => LedgerMatchesHoldings
  <2> SUFFICES ASSUME IInv, TimelyInv, ExactInv, pc = "idle", IsSeeded(ledger)
               PROVE  ledger.owned = bot
    BY DEF LedgerMatchesHoldings
  <2>1. ledger.owned \in [Ticker -> Nat] /\ bot \in [Ticker -> Int]
    BY DEF IInv, TypeOK, BrokerTypeOK, Ledgers, Shares
  <2>2. ASSUME NEW t \in Ticker PROVE ledger.owned[t] = bot[t]
    <3>1. UnderWay(t) = 0 /\ fills[t] = 0
      BY DEF UnderWay, TimelyInv, FillsInv, NoDelta
    <3>2. Expected(t) = Owned(ledger, t)
      BY <3>1, BookTypes DEF Expected
    <3>3. QED
      BY <3>2 DEF ExactInv, Owned
  <2>3. QED
    BY <2>1, <2>2
<1>5. QED
  BY <1>1, <1>2, <1>3, <1>4, TimelyInvariant, PTL DEF Spec

-----------------------------------------------------------------------------
(***************************************************************************)
(* The program as it is deployed (DailyMirror) is one of the behaviours of *)
(* Executor, where the filings, the gate and the sizes are left open.  So  *)
(* what is proved of Executor holds of it, whatever 13Fs are published.    *)
(* In an account that nobody else trades in, it keeps the promise of       *)
(* Tracking: its book follows the last 13F it has adopted.                 *)
(***************************************************************************)

\* A cycle starts a plan for one trigger, or stops after its snapshot.
LEMMA RunCycleIsExecutorStep ==
    ASSUME RunCycle
    PROVE  QuietCycle \/ StartCycle
<1>1. PICK f \in {Latest, leop} : CycleWith(f)
    BY DEF RunCycle
<1> QED
    BY <1>1 DEF CycleWith

\* The size of an intent follows from the weights of the plan's filing, and is
\* one of those Executor allows.
LEMMA SizeIsExecutorStep ==
    ASSUME NEW t \in Ticker, Size(t)
    PROVE  BuildIntent(t)
BY DEF Size, BuildIntent

\* Every step of the deployed program is a step of Executor, or changes none
\* of its variables.
LEMMA StepIsExecutorStep ==
    ASSUME [MirrorNext]_mirrorVars
    PROVE  [Next]_vars
<1>1. CASE Publish
    BY <1>1 DEF Publish
<1>2. CASE RunCycle
    BY <1>2, RunCycleIsExecutorStep DEF Next
<1>3. ASSUME NEW t \in Ticker, Size(t)
      PROVE  Next
    BY <1>3, SizeIsExecutorStep DEF Next, Execute
<1>4. CASE RunPlan
    BY <1>4 DEF RunPlan, Next, Execute
<1>5. CASE Around
    BY <1>5 DEF Around, Next
<1>6. CASE UNCHANGED mirrorVars
    BY <1>6 DEF mirrorVars
<1> QED
    BY <1>1, <1>2, <1>3, <1>4, <1>5, <1>6 DEF MirrorNext

-----------------------------------------------------------------------------
\* run_cycle, fed by EDGAR and its cache, drives execute_plan (executor.py) in
\* no way that Executor does not know of.
THEOREM DeployedIsExecutor == MirrorSpec => Spec
<1>1. MirrorInit => Init
    BY DEF MirrorInit
<1>2. [MirrorNext]_mirrorVars => [Next]_vars
    BY StepIsExecutorStep
<1> QED
    BY <1>1, <1>2, PTL DEF MirrorSpec, Spec

\* The deployed program never sells more than its ledger records, whatever 13Fs
\* are published.
THEOREM DeployedSellsStayWithinLedger == MirrorSpec => []SellWithinLedger
BY DeployedIsExecutor, SellsStayWithinLedger, PTL

-----------------------------------------------------------------------------
(***************************************************************************)
(* The invariants behind FollowsFiling.                                    *)
(***************************************************************************)

\* run_live.py's account: nobody else trades in it, every position is a whole
\* number of what the broker trades, and a buy is quoted alike in PASS 1 and
\* when it is sent.
SoleTenant == Timely /\ Faults \cap {"owner", "requote"} = {} /\ Grain = 1

Filed == {NoFiling} \cup {f \in Trigger : weights[f] # NoShares}

\* The filings do not change under the plan that carries one of them out.
FilingInv ==
    /\ weights \in [Trigger -> Goals \cup {NoShares}]
    /\ sec \in Trigger \cap Filed
    /\ leop \in Trigger \cap Filed
    /\ pc # "idle" => trigger = leop

\* The snapshot that PASS 1 compares with is what truleo holds.
SnapshotInv ==
    /\ foreign = NoShares
    /\ pc \in {"idle", "build", "confirm"} => posCache \in {NoCache, Held}

\* Trading n more shares of t, or fewer if n < 0, does not pass its target.
Within(t, n) ==
    LET target == Target(leop, t)
    IN  n # 0 => /\ target \in Nat
                 /\ n > 0 => bot[t] + n <= target
                 /\ n < 0 => target <= bot[t] + n

Unfilled == IF order.qty > 0 THEN order.want - order.filled ELSE order.filled - order.want

TargetInv ==
    /\ \A t \in Ticker : Within(t, ready[t])
    /\ pc = "submit" =>
        Within(order.tkr, order.qty) /\ (order.qty > 0 => order.pay = order.qty)
    /\ pc = "poll" => Within(order.tkr, Unfilled)

MirrorInv == FilingInv /\ SnapshotInv /\ TargetInv

-----------------------------------------------------------------------------
(***************************************************************************)
(* Filings, snapshots and targets, step by step.                           *)
(***************************************************************************)

\* The filings and what they may ask for.
LEMMA FilingFacts ==
    /\ NoFiling \in Trigger /\ NoFiling \in NoneTrigger
    /\ Goals \subseteq [Ticker -> 0 .. MaxTarget] /\ NoShares \notin Goals
BY MirrorAssumption, TriggerAssumption

\* The adopted filing asks for some shares of every name.
LEMMA GoalType ==
    ASSUME FilingInv
    PROVE  /\ weights[leop] \in Goals \cup {NoShares}
           /\ weights[leop] \in [Ticker -> Nat]
<1>1. weights[leop] \in Goals \cup {NoShares}
    BY DEF FilingInv
<1>2. MaxTarget \in Nat
    BY ConstantsFact DEF ConstantsOK
<1> QED
    BY <1>1, <1>2, FilingFacts DEF NoShares

\* A cycle starts between two plans, and adopts a filing without trading.
LEMMA RunCycleFact ==
    ASSUME RunCycle
    PROVE  /\ pc = "idle" /\ pc' \in {"idle", "build"}
           /\ UNCHANGED <<brokerVars, ledger, fills, ready, sec, weights>>
           /\ leop' \in {sec, leop}
           /\ pc' = "build" => trigger' = leop'
           /\ \/ nav' = OwnNav
              \/ \E U \in SUBSET Ticker : nav' = NavWithout(Records, U)
<1>1. PICK f \in {Latest, leop} : CycleWith(f)
    BY DEF RunCycle
<1>2. f \in {sec, leop} /\ leop' = f /\ UNCHANGED <<sec, weights>> /\ pc = "idle"
    BY <1>1 DEF CycleWith, Latest
<1>3. PICK V \in SUBSET Ticker, U \in SUBSET Ticker :
        \/ QuietCycle /\ nav' = OwnNav
        \/ StartCycle /\ trigger' = f /\ nav' = NavWithout(Records, U)
    BY <1>1 DEF CycleWith
<1>4. CASE QuietCycle /\ nav' = OwnNav
    BY <1>2, <1>4 DEF QuietCycle, fileVars, planVars
<1>5. CASE StartCycle /\ trigger' = f /\ nav' = NavWithout(Records, U)
    BY <1>2, <1>5 DEF StartCycle, fileVars
<1> QED
    BY <1>3, <1>4, <1>5

\* Only a new cycle changes the book that is aimed at.
LEMMA GoalSteps ==
    ASSUME FilingInv, [MirrorNext]_mirrorVars
    PROVE  \/ RunCycle
           \/ leop' = leop /\ weights'[leop] = weights[leop] /\ nav' = nav
<1>1. CASE Publish
    BY <1>1 DEF Publish, FilingInv, Filed
<1>2. CASE (\E t \in Ticker : Size(t)) \/ RunPlan \/ Around \/ UNCHANGED mirrorVars
    BY <1>2 DEF Size, RunPlan, Around, mirrorVars, filingVars
<1> QED
    BY <1>1, <1>2 DEF MirrorNext

\* A plan carries out the filing that was adopted for it.
LEMMA FilingStep ==
    ASSUME FilingInv, [MirrorNext]_mirrorVars
    PROVE  FilingInv'
<1> USE DEF FilingInv, Filed
<1>1. CASE Publish
    <2>1. PICK f \in Trigger \ {NoFiling}, g \in Goals :
            weights[f] = NoShares /\ sec' = f /\ weights' = [weights EXCEPT ![f] = g]
        BY <1>1 DEF Publish
    <2>2. weights' \in [Trigger -> Goals \cup {NoShares}] /\ weights'[f] = g /\ g # NoShares
        BY <2>1, FilingFacts
    <2>3. leop' = leop /\ leop # f /\ weights'[leop] = weights[leop]
        BY <1>1, <2>1 DEF Publish
    <2>4. pc' = pc /\ trigger' = trigger
        BY <1>1 DEF Publish, vars, planVars
    <2> QED
        BY <2>1, <2>2, <2>3, <2>4
<1>2. CASE RunCycle
    BY <1>2, RunCycleFact
<1>3. CASE \/ (\E t \in Ticker : Size(t)) \/ RunPlan \/ Around
           \/ UNCHANGED mirrorVars
    <2>1. UNCHANGED filingVars
        BY <1>3 DEF Size, RunPlan, Around, mirrorVars
    <2>2. pc' = "idle" \/ (pc # "idle" /\ trigger' = trigger)
        <3>1. CASE (\E t \in Ticker : Size(t)) \/ UNCHANGED mirrorVars
            BY <3>1 DEF Size, BuildIntentTo, mirrorVars, vars, planVars
        <3>2. CASE RunPlan
            BY <3>2 DEF RunPlan, CarryOut, EndBuild, EndSells, ReadBuyingPower, EndBuys,
               PlaceSell, PlaceBuy, Prepare, SkipBuy, ConfirmFill, Refused, Accepted,
               ReplyLost, ReplyUnnamed, PollStillOpen, PollCleared, PollBlind, Return, SaveKeys,
               Reread, EndCycle, Forget, planVars
        <3>3. CASE Around
            BY <3>3 DEF Around, SeedLedger, EndProcess, QuoteRaises, Crash, Forget,
               Broker, planVars
        <3> QED
            BY <1>3, <3>1, <3>2, <3>3
    <2> QED
        BY <2>1, <2>2 DEF filingVars
<1> QED
    BY <1>1, <1>2, <1>3 DEF MirrorNext

\* truleo's shares are all the shares there are.
LEMMA HeldIsBot ==
    ASSUME IInv, TimelyInv, foreign = NoShares, Grain = 1, NEW t \in Ticker
    PROVE  bot[t] \in Nat /\ Held[t] = bot[t]
<1>1. bot[t] \in Int /\ 2 * bot[t] >= - Grain
    BY BookTypes, NoForeignSale DEF NeverSellsForeign
<1> QED
    BY <1>1 DEF Held, NoShares

\* The positions change only while an order is watched, or when they are adopted.
LEMMA SnapshotStep ==
    ASSUME SoleTenant, IInv, TimelyInv, SnapshotInv, [Next]_vars
    PROVE  SnapshotInv'
<1>1. Timely /\ NothingRests /\ ~ Fault("owner")
    BY DEF SoleTenant, TimelyInv, Fault
<1>2. foreign' = NoShares
    BY <1>1, ForeignSteps DEF SnapshotInv, SeedLedger, OwnerTrade
<1> DEFINE Cached == pc' \in {"idle", "build", "confirm"} => posCache' \in {NoCache, Held'}
<1> SUFFICES Cached
    BY <1>2 DEF SnapshotInv
<1>3. ASSUME bot' = bot PROVE Held' = Held
    BY <1>2, <1>3 DEF Held, SnapshotInv
<1>4. CASE SeedLedger
    BY <1>4 DEF SeedLedger
<1>5. CASE QuietCycle \/ StartCycle \/ EndProcess
    <2>1. /\ bot' = bot /\ pc = "idle"
          /\ posCache' = NoCache \/ posCache' = (IF posCache = NoCache THEN Held ELSE posCache)
        BY <1>5 DEF QuietCycle, StartCycle, EndProcess, Snapshot, brokerVars, accountVars
    <2> QED
        BY <1>3, <2>1 DEF SnapshotInv
<1>6. CASE \/ SetKill \/ ClearKill \/ UNCHANGED vars
           \/ \E t \in Ticker : BuildIntent(t) \/ ConfirmFill(t)
    <2>1. bot' = bot /\ pc' = pc /\ posCache' = posCache
        BY <1>6 DEF SetKill, ClearKill, BuildIntent, BuildIntentTo, ConfirmFill, vars,
           brokerVars, accountVars
    <2> QED
        BY <1>3, <2>1 DEF SnapshotInv
<1>7. ASSUME NEW t \in Ticker, PlaceSell(t) \/ PlaceBuy(t) \/ SkipBuy(t)
      PROVE  Cached
    BY <1>7 DEF PlaceSell, PlaceBuy, Prepare, SkipBuy
<1>8. CASE EndBuild \/ EndSells \/ ReadBuyingPower \/ EndBuys \/ SaveKeys
    BY <1>8 DEF EndBuild, EndSells, ReadBuyingPower, EndBuys, SaveKeys
<1>9. CASE Refused \/ Accepted \/ PollCleared
    BY <1>9 DEF Refused, Accepted, PollCleared, Return
<1>10. CASE PollStillOpen
    <2>1. pc = "poll" /\ pc' = pc
        BY <1>1, <1>10, TimelySteps DEF PollStillOpen
    <2> QED
        BY <2>1
<1>11. CASE Reread
    BY <1>3, <1>11 DEF Reread, accountVars
<1>12. CASE EndCycle
    BY <1>3, <1>12 DEF EndCycle, SnapshotInv, brokerVars, accountVars
<1>13. CASE QuoteRaises
    BY <1>13 DEF QuoteRaises
<1>14. CASE Broker
    <2>1. pc' = pc /\ posCache' = posCache
        BY <1>14 DEF Broker
    <2>2. CASE FillOrder \/ CancelOrder
        <3>1. Watching
            BY <2>2 DEF IInv, OrderInv, FillOrder, CancelOrder
        <3> QED
            BY <2>1, <3>1 DEF Watching
    <2>3. CASE Settle \/ \E t \in Ticker : OwnerTrade(t)
        BY <1>3, <2>1, <2>3 DEF Settle, OwnerTrade, SnapshotInv
    <2> QED
        BY <1>1, <1>14, <2>2, <2>3, TimelyBroker
<1> QED
    BY <1>1, <1>4, <1>5, <1>6, <1>7, <1>8, <1>9, <1>10, <1>11, <1>12, <1>13, <1>14,
       TimelySteps
    DEF Next, Execute, CarryOut

\* A snapshot that PASS 1 compares with shows what truleo holds.
LEMMA SnapshotIsBot ==
    ASSUME IInv, TimelyInv, SnapshotInv, Grain = 1, pc = "build", NEW t \in Ticker
    PROVE  posCache[t] = bot[t] /\ bot[t] \in Nat
<1>1. posCache \in [Ticker -> Nat]
    BY DEF IInv, PlanInv, Shares
<1>2. posCache # NoCache
    <2>1. DOMAIN posCache = Ticker /\ DOMAIN NoCache = {}
        BY <1>1 DEF NoCache
    <2> QED
        BY <2>1
<1>3. posCache = Held
    BY <1>2 DEF SnapshotInv
<1> QED
    BY <1>3, HeldIsBot DEF SnapshotInv

\* The delta of an intent, after the sell gate, stops at its target.
LEMMA DeltaIsWithin ==
    ASSUME IInv, TimelyInv, MirrorInv, Grain = 1, pc = "build", NEW t \in Ticker,
           Target(trigger, t) \in Nat
    PROVE  Within(t, GatedDelta(t, Target(trigger, t)))
<1>1. posCache[t] = bot[t] /\ bot[t] \in Nat /\ Owned(ledger, t) \in Nat
    BY SnapshotIsBot, BookTypes DEF MirrorInv
<1>2. Target(trigger, t) = Target(leop, t)
    BY DEF MirrorInv, FilingInv
<1> HIDE DEF Target
<1> QED
    BY <1>1, <1>2 DEF GatedDelta, Within

\* Trading nothing passes no target.
LEMMA NothingIsWithin == \A t : Within(t, 0)
BY DEF Within

\* A grain of one share takes an order for exactly what is asked.
LEMMA WorkableIsAsked ==
    ASSUME Grain = 1, NEW t \in Ticker, NEW q \in Int, q # 0, NEW pay \in Nat,
           q > 0 => pay = q, NEW w \in Workable(t, q, pay)
    PROVE  w = IF q > 0 THEN q ELSE - q
<1>1. CASE q > 0
    <2>1. w = Grain * (q \div Grain)
        BY <1>1 DEF Workable, BoughtShares
    <2>2. q \div 1 = q
        OBVIOUS
    <2> QED
        BY <1>1, <2>1, <2>2
<1>2. CASE q < 0
    BY <1>2 DEF Workable, RoundedSell
<1> QED
    BY <1>1, <1>2

\* Every order that is prepared, on its way or being filled stays on the near
\* side of its target.
LEMMA TargetStep ==
    ASSUME SoleTenant, IInv, TimelyInv, MirrorInv, [MirrorNext]_mirrorVars
    PROVE  TargetInv'
<1> DEFINE Aimed == \A t : Target(leop, t)' = Target(leop, t)
<1>1. /\ Timely /\ Grain = 1 /\ NothingRests /\ OneOrderInv /\ OrderInv
      /\ FilingInv /\ SnapshotInv /\ TargetInv /\ [Next]_vars
      /\ ready \in [Ticker -> Int] /\ bot \in [Ticker -> Int]
      /\ Watching => order \in Orders
    BY StepIsExecutorStep DEF SoleTenant, TimelyInv, MirrorInv, IInv, TypeOK,
       BrokerTypeOK, OrderInv
<1>2. ASSUME ready' = NoDelta, pc' \notin {"submit", "poll"} PROVE TargetInv'
    BY <1>2 DEF TargetInv, Within, NoDelta
<1>3. CASE RunCycle \/ SeedLedger
    <2>1. ready' = ready /\ pc = "idle" /\ pc' \in {"idle", "build"}
        BY <1>3, RunCycleFact DEF SeedLedger, planVars
    <2> QED
        BY <1>2, <2>1 DEF IInv, PlanInv
<1>4. ASSUME ~ RunCycle PROVE Aimed
    BY <1>1, <1>4, GoalSteps DEF Target
<1>5. ASSUME Aimed, bot' = bot, pc' \notin {"submit", "poll"},
             \A t \in Ticker : ready'[t] = ready[t] \/ ready'[t] = 0
      PROVE  TargetInv'
    BY <1>1, <1>5 DEF TargetInv, Within
<1>6. ASSUME Aimed, UNCHANGED <<bot, pc, ready, order>>
      PROVE  TargetInv'
    BY <1>1, <1>6 DEF TargetInv, Within, Unfilled
<1>7. ASSUME ~ RunCycle, NEW t \in Ticker, Size(t) PROVE TargetInv'
    <2> DEFINE q == GatedDelta(t, Target(trigger, t))
    <2>1. /\ pc = "build" /\ pc' = "build" /\ bot' = bot
          /\ Target(trigger, t) \in Nat
        BY <1>7, ConstantsFact DEF Size, BuildIntentTo, brokerVars, accountVars, ConstantsOK
    <2>2. ready' = ready \/ ready' = [ready EXCEPT ![t] = q]
        BY <1>7, Zenon DEF Size, BuildIntentTo, SkipIntent, DeclineIntent, PrepareIntent
    <2>3. Within(t, q)
        BY <1>1, <2>1, DeltaIsWithin
    <2> HIDE DEF q
    <2> QED
        BY <1>1, <1>4, <1>7, <2>1, <2>2, <2>3 DEF TargetInv, Within
<1>8. ASSUME ~ RunCycle, NEW t \in Ticker, PlaceSell(t) \/ PlaceBuy(t) PROVE TargetInv'
    <2>1. /\ bot' = bot /\ pc' = "submit" /\ ready' = [ready EXCEPT ![t] = 0]
          /\ order'.tkr = t /\ order'.qty = ready[t]
          /\ ready[t] > 0 => order'.pay = ready[t]
        <3>1. ~ Fault("requote")
            BY DEF SoleTenant, Fault
        <3> QED
            BY <1>8, <3>1 DEF PlaceSell, PlaceBuy, Prepare, Request
    <2> QED
        BY <1>1, <1>4, <1>8, <2>1 DEF TargetInv, Within
<1>9. ASSUME ~ RunCycle,
             \/ EndBuild \/ EndSells \/ ReadBuyingPower \/ EndBuys \/ SaveKeys \/ Reread
             \/ \E t \in Ticker : SkipBuy(t) \/ ConfirmFill(t)
      PROVE  TargetInv'
    <2>1. bot' = bot /\ pc' \notin {"submit", "poll"}
        BY <1>9 DEF EndBuild, EndSells, ReadBuyingPower, EndBuys, SaveKeys, Reread,
           SkipBuy, ConfirmFill, brokerVars, accountVars
    <2>2. \A t \in Ticker : ready'[t] = ready[t] \/ ready'[t] = 0
        BY <1>1, <1>9 DEF EndBuild, EndSells, ReadBuyingPower, EndBuys, SaveKeys, Reread,
           SkipBuy, ConfirmFill, NoDelta, planVars
    <2> QED
        BY <1>4, <1>5, <1>9, <2>1, <2>2
<1>10. ASSUME ~ RunCycle, Refused \/ PollCleared PROVE TargetInv'
    <2>1. bot' = bot /\ pc' \notin {"submit", "poll"} /\ ready' = ready
        BY <1>10 DEF Refused, PollCleared, Return, Unwatch
    <2> QED
        BY <1>4, <1>5, <1>10, <2>1
<1>11. ASSUME ~ RunCycle, Accepted PROVE TargetInv'
    <2> DEFINE t == order.tkr
               q == order.qty
    <2>1. PICK w \in Workable(t, q, order.pay) :
            order' = [tkr |-> t, qty |-> q, pay |-> order.pay, want |-> w, filled |-> 0,
                      state |-> "open"]
        BY <1>11 DEF Accepted, Accept
    <2>2. /\ t \in Ticker /\ q \in Int /\ q # 0 /\ Within(t, q) /\ pc = "submit"
          /\ order.pay \in Nat /\ (q > 0 => order.pay = q)
        BY <1>1, <1>11 DEF Accepted, Watching, OrderInv, Orders, TargetInv
    <2>3. w = IF q > 0 THEN q ELSE - q
        BY <1>1, <2>2, WorkableIsAsked
    <2>4. Unfilled' = q
        <3>1. Unfilled' = IF q > 0 THEN w - 0 ELSE 0 - w
            BY <2>1 DEF Unfilled
        <3> HIDE DEF q
        <3> QED
            BY <2>2, <2>3, <3>1
    <2>5. bot' = bot /\ ready' = ready /\ pc' = "poll" /\ order'.tkr = t
        BY <1>11, <2>1 DEF Accepted, Accept, planVars
    <2> HIDE DEF t, q
    <2> QED
        BY <1>1, <1>4, <1>11, <2>2, <2>4, <2>5 DEF TargetInv, Within
<1>12. ASSUME ~ RunCycle, PollStillOpen PROVE TargetInv'
    <2>1. UNCHANGED <<bot, pc, ready, order>>
        BY <1>1, <1>12, TimelySteps DEF brokerVars, accountVars, planVars
    <2> QED
        BY <1>4, <1>6, <1>12, <2>1
<1>13. ASSUME ~ RunCycle, EndProcess \/ Publish \/ UNCHANGED mirrorVars PROVE TargetInv'
    <2>1. UNCHANGED <<bot, pc, ready, order>>
        BY <1>13 DEF EndProcess, Publish, mirrorVars, vars, brokerVars, accountVars, planVars
    <2> QED
        BY <1>4, <1>6, <1>13, <2>1
<1>14. CASE EndCycle \/ QuoteRaises
    BY <1>2, <1>14 DEF EndCycle, QuoteRaises, Forget
<1>15. ASSUME ~ RunCycle, Broker PROVE TargetInv'
    <2>1. pc' = pc /\ ready' = ready
        BY <1>15 DEF Broker, planVars
    <2>2. CASE Settle \/ \E t \in Ticker : OwnerTrade(t)
        BY <1>4, <1>6, <1>15, <2>1, <2>2 DEF Settle, OwnerTrade
    <2>3. CASE CancelOrder
        <3>1. order' = [order EXCEPT !.state = "closed"] /\ bot' = bot /\ order \in Orders
            BY <1>1, <2>3 DEF CancelOrder, OrderInv
        <3>2. order'.tkr = order.tkr /\ order'.qty = order.qty /\ Unfilled' = Unfilled
            BY <3>1 DEF Orders, Unfilled
        <3> QED
            BY <1>1, <1>4, <1>15, <2>1, <3>1, <3>2 DEF TargetInv, Within
    <2>4. CASE FillOrder
        <3>1. /\ order \in Orders /\ order.tkr \in Ticker /\ Watching
              /\ order.want \in Nat /\ order.filled \in Nat /\ order.qty \in Int
              /\ order.qty # 0
            BY <1>1, <2>4 DEF FillOrder, OrderInv, Orders
        <3>2. PICK n \in Pieces(order.want - order.filled) :
                /\ order' = [order EXCEPT !.filled = @ + n,
                                          !.state = IF order.filled + n < order.want
                                                     THEN "open" ELSE "closed"]
                /\ bot' = [bot EXCEPT ![order.tkr] = IF order.qty > 0 THEN @ + n ELSE @ - n]
            BY <2>4 DEF FillOrder
        <3>3. n \in Nat \ {0} /\ n <= order.want - order.filled
            BY <3>1, <3>2 DEF Pieces
        <3>4. /\ order'.tkr = order.tkr /\ order'.qty = order.qty /\ order'.want = order.want
              /\ order'.filled = order.filled + n
            BY <3>1, <3>2 DEF Orders
        <3>5. pc = "poll" /\ Within(order.tkr, Unfilled)
            BY <1>1, <3>1, <3>3 DEF OrderInv, Watching, TargetInv
        <3>6. \A t \in Ticker : Within(t, ready[t]) /\ bot[t] \in Int
            BY <1>1 DEF TargetInv
        <3>7. ready[order.tkr] = 0
            BY <1>1, <3>1 DEF OneOrderInv
        <3>8. ASSUME NEW t \in Ticker PROVE Within(t, ready[t])'
            <4>1. CASE t = order.tkr
                BY <2>1, <3>7, <4>1, NothingIsWithin DEF Within
            <4>2. CASE t # order.tkr
                <5>1. bot'[t] = bot[t]
                    BY <1>1, <3>2, <4>2
                <5> QED
                    BY <1>4, <1>15, <2>1, <3>6, <5>1 DEF Within
            <4> QED
                BY <4>1, <4>2
        <3>9. Within(order.tkr, Unfilled)'
            <4> DEFINE b == bot[order.tkr]
                       u == order.want - order.filled
                       g == Target(leop, order.tkr)
            <4>1. b \in Int /\ u \in Int /\ n <= u /\ g' = g
                BY <1>4, <1>15, <3>1, <3>3, <3>4, <3>6
            <4>2. CASE order.qty > 0
                <5>1. bot'[order.tkr] = b + n /\ Unfilled' = u - n /\ Unfilled = u
                    BY <1>1, <3>1, <3>2, <3>3, <3>4, <4>2 DEF Unfilled
                <5>2. b + u <= g /\ g \in Nat
                    BY <3>3, <3>5, <4>1, <5>1 DEF Within
                <5> HIDE DEF b, u, g
                <5> QED
                    BY <3>3, <3>4, <4>1, <5>1, <5>2 DEF Within, g
            <4>3. CASE order.qty < 0
                <5>1. bot'[order.tkr] = b - n /\ Unfilled' = n - u /\ Unfilled = - u
                    BY <1>1, <3>1, <3>2, <3>3, <3>4, <4>3 DEF Unfilled
                <5>2. g <= b - u /\ g \in Nat
                    BY <3>3, <3>5, <4>1, <5>1 DEF Within
                <5> HIDE DEF b, u, g
                <5> QED
                    BY <3>3, <3>4, <4>1, <5>1, <5>2 DEF Within, g
            <4> QED
                BY <3>1, <4>2, <4>3
        <3> QED
            BY <2>1, <3>5, <3>8, <3>9 DEF TargetInv
    <2> QED
        BY <1>1, <1>15, <2>2, <2>3, <2>4, TimelyBroker
<1> QED
    BY <1>1, <1>3, <1>7, <1>8, <1>9, <1>10, <1>11, <1>12, <1>13, <1>14, <1>15, TimelySteps
    DEF MirrorNext, RunPlan, CarryOut, Around

-----------------------------------------------------------------------------
(***************************************************************************)
(* The refinement of Tracking.                                             *)
(***************************************************************************)

\* What truleo may sell: what the ledger records, less what has been sold of it.
Authority(t) == Owned(ledger, t) - SoldUnrecorded(t)

\* It is the lesser of what the ledger says and what it will say, and never
\* more than truleo holds.
AuthorityInv ==
    \A t \in Ticker :
        /\ Authority(t) = IF Expected(t) < Owned(ledger, t) THEN Expected(t) ELSE Owned(ledger, t)
        /\ Authority(t) \in Nat
        /\ Authority(t) <= bot[t]
        /\ bot[t] \in Nat

\* That is what the executor's invariants amount to for one tenant.
LEMMA AuthorityFact == Grain = 1 /\ IInv /\ TimelyInv => AuthorityInv
<1> SUFFICES ASSUME Grain = 1, IInv, TimelyInv, NEW t \in Ticker
             PROVE  /\ Authority(t) = IF Expected(t) < Owned(ledger, t)
                                      THEN Expected(t) ELSE Owned(ledger, t)
                    /\ Authority(t) \in Nat
                    /\ Authority(t) <= bot[t]
                    /\ bot[t] \in Nat
    BY DEF AuthorityInv
<1> DEFINE o == Owned(ledger, t)
           f == fills[t]
           u == UnderWay(t)
<1>1. o \in Nat /\ f \in Int /\ u \in Int /\ bot[t] \in Int /\ Expected(t) = o + f + u
    BY BookTypes DEF Expected
<1>2. bot[t] \in Nat /\ Expected(t) <= bot[t]
    <2>1. 2 * bot[t] >= - 1 /\ 2 * (Expected(t) - bot[t]) <= 1
        BY NoForeignSale DEF NeverSellsForeign, TimelyInv, BooksInv
    <2> HIDE DEF o, f, u
    <2> QED
        BY <1>1, <2>1
<1>3. \/ /\ u = 0 /\ SoldUnrecorded(t) = IF f < 0 THEN - f ELSE 0
         /\ f < 0 => 2 * (- f - o) <= 1
      \/ /\ f = 0 /\ SoldUnrecorded(t) = IF u < 0 THEN - u ELSE 0
         /\ u < 0 => 2 * (- u - o) <= 1
    <2>1. CASE pc = "poll" /\ order.tkr = t
        <3>1. f = 0 /\ order \in Orders /\ order.filled <= order.want /\ order.qty # 0
            BY <2>1, Zenon DEF TimelyInv, FillsInv, IInv, OrderInv, Watching
        <3>2. /\ order.qty \in Int /\ order.want \in Nat /\ order.filled \in Nat
              /\ order # NoOrder
            BY <3>1 DEF Orders, NoOrder
        <3>3. CASE order.qty < 0
            <4>1. u = - order.filled /\ SoldUnrecorded(t) = 0 + order.filled
                BY <2>1, <3>1, <3>3 DEF UnderWay, SoldUnrecorded
            <4>2. 2 * (order.want - o) <= 1
                BY <2>1, <3>2, <3>3 DEF IInv, SellWithinLedger
            <4> HIDE DEF o, f, u
            <4> QED
                BY <1>1, <3>1, <3>2, <4>1, <4>2
        <3>4. CASE order.qty > 0
            <4>1. u = order.filled /\ SoldUnrecorded(t) = 0 + 0
                BY <2>1, <3>1, <3>2, <3>4 DEF UnderWay, SoldUnrecorded
            <4> HIDE DEF o, f, u
            <4> QED
                BY <1>1, <3>1, <3>2, <4>1
        <3> QED
            BY <3>1, <3>2, <3>3, <3>4
    <2>2. CASE ~ (pc = "poll" /\ order.tkr = t)
        <3>1. u = 0 /\ SoldUnrecorded(t) = (IF f < 0 THEN - f ELSE 0) + 0
            BY <2>2 DEF UnderWay, SoldUnrecorded
        <3>2. f < 0 => 2 * (- f - o) <= 1
            BY DEF TimelyInv, FillsInv
        <3> HIDE DEF o, f, u
        <3> QED
            BY <1>1, <3>1, <3>2
    <2> QED
        BY <2>1, <2>2
<1>4. Authority(t) = o - SoldUnrecorded(t)
    BY DEF Authority
<1> HIDE DEF o, f, u
<1> QED
    BY <1>1, <1>2, <1>3, <1>4 DEF o

\* Nothing is planned at the start, and what is adopted has been filed.
LEMMA MirrorInitInv == MirrorInit => MirrorInv
<1> SUFFICES ASSUME MirrorInit PROVE MirrorInv
    OBVIOUS
<1>1. /\ pc = "idle" /\ ready = NoDelta /\ posCache = NoCache /\ foreign = NoShares
      /\ sec = NoFiling
    BY DEF MirrorInit, Init
<1>2. FilingInv
    <2>1. CASE leop = NoFiling /\ weights = Unfiled
        BY <1>1, <2>1, FilingFacts DEF FilingInv, Filed, Unfiled
    <2>2. ASSUME NEW f \in Trigger \ {NoFiling}, NEW g \in Goals,
                 leop = f, weights = [Unfiled EXCEPT ![f] = g]
          PROVE  FilingInv
        <3>1. weights \in [Trigger -> Goals \cup {NoShares}] /\ weights[f] # NoShares
            BY <2>2, FilingFacts DEF Unfiled
        <3> QED
            BY <1>1, <2>2, <3>1, FilingFacts DEF FilingInv, Filed
    <2> QED
        BY <2>1, <2>2 DEF MirrorInit
<1>3. SnapshotInv
    BY <1>1 DEF SnapshotInv
<1>4. TargetInv
    BY <1>1, NothingIsWithin DEF TargetInv, NoDelta
<1> QED
    BY <1>2, <1>3, <1>4 DEF MirrorInv

\* The first state.
LEMMA PromiseInit == MirrorInit => Promise!Init
<1> SUFFICES ASSUME MirrorInit PROVE Promise!Init
    OBVIOUS
<1>1. Init /\ nav = OwnNav /\ weights[leop] \in Goals \cup {NoShares}
    BY MirrorInitInv, GoalType DEF MirrorInit, MirrorInv
<1>2. bot \in [Ticker -> Nat]
    BY <1>1, ConstantsFact DEF Init, OnGrid, ConstantsOK
<1>3. ASSUME NEW t \in Ticker PROVE SoldUnrecorded(t) = 0
    BY <1>1 DEF Init, SoldUnrecorded, NoDelta
<1>4. ledger.owned \in {bot, NoShares}
    BY <1>1 DEF Init, Absent
<1>5. [t \in Ticker |-> Owned(ledger, t) - SoldUnrecorded(t)] \in {bot, NoShares}
    BY <1>2, <1>3, <1>4 DEF Owned, NoShares
<1> QED
    BY <1>1, <1>2, <1>5 DEF Promise!Init, Promise!Books, Promise!Empty, NoShares

\* Every step moves the book towards the filing, confirms what has moved,
\* adopts a filing, or changes neither.
LEMMA PromiseStep ==
    ASSUME SoleTenant, IInv, TimelyInv, MirrorInv, AuthorityInv,
           MirrorInv', AuthorityInv', [MirrorNext]_mirrorVars
    PROVE  Promise!Next \/ UNCHANGED Promise!vars
<1> DEFINE goal == weights[leop]
           auth == [t \in Ticker |-> Owned(ledger, t) - SoldUnrecorded(t)]
           Aimed == goal' = goal /\ nav' = nav
<1>1. /\ Timely /\ Grain = 1 /\ NothingRests /\ OneOrderInv /\ FillsInv /\ [Next]_vars
      /\ bot \in [Ticker -> Int] /\ goal \in [Ticker -> Nat]
      /\ Watching => order \in Orders /\ order.tkr \in Ticker
    BY StepIsExecutorStep, GoalType DEF SoleTenant, TimelyInv, MirrorInv, IInv, TypeOK,
       BrokerTypeOK, OrderInv, Orders
<1>2. \A t \in Ticker :
        /\ auth[t] = Authority(t) /\ auth'[t] = Authority(t)'
        /\ auth[t] \in Nat /\ auth'[t] \in Nat /\ auth[t] <= bot[t] /\ auth'[t] <= bot'[t]
    BY DEF Authority, AuthorityInv
<1>3. DOMAIN auth = Ticker /\ DOMAIN auth' = Ticker
    OBVIOUS
<1>4. goal' \in Goals \cup {NoShares}
    BY GoalType DEF MirrorInv, FilingInv
<1>5. ASSUME bot' = bot, auth' = auth,
             \/ nav' = OwnNav
             \/ \E U \in SUBSET Ticker : nav' = NavWithout(auth, U)
      PROVE  Promise!Adopt
    BY <1>4, <1>5 DEF Promise!Adopt, Promise!Empty, NoShares
<1>6. CASE RunCycle
    <2>1. UNCHANGED <<bot, ledger, fills>> /\ pc # "poll" /\ pc' # "poll"
        BY <1>6, RunCycleFact DEF brokerVars, accountVars
    <2>2. auth' = auth
        BY <2>1 DEF SoldUnrecorded, Owned
    <2>3. auth = Records
        <3>1. ASSUME NEW t \in Ticker
              PROVE  Owned(ledger, t) - SoldUnrecorded(t) = Owned(ledger, t)
            <4>1. fills[t] = 0 /\ pc # "poll"
                BY <1>1, <1>6, RunCycleFact DEF FillsInv, NoDelta
            <4>2. SoldUnrecorded(t) = 0 /\ Owned(ledger, t) \in Nat
                BY <4>1, BookTypes DEF SoldUnrecorded
            <4> QED
                BY <4>2
        <3> QED
            BY <3>1 DEF Records
    <2> QED
        BY <1>5, <1>6, <2>1, <2>2, <2>3, RunCycleFact DEF Promise!Next
<1>7. CASE /\ Aimed /\ UNCHANGED <<ledger, bot>>
           /\ \A t \in Ticker : Expected(t)' = Expected(t)
    <2>1. ASSUME NEW t \in Ticker PROVE Authority(t)' = Authority(t)
        BY <1>7 DEF AuthorityInv, Owned
    <2>2. auth' = auth
        BY <2>1 DEF Authority
    <2> QED
        BY <1>7, <2>2 DEF Promise!vars
<1> HIDE DEF auth
<1>8. ASSUME Aimed, bot' = bot, \A t \in Ticker : auth[t] <= auth'[t]
      PROVE  Promise!Confirm
    BY <1>1, <1>2, <1>3, <1>8 DEF Promise!Confirm, Promise!Books, auth
<1>9. ASSUME SeedLedger, Aimed PROVE Promise!Next
    <2>1. /\ ~ IsSeeded(ledger) /\ ledger' = [file |-> "seeded", owned |-> Held]
          /\ pc = "idle" /\ pc' = "idle" /\ fills = NoDelta /\ fills' = NoDelta
        BY <1>1, <1>9 DEF SeedLedger, Seed, FillsInv, planVars
    <2>2. ASSUME NEW t \in Ticker PROVE Held[t] = bot[t] /\ foreign[t] + bot[t] >= 0
        BY <1>1, HeldIsBot DEF MirrorInv, SnapshotInv, NoShares
    <2>3. Held = bot
        BY <1>1, <2>2 DEF Held
    <2>4. bot' = bot
        <3>1. ledger.file = "absent"
            BY <2>1 DEF TimelyInv, BooksInv, IInv, TypeOK, Ledgers, IsSeeded
        <3> QED
            BY <1>9, <2>2, <2>3, <3>1 DEF SeedLedger
    <2>5. ASSUME NEW t \in Ticker PROVE auth'[t] = bot[t]
        <3>1. SoldUnrecorded(t)' = 0 /\ Owned(ledger, t)' = bot[t]
            BY <2>1, <2>3 DEF SoldUnrecorded, NoDelta, Owned
        <3> QED
            BY <1>1, <1>2, <3>1 DEF Authority
    <2> QED
        BY <1>2, <1>8, <1>9, <2>4, <2>5 DEF Promise!Next
<1>10. ASSUME NEW t \in Ticker, ConfirmFill(t), Aimed PROVE Promise!Next
    <2>1. /\ bot' = bot
          /\ \A s \in Ticker \ {t} :
               Owned(ledger, s)' = Owned(ledger, s) /\ Expected(s)' = Expected(s)
          /\ Expected(t) = Owned(ledger, t) + fills[t]
          /\ Expected(t)' = Owned(ledger, t)'
          /\ \/ Owned(ledger, t)' = Owned(ledger, t) + fills[t]
             \/ /\ Owned(ledger, t)' = Owned(ledger, t) /\ fills[t] > 0
                /\ IsSeeded(ledger) => ~ ShownByBroker(t)
             \/ /\ Owned(ledger, t)' = 0 /\ fills[t] < 0 /\ IsSeeded(ledger)
                /\ Owned(ledger, t) < - fills[t]
        BY <1>1, <1>10, ConfirmBooks
    <2>2. ASSUME NEW s \in Ticker PROVE Authority(s) <= Authority(s)'
        <3>1. CASE s # t
            <4>1. Authority(s)' = Authority(s)
                BY <2>1, <3>1 DEF AuthorityInv
            <4> QED
                BY <4>1 DEF AuthorityInv
        <3>2. CASE s = t
            <4>1. Authority(t)' = Owned(ledger, t)'
                BY <2>1 DEF AuthorityInv
            <4>2. /\ Owned(ledger, t) \in Nat /\ fills[t] \in Int /\ Expected(t) \in Int
                  /\ Authority(t) \in Nat
                  /\ Authority(t) <= Owned(ledger, t) /\ Authority(t) <= Expected(t)
                BY BookTypes DEF AuthorityInv
            <4>3. ~ (fills[t] < 0 /\ Owned(ledger, t) < - fills[t])
                <5>1. fills[t] < 0 => 2 * (- fills[t] - Owned(ledger, t)) <= 1
                    BY <1>1 DEF FillsInv
                <5> QED
                    BY <4>2, <5>1
            <4> QED
                BY <2>1, <3>2, <4>1, <4>2, <4>3
        <3> QED
            BY <3>1, <3>2
    <2> QED
        BY <1>2, <1>8, <1>10, <2>1, <2>2 DEF Promise!Next
<1>11. ASSUME FillOrder, UNCHANGED <<ledger, fills, pc>>, Aimed PROVE Promise!Next
    <2>1. PICK k \in Int :
            /\ OnBrokerGrid(k)
            /\ k < 0 => IsSeeded(ledger)
            /\ pc = "poll" /\ order.qty # 0
            /\ IF order.qty > 0 THEN k \in 1 .. order.want - order.filled
               ELSE - k \in 1 .. order.want - order.filled
            /\ \A s \in Ticker :
                 IF s = order.tkr
                 THEN bot'[s] = bot[s] + k /\ Expected(s)' = Expected(s) + k
                 ELSE bot'[s] = bot[s] /\ Expected(s)' = Expected(s)
        BY <1>11, FillBooks
    <2>2. order \in Orders /\ order.tkr \in Ticker
        BY <1>1, <2>1 DEF Watching
    <2>3. PICK t \in Ticker : t = order.tkr
        BY <2>2
    <2>4. /\ order.want \in Nat /\ order.filled \in Nat /\ order.qty \in Int
          /\ fills[t] = 0 /\ Within(t, Unfilled)
        <3>1. order.want \in Nat /\ order.filled \in Nat /\ order.qty \in Int
            BY <2>2 DEF Orders
        <3>2. fills[t] = 0
            BY <1>1, <2>1, <2>3 DEF Watching, FillsInv
        <3>3. Within(t, Unfilled)
            BY <2>1, <2>3 DEF MirrorInv, TargetInv
        <3> QED
            BY <3>1, <3>2, <3>3
    <2>5. /\ bot[t] \in Nat /\ Owned(ledger, t) \in Nat
          /\ Expected(t) \in Int
          /\ Expected(t) = Owned(ledger, t) + fills[t] + UnderWay(t)
        <3>2. Authority(t) \in Nat /\ Authority(t) <= bot[t]
            BY DEF AuthorityInv
        <3>3. /\ Owned(ledger, t) \in Nat /\ bot[t] \in Int /\ Expected(t) \in Int
            BY BookTypes
        <3>4. bot[t] \in Nat
            BY <3>2, <3>3
        <3>5. Expected(t) = Owned(ledger, t) + fills[t] + UnderWay(t)
            BY DEF Expected
        <3> QED
            BY <3>3, <3>4, <3>5
    <2>6. /\ bot'[t] = bot[t] + k /\ Expected(t)' = Expected(t) + k
          /\ Owned(ledger, t)' = Owned(ledger, t)
        BY <1>11, <2>1, <2>3 DEF Owned
    <2>7. \A s \in Ticker \ {t} : auth'[s] = auth[s]
        <3>1. \A s \in Ticker : Owned(ledger, s)' = Owned(ledger, s)
            BY <1>11 DEF Owned
        <3> QED
            BY <1>2, <2>1, <2>3, <3>1 DEF AuthorityInv
    <2>8. bot' = [bot EXCEPT ![t] = @ + k]
        <3>1. bot' = [s \in Ticker |-> bot'[s]]
            BY <1>1, <1>11 DEF FillOrder
        <3> QED
            BY <1>1, <2>1, <2>3, <3>1
    <2> DEFINE target == Target(leop, t)
    <2>9. Promise!Sized(t) = target
        BY DEF Promise!Sized, Target
    <2> HIDE DEF target
    <2>10. CASE order.qty > 0
        <3>1. k \in 1 .. order.want - order.filled
            BY <2>1, <2>10
        <3>2. bot[t] + (order.want - order.filled) <= target /\ target \in Nat
            BY <2>4, <2>10, <3>1 DEF Within, Unfilled, target
        <3>3. k \in 1 .. target - bot[t]
            BY <2>4, <2>5, <3>1, <3>2
        <3>4. UnderWay(t) = order.filled
            BY <2>1, <2>3, <2>4, <2>10 DEF UnderWay
        <3>5. Expected(t) >= Owned(ledger, t) /\ Expected(t)' >= Owned(ledger, t)'
            BY <2>4, <2>5, <2>6, <3>1, <3>4
        <3>6. auth'[t] = auth[t]
            <4>1. Authority(t) = Owned(ledger, t) /\ Authority(t)' = Owned(ledger, t)'
                BY <2>5, <2>6, <3>5 DEF AuthorityInv
            <4> QED
                BY <1>2, <2>6, <4>1
        <3>7. auth' = auth
            BY <1>3, <2>7, <3>6 DEF auth
        <3>8. Promise!Buy(t)
            BY <1>11, <2>8, <2>9, <3>3, <3>7 DEF Promise!Buy, auth
        <3> QED
            BY <3>8 DEF Promise!Next
    <2>11. CASE order.qty < 0
        <3>1. - k \in 1 .. order.want - order.filled
            <4>1. ~ (order.qty > 0)
                BY <2>4, <2>11
            <4> QED
                BY <2>1, <4>1
        <3>2. target <= bot[t] + (order.filled - order.want) /\ target \in Nat
            <4>1. ~ (order.qty > 0)
                BY <2>4, <2>11
            <4>2. Unfilled = order.filled - order.want
                BY <4>1 DEF Unfilled
            <4> QED
                BY <2>4, <3>1, <4>2 DEF Within, target
        <3>3. PICK n \in Nat : n = - k
            BY <3>1
        <3>4. n \in 1 .. bot[t] - target /\ k = - n
            BY <2>4, <2>5, <3>1, <3>2, <3>3
        <3>5. UnderWay(t) = - order.filled
            BY <2>1, <2>3, <2>4, <2>11 DEF UnderWay
        <3>6. /\ Expected(t) <= Owned(ledger, t)
              /\ Expected(t)' = Expected(t) - n /\ Expected(t)' < Owned(ledger, t)'
            BY <2>4, <2>5, <2>6, <3>1, <3>4, <3>5
        <3>7. Authority(t) = Expected(t) /\ Authority(t)' = Expected(t)'
            BY <2>5, <2>6, <3>6 DEF AuthorityInv
        <3>8. auth'[t] = auth[t] - n /\ n <= auth[t]
            BY <1>2, <2>5, <3>3, <3>6, <3>7
        <3>9. auth' = [auth EXCEPT ![t] = @ - n]
            BY <1>3, <2>7, <3>8 DEF auth
        <3>10. bot' = [bot EXCEPT ![t] = @ - n]
            BY <2>5, <2>8, <3>4
        <3>11. Promise!Sell(t)
            BY <1>11, <2>9, <3>4, <3>8, <3>9, <3>10 DEF Promise!Sell, auth
        <3> QED
            BY <3>11 DEF Promise!Next
    <2> QED
        BY <2>1, <2>4, <2>10, <2>11
<1>12. RunCycle \/ Aimed
    BY GoalSteps DEF MirrorInv
<1> QED
    BY <1>1, <1>6, <1>7, <1>9, <1>10, <1>11, <1>12, BookSteps

-----------------------------------------------------------------------------
\* Whatever 13Fs are published, the plan under way belongs to the filing that
\* was adopted, is compared with what truleo holds, and stays within its target.
THEOREM MirrorInvariant ==
    SoleTenant => (MirrorSpec => [](IInv /\ TimelyInv /\ MirrorInv))
<1> SUFFICES ASSUME SoleTenant
             PROVE  MirrorSpec => [](IInv /\ TimelyInv /\ MirrorInv)
    OBVIOUS
<1>1. Spec => [](IInv /\ TimelyInv)
    BY TimelyInvariant DEF SoleTenant
<1>2. IInv /\ TimelyInv /\ MirrorInv /\ [MirrorNext]_mirrorVars => MirrorInv'
    <2> SUFFICES ASSUME IInv, TimelyInv, MirrorInv, [MirrorNext]_mirrorVars
                 PROVE  MirrorInv'
        OBVIOUS
    <2>1. FilingInv'
        BY FilingStep DEF MirrorInv
    <2>2. SnapshotInv'
        BY StepIsExecutorStep, SnapshotStep DEF MirrorInv
    <2>3. TargetInv'
        BY TargetStep
    <2> QED
        BY <2>1, <2>2, <2>3 DEF MirrorInv
<1> QED
    BY <1>1, <1>2, MirrorInitInv, DeployedIsExecutor, PTL DEF MirrorSpec

\* From filing to shares (run_cycle and execute_plan): in an account nobody else
\* trades in, every fill moves the book towards the 13F adopted last, at the size
\* that the part of the NAV with a quote gives it, is covered by the ledger and
\* stays within the target, through missing quotes, vetoes, refusals, partial
\* fills, cancellations and confirmations that never come.
THEOREM DeployedFollowsFiling == SoleTenant => (MirrorSpec => FollowsFiling)
<1> SUFFICES ASSUME SoleTenant PROVE MirrorSpec => Promise!Spec
    BY DEF FollowsFiling
<1>1. MirrorSpec => [](IInv /\ TimelyInv /\ MirrorInv)
    BY MirrorInvariant
<1>2. IInv /\ TimelyInv /\ MirrorInv => AuthorityInv
    BY AuthorityFact DEF SoleTenant
<1>3. /\ IInv /\ TimelyInv /\ MirrorInv /\ AuthorityInv
      /\ MirrorInv' /\ AuthorityInv' /\ [MirrorNext]_mirrorVars
      => [Promise!Next]_(Promise!vars)
    BY PromiseStep
<1> QED
    BY <1>1, <1>2, <1>3, PromiseInit, PTL DEF MirrorSpec, Promise!Spec
=============================================================================
