# Verification of the truleo 13F mirror

TLA+ models of the program in `src/`, the TLC runs that check them, and
TLAPS proofs about all of them. The program copies two public portfolios (the
Situational Awareness 13F, "Leopold", and the Trump financial disclosures) into
one Robinhood account that it shares with its owner. A wrong step trades real
money, and most of what can go wrong needs several actors: the daily runner, the
hourly drawdown guard, the owner, the feeds, and a broker that answers late.

## 1. Inventory

| Component | Source | State it keeps | Operations | Model |
|---|---|---|---|---|
| Mirror executor | `src/executor.py` | idempotency keys, clean-cycle counter, position cache | `execute_plan` (build, sells, buying power, buys, save, re-read, confirm), `get_portfolio_snapshot` | `Executor`; in composition `DailyMirror`, `Tracking` |
| Robinhood client | `src/mcp/robinhood_client.py` | none | `place_market_order`, poll loop, quotes, positions, buying power | steps of `Executor`; account in `Brokerage` |
| Ownership ledger | `src/ownership_ledger.py` | one JSON file: shares truleo bought | `seed`, `record_buy`, `record_sell`, `get_owned_shares`, `own_nav` | `OwnershipLedger`, `Executor`, `DrawdownGuard` |
| Mirror cycle | `src/mirror_agent.py` | none between cycles | `run_cycle` | `MirrorCycle`; as deployed `DailyMirror`; its record of decisions `Decisions` |
| Leopold source | `src/sources/leopold.py` | 13F cache file | `get_latest_13f`, `get_current_basket` | `MirrorCycle` |
| Trump source | `src/sources/trump.py` | disclosure cache file | `get_raw_disclosed`, `get_last_verified_raw`, `update_last_verified_accepted` | `MirrorCycle` |
| Catalyst tagger | `src/tagger.py`, budget in `src/executor.py` | verdict cache, `budget.json` | `tag`, `filter_trump_holdings`, `approve`, `persist_decision` | `Decisions`; its verdict also in `MirrorCycle` |
| Graveyard and logs | `src/core/storage.py`, `src/sources/` | catalyst events and approvals; other events, append-only | `log_event`, queries | `Decisions` (partly) |
| Reconciler | `src/reconciler.py` | none | `reconcile`: top-N, merge, floor, cap, drift | `Reconciler` (partly); its plan also in `MirrorCycle` and `DailyMirror` |
| Drawdown guard | `bin/drawdown_guard.py` | high-water mark, KILL_SWITCH | one run per hour | `DrawdownGuard` |
| Snapshot emitter | `snapshot_emit.py` | `state.json` | `emit_truleo_snapshot` | `DrawdownGuard` (partly) |
| Live runner | `live_broker/run_live.py`, `run_with_heartbeat.sh` | none | seed, refuse under KILL_SWITCH, cycles, emission | `Executor`, `MirrorCycle`, `DailyMirror`, `DrawdownGuard` |
| Broker bridge | `live_broker/rh_transport.py` | one MCP session on a loop in another thread | `__enter__`, `call`, `__exit__`, reconnect, throttling | `Bridge` refining `OrderCall` |
| Shadow hedged book | `shadow_hedged_book.py`, `scripts/run_shadow_hedged.py` | state file and JSONL record | `mark_hedge_pnl`, `emit_four_series_snapshot` | `ShadowHedge` (partly) |
| Corporate actions, attribution, health, dashboard, schemas, probes | see `PROJECT.json` | reports, or append-only | | not modelled, with the reason in `PROJECT.json` |

Paths are below `src/`; the mapping of every definition to its lines is in
`PROJECT.json` under "map".

### How the parts interact

1. launchd starts the runner once a day. It seeds the ledger if need be, exits if
   the KILL_SWITCH file is there, and calls `run_cycle`.
2. `run_cycle` asks both feeds whether anything is new (the gate), reads the
   13F basket (which updates that cache), reads or carries the Trump basket
   through the catalyst filter, takes one snapshot of the account, reconciles,
   and hands a plan to `execute_plan`.
3. `execute_plan` compares targets with the snapshot, limits sells to what the
   ledger says truleo bought, sends orders one at a time through the client and
   the bridge, polls each, saves the keys, re-reads the account and updates the
   ledger.
4. The runner emits `state.json`. The guard reads it every hour, ratchets its mark
   and writes KILL_SWITCH when half the bankroll is gone. The owner removes it.

They share files (ledger, keys, caches, mark, switch, `state.json`) and the broker
account; there are no locks.

### What is hard, and what makes each part correct

- *Executor*: orders that outlive the polling window, lost replies, the kill
  switch between two orders, a crash between an order and the ledger, a
  second read that fails, a buy that is quoted again after its cover was checked.
  Correct: never sell what truleo did not buy, never repeat an order the executor
  can remember, overdraw by no more than what it cannot know of, keep failed orders
  retryable, at most one order after the switch, every cycle ends.
- *Cycle and sources*: two feeds that fail or publish between any two fetches,
  caches written before they are acted on, approvals at any time. Correct: buy
  only what the filter let through, sell nothing for want of data, go quiet
  only when the filing was planned for, keep the filing followed so far when its
  feed fails, never mix two filings in a cache.
- *The whole path, filing to book*: a cycle may lose a quote, a buy the settled
  cash does not cover, an order, or the process; only the next day's cycle makes up
  for it, from a snapshot that lacks unsettled cash and whatever has no quote.
  Correct: every trade moves the book towards the last adopted filing, at the size
  the quoted NAV gives it, and on recorded authority only; while the gate is open
  every day, a filing ends up in the book.
- *Tagger and its record*: names are classified, paid for and recorded one by one,
  across restarts and midnights, while approvals arrive. Correct: a day's calls stay
  within the budget; the record never turns a name against its verdict.
- *Guard and snapshot*: three rounds of quotes make one snapshot, whose cash is
  buying power and not the ledger's; a missing quote looks like a loss. Correct: a
  drift flag has a cause, a warning is measured from the true peak, a lasting loss
  halts, a glitch does not.
- *Bridge*: coroutines share a session and outlive their callers. Correct, of a
  server that does not throttle: one session, nothing open after exit, no orphaned
  call; of any server: bounded sends, calls return.
- *Reconciler*: redistribution that may leak weight, overshoot the cap, or not
  converge. Correct: the iteration is the water-filling fixed point.
- *Shadow book*: state saved before its row. Correct: P&L telescopes from a
  frozen basis; row and state agree.

## 2. Modules

`OwnershipLedger` (operators on the ledger's value) and `Brokerage` (the account:
accept, fill in pieces, cancel at the close, settle, orders nobody watches, the
owner's own trades, and a budget of faults) are extended by `Executor`, and that by
`DailyMirror`, which adds the filings and the gate and refines the abstract
`Tracking`. `MirrorCycle`, `Decisions`, `DrawdownGuard`, `Bridge` (refining
`OrderCall`), `Reconciler` and `ShadowHedge` stand beside it. `MC*` modules only
declare model values. The proofs about a module are in one of their own:
`ExecutorProofs` (its last part about `DailyMirror` and its two refinements),
`DecisionsProofs`, `CycleProofs`, `GuardProofs`, `ShadowProofs`, `BridgeProofs` (with
its refinement) and `ReconcilerProofs`; `Sums` has the induction and the facts about
sums that three of them need.

**Executor.** `pc` is the phase of `execute_plan`: `build` (PASS 1, one intent per
step: `BuildIntent` skips, declines or prepares it), `sells`, `bp`, `buys`
(`PlaceSell`, `ReadBuyingPower`, `PlaceBuy`, `SkipBuy`), `submit` and `poll` for
the order under way (`Refused`, `Accepted`, `ReplyLost`, `ReplyUnnamed`,
`PollStillOpen`, `PollCleared`, `PollBlind`), `save`, `reread`, `confirm` (`ConfirmFill` per fill,
because every record rewrites the file). The operators `GatedDelta`, `KeysAfter`,
`FillsAfter`, `LedgerAfter`, `AvailableAfter` are the conversions of the code.
A buy leaves as dollars: `Prepare` quotes it again (`Requotes`), the broker buys
what those dollars come to at any price between the two (`BoughtShares`), and
`available_bp` is charged as if the first price stood. A reply with neither an
error nor an id (`ReplyUnnamed`) counts as a success, whether or not there is an
order. `reached`, `forgotten`, `declined`, `drained` and `afterKill` are history:
`forgotten` are the keys of orders that the executor was left without a memory of,
`drained` is what the buying power has lost since the plan read it and the plan
does not know of. Faults are counted, so "whatever the environment does" is bounded
by `MaxFaults` in the runs (not in the proofs). Simplifications: at the plan's
prices one unit of shares costs one unit of cash, and a new quote at most doubles
that; a plan has at most one intent per ticker, as the reconciler
guarantees; a target is any number of shares; fills never exceed the
quantity; the pruning of the key file beyond 5000 entries is left out; a truncated
clean-cycle file is left out; `Refused` stands also for an amount below the
client's minimum, so `afterKill` counts a few orders that were never sent (the
property is the stronger for it). A lost reply is one where the broker has
accepted at once; that no order arrives later, from a call whose caller has gone,
is what `OrderCall` states of the bridge and `NothingAfterTheAnswer` proves; the one exception
they make, an order of a call that was throttled, is not a fault of `Executor`. The
owner's trades use and free buying power like anybody's.

**DailyMirror.** The deployed program: the Trump sleeve is disabled, `run_cycle`
runs every day, and `Executor`'s own operators (`StartCycle`, `BuildIntentTo`,
`CarryOut`) carry the plan out. `sec` is EDGAR's latest 13F, `leop` the cache,
`weights` what each 13F asks for. `RunCycle` is gate, basket, reconciliation and
snapshot in one step: nothing of the account changes between them that this module
is about (`MirrorCycle` takes them apart). The names in `V` have no quote for the
snapshot, those in `U` none for the ledger's NAV: `Priced` and `Equity` count the
first as nothing, as `get_portfolio_snapshot` does, and `NavWithout` leaves the second
out of `nav` (`_cycle_own_nav`), which makes every target of the plan smaller. `Plan`
is the drift band, measured against the account's equity; `Target` is the weight
times `nav`, in whole shares. `GateOpen` compares both feeds with their caches: the
fixture of the disabled sleeve is never cached by a live run, so it is new every day,
unless its id is in the data directory already (`disclosed`), because `run_mirror.py`
was tried there with the sleeve enabled; then only a new 13F opens the gate.
`MirrorInit` has both. Simplifications: the NAV of a book that is quoted in full is
constant, because a recorded trade exchanges cash for shares at the standing price;
the cash buffer is part of the weights; the drift band (1% and $10) is narrower than
a share; an empty basket is the trigger `NoFiling`. The account has one tenant, no
foreign shares and no cash but truleo's, and nobody throws the kill switch.

**Tracking** is what the owner was promised: `goal` is the last adopted 13F, `priced`
the part of the NAV that had a quote when it was adopted, `book` the shares truleo
holds, `authority` those it may sell. `Buy` and `Sell` move a name towards what the
goal comes to at that NAV (`Sized`) and never past it, `Sell` within the authority,
which never exceeds the book; it is `Settled` when the book is the goal itself.
`DailyMirror!Promise` maps `goal` to the cached filing's weights, `priced` to `nav`,
`book` to the broker's record of truleo's shares, and `authority` to the ledger less
what has been sold and not recorded yet.

**Decisions.** `pc` walks `filter` and `record` over the names of one disclosure.
`tag` has five outcomes per name: `Cached`, `Fails` (no budget, no client, an
exception, a wrong shape), `Answers` with a verdict or with one that fails after it
has been paid for, and `AnswersAndDies`. `spent` is the process's counter,
`file` is `budget.json` with its date; `paid` and `lost` are history. `run_cycle`
gives the classifier no context, so a name has one verdict for good. The order of
names is arbitrary; the offline mock and the prompts are left out. A call costs one
unit, whatever its tokens.

**MirrorCycle.** `pc` walks `gate, basket, trump, tag, carry, plan, execute, end`.
Each fetch is a step of its own, so a feed may publish in between. `leop` and
`trump` are the cache files; `GetBasket` updates the first exactly where the code
does, before anything is planned. Weights are abstracted to the names a plan drops
as too small or leaves within the band. What `execute_plan` fills is any part of
the plan. The classifier's verdict is nondeterministic and stays once given.

**DrawdownGuard.** The runner's three rounds of quotes (`ReadAccount`,
`CheckQuotes`, `WriteState`) and the guard's three steps (`GuardReads`,
`GuardRatchets`, `GuardDecides`; `GuardDies` loses the mark). The number of shares is
fixed; prices move and quotes fail and come back at any moment, between two rounds as
well. `ReadAccount` takes the cash from the broker's buying power, which lacks part of
what the ledger counts (`Owed`: sales that have yet to settle, open orders) and has the
owner's. `alien` and `exact` are history: what of the account's total is not truleo's,
and whether the rest of it is the ledger's cash and every position at the price it has
now; `DriftFlag` and
`AllIsWell` are what the two programs tell the owner. Jobs run within their hour.

**Bridge.** One step is what happens between two awaits. Coroutine 0 is the warm-up.
`elapsed` is the caller's patience; awaits last any time up to their constant. A server
may throttle a call or already its connection; the latter leaves no session behind.
Assumed: the server acts on a call within `CallTime`, takes an order once per
reference, and closing a session succeeds. `Promised` maps the bridge to
`OrderCall`, which is what the executor takes for granted of a call: answers mean
placed, and an order arrives only while its caller waits, or later if the caller
gave up on a call that was throttled (`late`). The wait a server asks for is no part
of the caller's patience, so what the bridge says of itself is stated for calls
nobody throttled (`Unthrottled`).

**Reconciler.** Weights are exact fractions (the code's are floats with tolerances
of 1e-9). One step per stage of `reconcile`, one per pass of the cap loop. Shorts
are not in the executable basket. Rows keep a fixed order on ties. The loop's limit of
200 passes is left out: two sleeves of ten names cannot need it (`CapEnds`).

**ShadowHedge.** One run marks, saves the state, appends the row; it may die
between the two. Amounts are in units of `1/Scale` dollar so shares are whole.

## 3. Runs

Each `.cfg` is a run; sizes are distinct states.

| Run | Shows | Bounds, and why they are enough |
|---|---|---|
| `ExecutorFaults` | `TypeOK`, `SellWithinLedger`, `SavedKeysAreJustified`, `NoSecondOrderForKey`, `CycleEnds` | One ticker, `Grain = 2` (the broker's grid is coarser than the ledger's, so rounding happens), targets up to 2, one foreign share, two faults of any of nine kinds per behaviour: the compound cases (lost reply then crash, slow order then owner trade, a crash between an order and its key), under triggers whose keys are saved. 297 k |
| `ExecutorTimely` | `LedgerMatchesHoldings`, `NeverSellsForeign`, `OverdraftHasACause`, `AtMostOneOrderAfterKill` | Two tickers (two orders are needed to overdraw, and for the switch to come between), targets up to 2 so that fills are partial, foreign shares, the ":none" triggers that the deployed program uses, and besides refusals, cancellations and the kill switch one trade of the owner, new quote or veto at any moment. 2.9 M, symmetric in tickers |
| `ExecutorSlowSell` | violates `NeverSellsForeign` | The smallest instance of the above with an order that outlives the polls |
| `CycleLive` | `TypeOK`, `OnlyApprovedBought`, `NoSpuriousExit`, `QuietMeansMirrored` | Two tickers (one of each sleeve, or in both), two filings and two disclosures: old, new, and a new one while the old is being handled. 1.3 M |
| `CycleFaults` | `CachesMatchFilings` | Two tickers, two filings (so that a cache can mix them), every event but puts: dry and forced cycles, switch, crash, truncated cache, unreadable table; a forced cycle repeats the one disclosure. 5.3 M |
| `GuardOutage` | `TypeOK`, `DriftIsExplained`, `WarnsOnDrawdown`, `HaltsOnLoss` | One share whose price, which may move between any two steps, and cash give a NAV above, at and below cost basis, warning and halt levels; a unit of foreign cash and one of owed cash; two guard runs per day, so one sees a stale file. 159 k |
| `GuardQuote` | violates `HaltOnlyOnLoss` | Two shares, one quote failing |
| `BridgeCalls` | `TypeOK`, `CallerNotOrphaned`, `OneSession`, `ClosedAfterExit`, `SendsBounded`, `CallReturns`, and `Spec => OrderCall` as `OrderCallSpec` | Two calls after the warm-up, two attempts and two throttlings each, of the call or of its connection; time units with the code's proportions: a call's two attempts and the pause between them fit the caller's patience, a throttling on top of them exceeds it, so that callers give up and the next call overlaps the orphan. 436 k |
| `MirrorDaily` | `Spec => Tracking` as `FollowsFiling`, `FilingReachesBook` | Two tickers and a NAV of two shares: a 13F asks for one of each or both of one, so going from one to the other needs a sale, a buy, and cash that settles in between; two filings, one of which may replace the other while it is traded; a data directory with and without the fixture's id; one failed read after the orders; any set of names without a quote in either round, refusals, cancellations and failing feeds without bound, and runs that an exception ends in a plan's first pass. A crash after an order is left to `ExecutorFaults` and section 5: with one the book does not follow the filing. 87 k |
| `DecisionDays` | `TypeOK`, `BudgetHolds`, `EventsMatchVerdicts` | Three names and a budget of two calls, so that it runs out within a disclosure; two disclosures and one that is filtered again; a midnight; two deaths, one to lose a call and one to lose the file. 4.1 M, symmetric in names |
| `RebalanceFunds` | `TypeOK`, `CapIsWaterFill`, `NoWeightLeaks`, `CapConverges`, `FloorSurvivorsStay`, `RebalanceSettles` | Three names of weights up to 5 in one sleeve and 2 in the other, top 2 of each, so a name pushed over the cap by a first pass exists; an equity at which the dollar floor binds and one at which the percentage does; two rebalances. 2.5 M |
| `ShadowFaults` | `TypeOK`, `PnlFromFrozenBasis`, `RowMatchesState` | Two tickers, one of them long, three days, two filings. 460 k |

Every property of a passing run has a mutant in `PROJECT.json`: an operator of the
model replaced by one with a plausible bug, which that run then refutes. The
mutants stand beside the operators they mutate and are used by nothing else.

### Fairness

- `Executor!FairSpec`: a running process keeps running and the broker works an open
  order (fill or cancel; "gfd" orders end at the close). `CycleEnds` would be false
  of the client without its poll limit.
- `DrawdownGuard!FairSpec`: time passes, launchd starts both jobs, dry runs do not
  starve them (strong fairness on `Tick` and `RunStarts`), and a job that is tried
  every day gets through each step some day (strong fairness on its steps). Without
  the latter a broker that never answers hides any loss; the code has no defence.
- `Bridge!FairSpec`: the loop runs its coroutines, and the main thread's wait has a
  timeout.
- `DailyMirror!MirrorFairSpec`: the ledger is seeded, a run comes to its end, the
  broker works an open order, cash settles (weak fairness); and since launchd starts
  a run every day, some day the latest filing is fetched, and for each name some day
  its quote is there, its order is taken, and it fills (strong fairness, because each
  of these may fail on any day). `FilingReachesBook` assumes besides that outages (a
  quote that raises or is missing from a plan, a buying power that cannot be read) end,
  and that the fixture's id is not in the data directory. Without the per-name
  strong fairness a name that is halted for good would be a counterexample that no
  program could avoid.
- `MirrorCycle!FairSpec` (a daily run, a feed that answers now and then) is used by
  the statements of section 5 only.

Deadlock is checked except in `Bridge`, `Reconciler` and `ShadowHedge`, which stop
when the process has left or the bounded days and cycles are used up, and in
`DailyMirror`, which stops behind a gate that is shut once no more 13Fs come.

## 4. What is proved

Every theorem holds for all values of the constants that the named assumption of its
module admits: any number of tickers, filings, days, calls and retries, any prices and
times, any budget of faults. Some also have a premise, an operator of the proof
module that excludes what the code has no defence against; each premise holds in the
run that checks the property, and the failures it excludes are those that section 5
or a finding shows to break it.

| Theorem (module) | Property | Premise |
|---|---|---|
| `TypeCorrect` (`ExecutorProofs`) | `TypeOK` | |
| `SellsStayWithinLedger` | `SellWithinLedger` | |
| `FailedOrdersStayRetryable` | `SavedKeysAreJustified` | |
| `KillStopsOrders` | `AtMostOneOrderAfterKill` | |
| `OverdraftsHaveACause` | `OverdraftHasACause` | |
| `ReplaysSendNothingTwice` | `NoSecondOrderForKey` | |
| `ForeignSharesUntouched` | `NeverSellsForeign` | `Timely`: no order outlives its polls, no reply is lost or without an id, and a poll reports the whole fill |
| `LedgerIsExact` | `LedgerMatchesHoldings` | `Exact`: that, and buys are confirmed, on a grid that foreign positions keep to |
| `DeployedIsExecutor` | `MirrorSpec => Spec` | |
| `DeployedSellsStayWithinLedger` | `SellWithinLedger` | |
| `DeployedFollowsFiling` | `FollowsFiling`, that is `MirrorSpec => Tracking` | `SoleTenant`: `Timely`, no trades of the owner, no new quotes, whole shares; any quotes may be missing |
| `DecisionsTypeCorrect`, `DayStaysInBudget`, `GraveyardAgrees` (`DecisionsProofs`) | `TypeOK`, `BudgetHolds`, `EventsMatchVerdicts` | |
| `CycleTypeCorrect`, `CachesHoldOneFiling` (`CycleProofs`) | `TypeOK`, `CachesMatchFilings` | |
| `OnlyApprovedIsBought` | `OnlyApprovedBought` | `CyclesComplete`: no crash within a cycle |
| `FilingIsKept` | `FilingKept`, the half of `NoSpuriousExit` about the 13F | `FilingsReadable`: no table is unreadable, no cache cut short |
| `ExitsHaveASource` | `NoSpuriousExit` | both |
| `QuietIsMirrored` | `QuietMeansMirrored` | `RunsTrade`: nor a dry run, nor the kill switch |
| `GuardTypeCorrect`, `DrawdownIsReported` (`GuardProofs`) | `TypeOK`, `WarnsOnDrawdown` | |
| `DriftExplained` | `DriftIsExplained` | |
| `ShadowTypeCorrect`, `AccrualTelescopes`, `RecordFollowsState` (`ShadowProofs`) | `TypeOK`, `PnlFromFrozenBasis`, `RowMatchesState` | |
| `MatchedRecordFollowsState` | `MissingMarkCarries` | `ClosesComplete`: no close is missing |
| `CostIsPerDay` | `CostPerDay` | `OnceADay`: that, and each day has one run that ends |
| `BridgeTypeCorrect`, `SendsAreBounded` (`BridgeProofs`) | `TypeOK`, `SendsBounded` | |
| `CallersAreNotOrphaned` | `CallerNotOrphaned` | `CallsFit` |
| `BridgeKeepsPromise` | `OrderCallSpec`, that is `Spec => OrderCall` | `CallsFit` |
| `NothingAfterTheAnswer` | `AnswersAreFinal`: an order not placed when its call returns never is, unless the call was throttled | `CallsFit` |
| `SessionsAreSingle`, `NothingOpenAfterExit` | `OneSession`, `ClosedAfterExit` | `CallsFit` and `WarmUpFits` |
| `ReconcilerTypeCorrect`, `CapFillsLikeWater`, `CapLosesNothing`, `CapEnds` (`ReconcilerProofs`) | `TypeOK`, `CapIsWaterFill`, `NoWeightLeaks`, `CapConverges` | |
| `SurvivorsStay`, `ReconcilerSettles` | `FloorSurvivorsStay`, `RebalanceSettles` | |
| `CapHasOneOutcome` | these properties of the cap determine the weights | |
| `FloorIsOfTheSleeve` | `SleeveFloorHonoured` | `OneSleeve`: the Trump sleeve has no share of the book, as deployed |

No passing run checks `MissingMarkCarries`, `CostPerDay` and `SleeveFloorHonoured`,
because under the events and constants of the runs they are false or can be (three
rows of section 5); their theorems say what has to be excluded for them to hold.

`CallsFit` says that a call's attempts, each with a connection of its own, and the
pauses between them take no longer than its caller waits. In the code five attempts
and pauses of 15 s in all face a patience of 390 s, so it holds of a server whose
connection and answer take at most 75 s together; with a connection that takes the
full 60 s, an answer has 15 s. `WarmUpFits` says the same of `__enter__`: five
connections and a second after each within 120 s, 23 s for one connection. Beyond
that the warm-up may be left behind and open a session of its own.

### The arguments

*Executor.* `TypeOK` and `SellWithinLedger` are not inductive. A sell is checked
against the ledger in PASS 1 and sent much later, so `IInv` adds that prepared sells
are covered (`SellInv`) and that the ledger does not move while there are any
(`PlanInv`: nothing is ready outside build, sells and buys). That `available` stays
a natural number needs `BuyInv`, the watched buy is still covered by it; and that
an order's fill stays within its quantity needs `OrderInv`, which says that the
record exists exactly in submit and poll. `SavedKeysAreJustified` needs that keys
not saved yet are justified too, and that a watched order's key has reached the
broker (`KeyInv`). The kill switch has an invariant of its own, `AfterKillInv`:
while an order that passed the check is on its way, none has left yet.

`OverdraftHasACause` and `NoSecondOrderForKey` name what the executor cannot know of,
and hold without a premise. `AvailInv` compares what the plan thinks is available with
the broker's buying power, less the reservation of the order under way and plus
`drained`. `ReplayInv` says that every key that has reached the broker and was not
forgotten is one that the next plan will find.

The second half of `ExecutorProofs` is about an executor whose broker answers in time. For
`NeverSellsForeign` the
ledger must be compared with truleo's holdings in the middle of a plan, when fills are
not recorded yet: `Expected` is what it will say once they are, and `BooksInv` bounds it
by what truleo has, up to the half grain by which the last sale of a position is rounded;
`GridInv`, `FillsInv`, `OneOrderInv` and `NothingRests` are what that needs. `ExactInv`
turns the bound into an equality when every buy is confirmed.

*DailyMirror.* Each of its steps is one of `Executor` or leaves its variables alone
(`DeployedIsExecutor`), so every theorem above holds of it. For `Tracking`, `FilingInv`
says that the filing under way is the cached one and does not change, `SnapshotInv` that
the snapshot PASS 1 compares with is the book, and `TargetInv` that every intent and
every unfilled part of an order lies between the book and its target at the NAV the plan
was made with (`Within`), whatever had no quote.
`PromiseStep` maps each step: a fill is `Buy` or `Sell` of `Tracking`, the ledger's
record of a purchase is `Confirm`, a cycle may be `Adopt`, everything else stutters. That the authority covers a sale and never exceeds the book is
`AuthorityFact`, from `BooksInv`.

*Decisions.* `BudgetHolds` needs what a process has loaded and what it has spent
compared with what was paid (`BudgetInv`), across a file that belongs to another day.
`EventsMatchVerdicts` needs that a bucket agrees before it is recorded (`BucketInv`) and
that only the names under way are ever recorded (`RunInv`).

*MirrorCycle.* `CacheInv` orders feed, cache and basket under way. `CarryInv` says that
the carried names have passed the filter except while the filter is at them, which is
why a crash there breaks `OnlyApprovedBought`. `HandedInv`: the cached 13F has been
handed over or is the one under way. `FilingInv`: the basket under way is the latest 13F or
the cached one, which is the one handed over last unless a cache was lost.

*DrawdownGuard.* `AccountInv` follows what was read first while prices and quotes change:
as long as they have not (`exact`), the account's total is the book and what is `alien`
to it, so a drift beyond the tolerance without that is one that they explain. That every NAV is in its range, for any number of tickers, is
`SumOfBounded`. `RatchetInv`: the mark covers every NAV read.

*ShadowHedge.* `Telescopes` holds of the saved book and of the one in memory, so it
survives a crash between them; `RowInv` follows the row from the mark to the append.

*Bridge.* `AttemptInv` ties the place of a coroutine to the room its two counters have,
`SendsInv` counts sendings against them. `PatienceInv` bounds what a caller has waited by
what its coroutine has gone through; with `CallsFit` the wait ends with the call, so the
next caller finds no other coroutine (`CallInv`). `SessionInv`: what is open is the session
there is, and who closes closes that one. `CoroutineIsPromised` and `MainIsPromised` map the
steps to `OrderCall`. From the same invariants, a call that has answered has ended, so its
answer is final (`NothingAfterTheAnswer`).

*Reconciler.* `Typed` gives the fractions their ranges, and `Capping` says what every
pass of the loop keeps. `SpreadFact` writes a pass out as products: names below the cap
are scaled by `rest + excess` over `rest`, those at it or over it are put at it. From it
`SpreadFills`: the weights stay a water-filling (`WaterFill`) of what the floor left;
`SpreadConserves`: their total stays, unless nobody is below the cap; `SpreadReaches`:
a pass that finds somebody over the cap ends with more names at it, which bounds the
passes by the names (`Capping` counts them). What the floor left
passes both floors, and water-filling lowers a name only to the cap, hence
`SurvivorsStay`. `RebalanceSettles` compares two rebalances, so `Settling` remembers that
what is held mirrors weights the loop ends with (`Filled`) from these sources; the loop
has one outcome (`FilledOnce`), so the next targets are those and no name has drifted.
`CapHasOneOutcome` needs no run of the loop: of two vectors with the properties of the
cap neither can be higher anywhere (`FillIsUnique`). Weights are in lowest terms, so
`Homogeneous` shows that dividing by the common divisor changes none of the comparisons;
that the divisor divides is `GcdDivides`, by a minimal counterexample to Euclid.

*Sums.* The library's induction theorems take an operator as a parameter, which the
provers cannot instantiate. `NumberInduction` and `SubsetInduction` say the same of a set
(from `WFMin`, whose parameter is a relation). From them `FoldExists` and `PartialFact`
show that the fold of the community modules, a function chosen by its equation, satisfies
it, and the other lemmas what a sum does under addition, scaling, parts and comparison
(`SumCombines`, `SumOfPart`, `SumIsMonotone`).

### Only model-checked

- Liveness under fairness, and ENABLED, which are out of the prover's reach: `CycleEnds`, `HaltsOnLoss`, `CallReturns`,
  `FilingReachesBook`.

## 5. Known disagreements

Two are findings with a run of their own (`PROJECT.json`, "findings"). The model
also refutes the statements below. To see one, give the module's constants the
values named here in a `.cfg` (other constants as in the module's runs) and list
the property.

| Statement | Module and constants | What happens, and what the code says of itself |
|---|---|---|
| `NoOverdraftAttempt` | `Executor` as in `ExecutorTimely`, `Faults = {"slow"}`, `{"requote"}` or `{"owner"}` | A buy that timed out while open still reserves its amount, and `available_bp` is charged for reported fills only (`executor.py:448`); a buy is quoted again after it was compared (`robinhood_client.py:411`); and the buying power is read once, whatever the owner buys meanwhile. `tests/test_audit_buying_power_gate.py:15` says that a buy beyond what is available is never attempted. What does hold is `OverdraftHasACause` |
| `NeverSellsForeign` | `Executor` as in `ExecutorTimely`, `Faults = {"crash"}` | The ledger is written after the whole plan (`executor.py:488`); a process that dies after a sell sells again |
| `SeedIsOneTime` | `Executor` as in `ExecutorFaults`, `Faults = {"crash", "torn"}` | A truncated ledger loads as unseeded (`ownership_ledger.py:51`), and the next start adopts every position; `run_live.py:70` calls it a one-time migration |
| `ConfirmFailureResetsClean` | `Executor` as in `ExecutorFaults`, `Faults = {"reread"}` | confirm_fill_failed does not reset the counter (`executor.py:482`), although `executor.py:115` lists it among the events that do |
| `QuietMeansMirrored` | `MirrorCycle` as in `CycleLive`, `Events = {"dry"}`, sleeve enabled | A dry run caches the new accession (`leopold.py:342`); the executing run after it is quiet. `run_live.py:102` says "Re-run with --execute to trade" |
| `NoRebalanceWithoutFiling` | `MirrorCycle` as in `CycleLive`, `Events = {}` | With an empty cache and a failed 13F feed the empty basket is rebalanced to (`leopold.py:320`); `leopold.py:87` says "no rebalance" |
| `NoSpuriousExit` | `MirrorCycle` as in `CycleLive`, `Events = {"garble"}` or `{"crash", "torn"}` | An unreadable table, or a cache cut short and a feed that fails, is an empty or a partial basket, and what it lacks is sold although the source has not dropped it |
| `OnlyApprovedBought` | `MirrorCycle` as in `CycleLive`, `Events = {"crash"}` | Disclosed names are cached before the filter has seen them (`trump.py:241`) |
| `ApprovedEntersBasket` | `MirrorCycle` under `FairSpec` | An approval after the cycle that filtered a disclosure has no effect on it (`mirror_agent.py:119`) |
| `HoldFreezesTrump` | `MirrorCycle` as in `CycleLive`, `Events = {"short"}` | A Trump name that a 13F only shorts is traded on a hold (`mirror_agent.py:220`) |
| `NoFalseForeign` | `DrawdownGuard`, `Events = {"outage"}`, `{"owed"}` or `{}` | A quote that fails in one round only, buying power that lacks what the ledger was credited, or a price that moves between two rounds makes the sums differ with quote_degraded false; `snapshot_emit.py:103` would not have drift evaluated on such a sum. What does hold is `DriftIsExplained` |
| `ResumesOnRemoval` | `DrawdownGuard` under `FairSpec`, `Events = {}` | The switch stops the runner that would refresh `state.json`, so the guard trips again on the old NAV |
| `OneSession`, `ClosedAfterExit` | `Bridge`, `CallTime = 9` | A call that hangs past its caller's patience is orphaned (`rh_transport.py:201`); it and the next call reconnect at the same time, and a session set up after the teardown stays open. Throttling has the same effect in `BridgeCalls`, whose properties are conditioned on its absence |
| `OrdersOnlyOnNewFiling` | `MirrorCycle`, one ticker, `TrumpDisabled = TRUE` | The fixture that stands in for the disabled sleeve is new every day, so the gate is always open (`mirror_agent.py:83`) and the drift band may trade; `DRAWDOWN_STOP_2026-07-16.md:27` says "pma only trades on a new Leopold 13F anyway" |
| `FilingReachesBookAnyway` | `DailyMirror` as in `MirrorDaily` | In a data directory with the fixture's id the gate opens on a new 13F only, and a name that had no quote, or a buy the settled cash did not cover, waits for the next quarter: "no natural retry until the NEXT 13F" (`STATUS_ARCHIVE.md:17`, and the gate of `run_live.py:94` and `tests/test_audit_filing_gate.py`). It is the accident of the row above that retries it |
| `NeverBelowFiling` | `DailyMirror` as in `MirrorDaily` | A name without a quote is left out of `_cycle_own_nav`, so the targets of all others shrink and the book is sold below its filing. `executor.py:181` says of the undercount that it "Fails safe" |
| `RejectsAreGenuine` | `Decisions` | A classifier call that failed, or that the budget did not allow, counts among the filter's rejects and is cached for good (`tagger.py:274`), although the docstring of `filter_trump_holdings` says "Genuinely rejected (catalyst=False) go to rejected" |
| `SleeveFloorHonoured` | `Reconciler`, `FloorPct = 4`, `Cap = 20`, `TopN = 3` | The floor is taken of both sleeves together (`reconciler.py:327`); `tests/test_reconciler.py:104` calls it sleeve-relative. As deployed, with one sleeve, it is (`FloorIsOfTheSleeve`) |
| `CostPerDay` | `ShadowHedge`, `Events = {"rerun"}` | A second run on a day charges the day again |
| `RebasedOnNewFiling` | `ShadowHedge`, `Events = {}` | A put two filings share keeps its basis |
| `MissingMarkCarries` | `ShadowHedge`, `Events = {"missing"}` | A long without a mark takes its put out of the matched series |
| `LongsOnlyReturns` | `ShadowHedge`, `Events = {}` | Longs are bought for the same dollar at the mark they are marked at |

Some more follow from the models without a property of their own. Under a trigger with
":none", which every plan of the deployed program has, `SaveKeys` saves nothing and
`BuildIntent` finds nothing (`executor.py:275`), so a replay sends its orders again,
although `mirror_agent.py:225` promises that a replay dedupes; `NoSecondOrderForKey` is
therefore about the other triggers (`Savable`). Sizing uses the
ledger's NAV so that foreign holdings "do not inflate truleo's position sizing"
(`ownership_ledger.py:8`), but drift is measured against the account's equity; with
foreign cash or shares in the account a book that is on target looks drifted and one
that is not may look settled, which is why `MirrorInit` has one tenant. And a buy that could not
be confirmed is never sold and keeps its cash, which is the last disjunct of
`FilingReachesBook`. In `Decisions` the budget counts usable answers only: a call
that raises or returns the wrong shape is not charged (`tagger.py:262`).

`GuardDies` in `DrawdownGuard` is one more: a high-water mark cut short is taken for
the cost basis (`drawdown_guard.py:54`), so the mark comes down although
`drawdown_guard.py:65` ratchets "up only". `WarnsOnDrawdown` is therefore measured
from the last time the mark was whole. `FilingMirrored` (under `FairSpec`, without
faults, every 13F is planned for unless a newer one comes) holds on one ticker,
two filings and one disclosure.

## 6. Not modelled

- Text parsing and fuzzy matching of filings, OAuth, argument parsing, the shell
  wrapper and probes: input and output without state the program acts on; their
  outcomes are nondeterministic choices of the models.
- The tagger's prompts and its offline mock: one nondeterministic verdict.
- Corporate actions: what they scale is overwritten by the weights the reconciler
  normalises, so they change no plan.
- Attribution, health reports, the dashboard and the remaining graveyard events:
  read by people, never read back by a cycle.
- The stub broker: a test double.

`PROJECT.json` gives the reason for each. Floats are exact fractions.

## 7. Plan

Done: every component of section 1 that is modelled is checked, and every safety property
a passing run checks is proved, with both refinements. Liveness stays with TLC.

Left: one module in which `Executor` and `Bridge` run together. What the one takes for
granted of the other is proved (`BridgeKeepsPromise`, `NothingAfterTheAnswer`), but the
two are composed only in the argument of section 2.
