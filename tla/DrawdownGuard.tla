-------------------------- MODULE DrawdownGuard --------------------------
(***************************************************************************)
(* The drawdown stop: the live runner emits state.json once a day          *)
(* (live_broker/run_live.py, snapshot_emit.py), the drawdown guard         *)
(* (bin/drawdown_guard.py) reads it every hour, ratchets its high-water    *)
(* mark and writes the KILL_SWITCH file, and an executing runner refuses   *)
(* to start while that file is there.  The owner removes it.               *)
(*                                                                         *)
(* The runner quotes every position three times: for the account total,    *)
(* to find out whether quotes are degraded, and for its own NAV.  Prices   *)
(* move and quotes come and go between these rounds.  The total takes its  *)
(* cash from the broker's buying power, own_nav from the ledger.  truleo   *)
(* owns one share of each ticker.                                          *)
(***************************************************************************)
EXTENDS Integers, FiniteSetsExt

CONSTANTS
    Ticker,      \* the owned tickers
    MaxPrice,    \* bound: price of a share
    Cash,        \* the ledger's cash
    MaxForeign,  \* bound: what is in the account and not truleo's
    Tolerance,   \* DRIFT_TOLERANCE_USD
    CostBasis,   \* COST_BASIS
    HaltLevel,   \* HALT_FRAC_OF_COST * COST_BASIS
    Day,         \* guard runs per day
    Events       \* what may go wrong

AllEvents ==
    {"outage",  \* quotes fail and come back
     "owed",    \* buying power lacks part of the ledger's cash
     "fail",    \* a run ends without a new state.json
     "torn",    \* the guard dies while it writes nav_hwm.json
     "dry"}     \* the owner starts a dry run

ASSUME GuardAssumption ==
    /\ IsFiniteSet(Ticker)
    /\ MaxPrice \in Nat \ {0} /\ Cash \in Nat /\ MaxForeign \in Nat
    /\ Tolerance \in Nat /\ Day \in Nat \ {0}
    /\ HaltLevel \in Nat /\ CostBasis \in Nat /\ HaltLevel <= CostBasis
    /\ Events \subseteq AllEvents

VARIABLES
    price,      \* the market
    down,       \* tickers without a usable quote
    hour,       \* of the day
    \* files
    state,      \* state.json: own_nav
    hwm,        \* the peak in nav_hwm.json
    killed,     \* the KILL_SWITCH file exists
    \* the runner
    rpc,        \* off, cycle, check, write
    runDue,     \* today's run has not started yet
    total,      \* account_total
    degraded,   \* quote_degraded
    \* the guard
    gpc,        \* idle, ratchet, decide
    guardDue,   \* this hour's run has not started yet
    nav,        \* own_nav as read
    \* history
    halved,     \* the book was down to the halt level when state.json was written
    real,       \* and when the state.json the guard has read was
    best,       \* the highest own_nav it has read since the mark was last lost
    alien,      \* what of total is not truleo's
    exact       \* the rest of it is the ledger's cash and every position as priced now

market == <<price, down>>
runner == <<rpc, runDue, total, degraded, alien, exact>>
guard == <<gpc, guardDue, nav, real, best>>
vars == <<market, hour, state, hwm, killed, runner, guard, halved>>

-----------------------------------------------------------------------------
Worth(quoted) == MapThenSumSet(LAMBDA t : price[t], quoted)

\* own_nav: the ledger's cash and the positions that can be priced.
OwnNav(quoted) == Cash + Worth(quoted)

TrueNav == OwnNav(Ticker)

Navs == 0 .. Cash + MaxPrice * Cardinality(Ticker)

NoState == [file |-> "none", nav |-> 0]

\* A mark that is not there, or cannot be parsed, starts at the cost basis.
NoMark == CostBasis

Larger(m, n) == IF m >= n THEN m ELSE n

TypeOK ==
    /\ price \in [Ticker -> 1 .. MaxPrice]
    /\ down \subseteq Ticker
    /\ hour \in 0 .. Day - 1
    /\ state \in [file : {"none", "ok"}, nav : Navs]
    /\ hwm >= CostBasis
    /\ killed \in BOOLEAN /\ runDue \in BOOLEAN /\ degraded \in BOOLEAN
    /\ rpc \in {"off", "cycle", "check", "write"}
    /\ total \in 0 .. Cash + MaxPrice * Cardinality(Ticker) + MaxForeign
    /\ alien \in 0 .. MaxForeign /\ exact \in BOOLEAN
    /\ gpc \in {"idle", "ratchet", "decide"}
    /\ guardDue \in BOOLEAN
    /\ nav \in Navs
    /\ halved \in BOOLEAN /\ real \in BOOLEAN
    /\ best >= CostBasis

Init ==
    /\ price \in [Ticker -> 1 .. MaxPrice]
    /\ down = {}
    /\ hour = 0
    /\ state = NoState
    /\ hwm = NoMark
    /\ killed = FALSE
    /\ rpc = "off"
    /\ runDue = TRUE
    /\ total = 0
    /\ degraded = FALSE
    /\ gpc = "idle"
    /\ guardDue = TRUE
    /\ nav = 0
    /\ halved = FALSE
    /\ real = FALSE
    /\ best = CostBasis
    /\ alien = 0
    /\ exact = FALSE

-----------------------------------------------------------------------------
(***************************************************************************)
(* The world: prices, quotes, the clock and the owner.                     *)
(***************************************************************************)

MovePrice ==
    /\ price' \in [Ticker -> 1 .. MaxPrice]
    /\ exact' = (exact /\ price' = price)
    /\ UNCHANGED <<down, hour, state, hwm, killed, rpc, runDue, total, degraded, alien,
                   guard, halved>>

Quotes ==
    /\ "outage" \in Events
    /\ down' \in SUBSET Ticker
    /\ UNCHANGED <<price, hour, state, hwm, killed, runner, guard, halved>>

\* Jobs that are due run before the hour is over.
Tick ==
    /\ rpc = "off" /\ gpc = "idle" /\ ~ runDue /\ ~ guardDue
    /\ hour' = (hour + 1) % Day
    /\ guardDue' = TRUE
    /\ runDue' = (hour' = 0)
    /\ UNCHANGED <<market, state, hwm, killed, rpc, total, degraded, alien, exact, gpc, nav,
                   halved, real, best>>

RemoveKill ==
    /\ killed
    /\ killed' = FALSE
    /\ UNCHANGED <<market, hour, state, hwm, runner, guard, halved>>

-----------------------------------------------------------------------------
(***************************************************************************)
(* The runner.  What its cycle trades is left out: truleo's book is given. *)
(***************************************************************************)

RunStarts ==
    /\ rpc = "off" /\ runDue
    /\ runDue' = FALSE
    /\ rpc' = IF killed THEN "off" ELSE "cycle"
    /\ UNCHANGED <<market, hour, state, hwm, killed, total, degraded, alien, exact, guard,
                   halved>>

\* A dry run emits too, with or without the switch.
DryRunStarts ==
    /\ "dry" \in Events
    /\ rpc = "off"
    /\ rpc' = "cycle"
    /\ UNCHANGED <<market, hour, state, hwm, killed, runDue, total, degraded, alien, exact,
                   guard, halved>>

\* The part of the ledger's cash that buying power lacks: proceeds that have not
\* settled, cash the broker reserves, or all of it when the broker does not answer.
Owed == IF "owed" \in Events THEN 0 .. Cash ELSE {0}

\* get_portfolio_snapshot: a position that cannot be priced counts zero.  After a
\* cycle that placed nothing its marks are those of the cycle's own snapshot, so
\* this round may be long before the next.
ReadAccount ==
    /\ rpc = "cycle"
    /\ \E foreign \in 0 .. MaxForeign, owed \in Owed :
          /\ total' = OwnNav(Ticker \ down) + foreign - owed
          /\ alien' = foreign
          /\ exact' = (owed = 0 /\ down = {})
    /\ rpc' = "check"
    /\ UNCHANGED <<market, hour, state, hwm, killed, runDue, degraded, guard, halved>>

\* quote_degraded_for_ledger
CheckQuotes ==
    /\ rpc = "check"
    /\ degraded' = (down # {})
    /\ rpc' = "write"
    /\ UNCHANGED <<market, hour, state, hwm, killed, runDue, total, alien, exact, guard,
                   halved>>

\* Mutant: a NAV that lacks positions is compared with the account all the same.
DriftAnyway(own) == total - own > Tolerance \/ own - total > Tolerance

Drift(own) == ~ degraded /\ (total - own > Tolerance \/ own - total > Tolerance)

RunEnds == rpc' = "off" /\ total' = 0 /\ degraded' = FALSE /\ alien' = 0 /\ exact' = FALSE

\* The drift_flag that is written along with own_nav.  The guard does not look at
\* it, the owner does.
DriftFlag == Drift(OwnNav(Ticker \ down))

\* emit_truleo_snapshot replaces the file atomically.
WriteState ==
    /\ rpc = "write"
    /\ state' = [file |-> "ok", nav |-> OwnNav(Ticker \ down)]
    /\ halved' = (TrueNav <= HaltLevel)
    /\ RunEnds
    /\ UNCHANGED <<market, hour, hwm, killed, runDue, guard>>

\* The broker does not answer, the snapshot is invalid, or the process dies.
RunFails ==
    /\ "fail" \in Events
    /\ rpc # "off"
    /\ RunEnds
    /\ UNCHANGED <<market, hour, state, hwm, killed, runDue, guard, halved>>

-----------------------------------------------------------------------------
(***************************************************************************)
(* The guard.                                                              *)
(***************************************************************************)

Readable == state.file = "ok"

\* Without a readable state.json the guard logs an error and does nothing.
GuardReads ==
    /\ gpc = "idle" /\ guardDue
    /\ guardDue' = FALSE
    /\ IF Readable
       THEN /\ nav' = state.nav
            /\ real' = halved
            /\ best' = Larger(best, state.nav)
            /\ gpc' = "ratchet"
       ELSE UNCHANGED <<gpc, nav, real, best>>
    /\ UNCHANGED <<market, hour, state, hwm, killed, runner, halved>>

\* Mutant: the mark of an earlier run is forgotten.
PeakForgotten == Larger(nav, CostBasis)

\* Mutant: the mark follows the NAV.
PeakOfNav == nav

Peak == Larger(hwm, Larger(nav, CostBasis))

GuardRatchets ==
    /\ gpc = "ratchet"
    /\ hwm' = Peak
    /\ gpc' = "decide"
    /\ UNCHANGED <<market, hour, state, killed, runner, guardDue, nav, halved, real,
                   best>>

GuardEnds == gpc' = "idle" /\ nav' = 0 /\ real' = FALSE

\* The guard dies while it rewrites the mark in place: the mark is lost.
GuardDies ==
    /\ "torn" \in Events
    /\ gpc = "ratchet"
    /\ hwm' = NoMark
    /\ best' = CostBasis
    /\ GuardEnds
    /\ UNCHANGED <<market, hour, state, killed, runner, guardDue, halved>>

\* Mutant: the loss has to exceed the limit.
HaltingBelow == nav < HaltLevel

Halting == nav <= HaltLevel

Warning == 4 * nav <= 3 * hwm

\* What the guard reports, it logs only.
AllIsWell == ~ Halting /\ ~ Warning

GuardDecides ==
    /\ gpc = "decide"
    /\ killed' = (killed \/ Halting)
    /\ GuardEnds
    /\ UNCHANGED <<market, hour, state, hwm, runner, guardDue, halved, best>>

-----------------------------------------------------------------------------
Runner == RunStarts \/ ReadAccount \/ CheckQuotes \/ WriteState

Guard == GuardReads \/ GuardRatchets \/ GuardDecides

Next ==
    \/ MovePrice \/ Quotes \/ Tick \/ RemoveKill
    \/ Runner \/ DryRunStarts \/ RunFails
    \/ Guard \/ GuardDies

Spec == Init /\ [][Next]_vars

\* Time passes, and launchd starts both jobs however often the owner starts a
\* dry run; neither job stops half-way for ever: one that is started day after
\* day some day gets through each of its steps.
FairSpec ==
    /\ Spec
    /\ SF_vars(Tick) /\ SF_vars(RunStarts)
    /\ SF_vars(ReadAccount) /\ SF_vars(CheckQuotes) /\ SF_vars(WriteState)
    /\ WF_vars(Guard) /\ SF_vars(GuardRatchets)

-----------------------------------------------------------------------------
(***************************************************************************)
(* Properties.                                                             *)
(***************************************************************************)

\* "Never halt on a glitch": the switch is only written when the book really
\* had lost enough at the last emission.
HaltOnlyOnLoss == [][~ killed /\ killed' => real]_vars

\* drift_flag stands for foreign or orphan capital, not for a quote miss.
NoFalseForeign == [][WriteState /\ DriftFlag => alien > Tolerance]_vars

\* The three rounds of quotes and the two sources of cash agree often enough:
\* drift_flag is only set when every position had a quote in the round that asks
\* for it; and it says whether there is foreign capital, unless cash was owed,
\* prices moved between the rounds, or a quote was missing in one of them.
DriftIsExplained ==
    [][WriteState =>
         /\ DriftFlag => ~ degraded
         /\ ~ degraded /\ down = {} /\ exact
              => (DriftFlag <=> alien > Tolerance)]_vars

\* "Ratchet the high-water mark up only": all is well only when the NAV is
\* near the highest one read since the mark was last lost.
WarnsOnDrawdown == [][GuardDecides /\ AllIsWell => 4 * nav > 3 * best]_vars

\* A lasting loss of half the bankroll stops truleo.
HaltsOnLoss == []([](TrueNav <= HaltLevel) => <>killed)

\* When the owner removes the switch and the book is above the halt level,
\* truleo trades again.
ResumesOnRemoval ==
    [](~ killed /\ [](TrueNav > HaltLevel) => <>(rpc = "cycle"))
=============================================================================
