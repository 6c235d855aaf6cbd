---------------------------- MODULE ShadowHedge ----------------------------
(***************************************************************************)
(* The shadow hedged book (scripts/run_shadow_hedged.py and                *)
(* shadow_hedged_book.py): once a day it marks a paper book of the 13F's   *)
(* longs, hedged with the 13F's puts as short positions of a frozen basis, *)
(* saves what it has accrued per put, and appends a row to the record.     *)
(* There are two series of hedges with a state of their own: all puts, and *)
(* those whose ticker is one of the longs.                                 *)
(*                                                                         *)
(* Amounts are in units of 1/Scale dollar, so that shares are whole for    *)
(* every price; the series without hedges is one long per ticker of Long.  *)
(***************************************************************************)
EXTENDS Integers, FiniteSetsExt

CONSTANTS
    Ticker,
    Long,          \* the longs
    MaxPrice,      \* bound: price
    MaxNotional,   \* bound: notional of a put
    Scale,         \* a common multiple of the prices
    Rate,          \* HEDGE_COST_BPS_PER_DAY, in units per dollar
    MaxDay,        \* bound: days
    MaxFiling,     \* bound: filings
    Events         \* what may go wrong

AllEvents ==
    {"missing",  \* a close cannot be fetched
     "crash",    \* the process dies
     "rerun",    \* it runs more than once a day
     "skip"}     \* or not at all

ASSUME ShadowAssumption ==
    /\ IsFiniteSet(Ticker) /\ Long \subseteq Ticker /\ Events \subseteq AllEvents
    /\ MaxPrice \in Nat \ {0} /\ MaxNotional \in Nat /\ Rate \in Nat
    /\ Scale \in Nat \ {0} /\ \A p \in 1 .. MaxPrice : Scale % p = 0
    /\ MaxDay \in Nat /\ MaxFiling \in Nat \ {0}

VARIABLES
    price,    \* today's closes
    puts,     \* notional per ticker in the cached 13F, 0 without a put
    filing,   \* its number
    day,
    ran,      \* a run has started today
    file,     \* shadow_hedge_state.json
    pc,       \* idle, save, append
    state,    \* the state in memory
    next,     \* the row to be appended
    row,      \* the last row of shadow_hedged_book.jsonl
    \* history
    ahead     \* a state has been saved and its row not appended

world == <<price, puts, filing, day, ran>>
vars == <<world, file, pc, state, next, row, ahead>>

-----------------------------------------------------------------------------
Series == {"full", "matched"}

\* No entry for a put yet.
NoEntry == [basis |-> 0, shares |-> 0, prior |-> 0, cum |-> 0,
            cost |-> 0, since |-> 0, filing |-> 0]

\* An entry; what it has cost, its first day and the filing of its last
\* accrual are history.
Entries ==
    [basis : 0 .. MaxPrice, shares : Nat, prior : 0 .. MaxPrice, cum : Int,
     cost : Nat, since : 0 .. MaxDay, filing : 0 .. MaxFiling]

States == [Series -> [Ticker -> Entries]]

NoRow == [longs |-> 0, pnl |-> [s \in Series |-> 0], puts |-> {}, marked |-> {},
          price |-> [t \in Ticker |-> 0]]

TypeOK ==
    /\ price \in [Ticker -> 1 .. MaxPrice]
    /\ puts \in [Ticker -> 0 .. MaxNotional]
    /\ filing \in 1 .. MaxFiling /\ day \in 0 .. MaxDay /\ ran \in BOOLEAN
    /\ file \in States /\ state \in States
    /\ pc \in {"idle", "save", "append"}
    /\ \A r \in {row, next} : /\ r.longs \in Nat /\ r.pnl \in [Series -> Int]
                              /\ r.puts \subseteq Ticker /\ r.marked \subseteq Ticker
    /\ ahead \in BOOLEAN

Init ==
    /\ price \in [Ticker -> 1 .. MaxPrice]
    /\ puts \in [Ticker -> 0 .. MaxNotional]
    /\ filing = 1
    /\ day = 0
    /\ ran = FALSE
    /\ file = [s \in Series |-> [t \in Ticker |-> NoEntry]]
    /\ pc = "idle"
    /\ state = file
    /\ next = NoRow
    /\ row = NoRow
    /\ ahead = FALSE

-----------------------------------------------------------------------------
NextDay ==
    /\ pc = "idle" /\ day < MaxDay
    /\ ran \/ "skip" \in Events
    /\ day' = day + 1
    /\ ran' = FALSE
    /\ price' \in [Ticker -> 1 .. MaxPrice]
    /\ UNCHANGED <<puts, filing, file, pc, state, next, row, ahead>>

NewFiling ==
    /\ pc = "idle" /\ filing < MaxFiling
    /\ filing' = filing + 1
    /\ puts' \in [Ticker -> 0 .. MaxNotional]
    /\ UNCHANGED <<price, day, ran, file, pc, state, next, row, ahead>>

-----------------------------------------------------------------------------
Present(e) == e # NoEntry

\* Mutant: a short position has a negative number of shares.
InceptionSigned(t) ==
    [basis |-> price[t], shares |-> - (puts[t] * (Scale \div price[t])),
     prior |-> price[t], cum |-> - (puts[t] * Rate), cost |-> puts[t] * Rate,
     since |-> day, filing |-> filing]

\* The first day of a put freezes its basis; there is a day's cost and no gain.
Inception(t) ==
    [basis |-> price[t], shares |-> puts[t] * (Scale \div price[t]), prior |-> price[t],
     cum |-> - (puts[t] * Rate), cost |-> puts[t] * Rate, since |-> day,
     filing |-> filing]

\* Mutant: every day's gain is counted from the basis.
AccruedFromBasis(e, t) ==
    [e EXCEPT !.cum = @ - e.shares * (price[t] - e.basis) - puts[t] * Rate,
              !.prior = price[t], !.cost = @ + puts[t] * Rate, !.filing = filing]

\* A later day: the gain of the short since the last mark, less a day's cost.
Accrued(e, t) ==
    [e EXCEPT !.cum = @ - e.shares * (price[t] - e.prior) - puts[t] * Rate,
              !.prior = price[t], !.cost = @ + puts[t] * Rate, !.filing = filing]

\* load_leopold_top10: a long that cannot be marked is not among the longs, and
\* its put not among the matched ones.
Hedges(s, marked) ==
    {t \in Ticker : puts[t] > 0 /\ (s = "full" \/ t \in Long \cap marked)}

\* Mutant: a hedge that cannot be marked counts nothing.
PnlOfMarked(entries, hedges, marked) ==
    MapThenSumSet(LAMBDA t : entries[t].cum, hedges \cap marked)

\* total_pnl: with the last P&L of a hedge that cannot be marked today.
Pnl(entries, hedges, marked) == MapThenSumSet(LAMBDA t : entries[t].cum, hedges)

\* mark_hedge_pnl
Advance(entries, hedges, marked) ==
    [t \in Ticker |->
        IF t \notin hedges \cap marked THEN entries[t]
        ELSE IF Present(entries[t]) THEN Accrued(entries[t], t) ELSE Inception(t)]

\* Every day the longs are bought anew for the same dollar, then marked.
LongsNav(marked) ==
    MapThenSumSet(LAMBDA t : (Scale \div price[t]) * price[t], Long \cap marked)

\* emit_four_series_snapshot, up to the files.
Mark(marked) ==
    /\ pc = "idle"
    /\ ~ ran \/ "rerun" \in Events
    /\ ran' = TRUE
    /\ state' = [s \in Series |-> Advance(file[s], Hedges(s, marked), marked)]
    /\ next' = [longs |-> LongsNav(marked),
                pnl |-> [s \in Series |-> Pnl(state'[s], Hedges(s, marked), marked)],
                puts |-> {t \in Ticker : puts[t] > 0},
                marked |-> marked,
                price |-> price]
    /\ pc' = "save"
    /\ UNCHANGED <<price, puts, filing, day, file, row, ahead>>

Run == \E marked \in (IF "missing" \in Events THEN SUBSET Ticker ELSE {Ticker}) :
           Mark(marked)

\* save_hedge_state replaces the file atomically.
SaveState ==
    /\ pc = "save"
    /\ file' = state
    /\ ahead' = TRUE
    /\ pc' = "append"
    /\ UNCHANGED <<world, state, next, row>>

AppendRow ==
    /\ pc = "append"
    /\ row' = next
    /\ ahead' = FALSE
    /\ pc' = "idle"
    /\ UNCHANGED <<world, file, state, next>>

Crash ==
    /\ "crash" \in Events
    /\ pc # "idle"
    /\ pc' = "idle"
    /\ UNCHANGED <<world, file, state, next, row, ahead>>

Next == NextDay \/ NewFiling \/ Run \/ SaveState \/ AppendRow \/ Crash

Spec == Init /\ [][Next]_vars

-----------------------------------------------------------------------------
(***************************************************************************)
(* Properties.                                                             *)
(***************************************************************************)

\* The accrued P&L telescopes: whatever was missed, repeated or cut short, it
\* is the gain of the frozen position since its basis, less what was charged.
PnlFromFrozenBasis ==
    \A s \in Series, t \in Ticker :
        LET e == file[s][t]
        IN  e.cum = e.shares * (e.basis - e.prior) - e.cost

\* A row says of the series of all puts what the saved state says, also when
\* marks are missing and when an earlier run died between its two files.
RowMatchesState ==
    ~ ahead => row.pnl["full"] = MapThenSumSet(LAMBDA t : file["full"][t].cum, row.puts)

\* "The name's last cumulative P&L is carried" when its mark is missing, in
\* both series.
MissingMarkCarries ==
    ~ ahead => row.pnl["matched"] =
        MapThenSumSet(LAMBDA t : file["matched"][t].cum, row.puts \cap Long)

\* A put is charged its cost per day: once for every day since its first.
CostPerDay ==
    pc = "idle" /\ ran => \A t \in Ticker :
        LET e == file["full"][t]
        IN  Present(e) /\ e.filing = 1 /\ filing = 1 =>
                e.cost = puts[t] * Rate * (day - e.since + 1)

\* "Re-based only on a new 13F": the first accrual under a new filing takes
\* the day's close as the basis.
RebasedOnNewFiling ==
    [][\A t \in Ticker :
          LET e == file["full"][t]
          IN  Present(e) /\ file'["full"][t].filing # e.filing =>
                  file'["full"][t].basis = price[t]]_vars

\* The longs-only series is a return series: it changes when every long does.
LongsOnlyReturns ==
    [][row # NoRow /\ row' # row /\ row.marked = Ticker /\ row'.marked = Ticker =>
          ((\A t \in Long : row'.price[t] > row.price[t]) => row'.longs > row.longs)]_vars
=============================================================================
