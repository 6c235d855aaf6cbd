---------------------------- MODULE Reconciler ----------------------------
(***************************************************************************)
(* reconcile (src/src/reconciler.py): from the two sources' holdings to    *)
(* target weights, and from those and the current weights to orders.       *)
(*                                                                         *)
(* A weight vector is exact: naturals over a common denominator.  The code *)
(* computes with floats and tolerances of 1e-9 and less, which the model   *)
(* has as equality; shorts are not in the executable basket.  Shares of    *)
(* the book in the constants are multiples of 1/Unit.                      *)
(***************************************************************************)
EXTENDS Integers, FiniteSets, FiniteSetsExt, Functions

CONSTANTS
    Ticker,
    Unit,            \* denominator of the constants
    SleeveTrump,     \* cfg.sleeve_trump
    SleeveLeopold,   \* cfg.sleeve_leopold
    TopN,            \* cfg.top_n_per_sleeve
    FloorPct,        \* cfg.min_position_floor_pct
    FloorUsd,        \* cfg.min_position_floor_usd
    Cap,             \* cfg.per_name_cap
    DriftPct,        \* cfg.drift_band_pct
    DriftUsd,        \* cfg.drift_band_usd
    Equities,        \* bound: the account's equity
    MaxTrump,        \* bound: source weight of a Trump holding
    MaxLeopold,      \* bound: source weight of a Leopold holding
    MaxCycle         \* bound: rebalances

ASSUME ReconcilerAssumption ==
    /\ IsFiniteSet(Ticker)
    /\ Unit \in Nat \ {0} /\ TopN \in Nat \ {0} /\ Equities \subseteq Nat \ {0}
    /\ SleeveTrump \in Nat /\ SleeveLeopold \in Nat /\ SleeveTrump + SleeveLeopold = Unit
    /\ Cap \in 1 .. Unit /\ FloorPct \in 0 .. Unit /\ DriftPct \in 0 .. Unit
    /\ FloorUsd \in Nat /\ DriftUsd \in Nat
    /\ MaxTrump \in Nat /\ MaxLeopold \in Nat /\ MaxCycle \in Nat

VARIABLES
    trump, leopold,   \* source weights, 0 for a ticker that is not there
    equity,           \* sleeve_total_usd
    held,             \* current weights
    pc,               \* select, floor, cap, drift, execute, settled
    ws,               \* target weights
    passes,           \* iterations of the cap loop
    orders,           \* plan.orders: the tickers with an order
    cycles,
    \* history
    merged,           \* the weights the sleeves gave
    floored,          \* the weights the floor left
    same              \* the sources are those of the last rebalance

inputs == <<trump, leopold, equity>>
vars == <<inputs, held, pc, ws, passes, orders, cycles, merged, floored, same>>

-----------------------------------------------------------------------------
Gcd[p \in Nat \X Nat] == IF p[2] = 0 THEN p[1] ELSE Gcd[<<p[2], p[1] % p[2]>>]

Total(f) == MapThenSumSet(LAMBDA t : f[t], DOMAIN f)

\* The weight of each name over a common denominator, in lowest terms.
Vector(num, den) ==
    LET g == FoldFunction(LAMBDA m, n : Gcd[<<m, n>>], den, num)
    IN  [num |-> [t \in Ticker |-> num[t] \div g], den |-> den \div g]

Nothing == [num |-> [t \in Ticker |-> 0], den |-> 1]

\* One name's weight, in lowest terms.
Fraction(n, d) == [num |-> n \div Gcd[<<d, n>>], den |-> d \div Gcd[<<d, n>>]]

Targets(w) == {t \in Ticker : w.num[t] > 0}

TypeOK ==
    /\ trump \in [Ticker -> 0 .. MaxTrump]
    /\ leopold \in [Ticker -> 0 .. MaxLeopold]
    /\ equity \in Equities
    /\ \A t \in Ticker : held[t].den > 0 /\ held[t].num \in 0 .. held[t].den
    /\ pc \in {"select", "floor", "cap", "drift", "execute", "settled"}
    /\ \A w \in {ws, merged, floored} : w.den > 0 /\ Total(w.num) <= w.den
    /\ passes \in Nat
    /\ orders \subseteq Ticker
    /\ cycles \in 0 .. MaxCycle
    /\ same \in BOOLEAN

\* The book may start with names of which the sources know nothing.
Init ==
    /\ trump \in [Ticker -> 0 .. MaxTrump]
    /\ leopold \in [Ticker -> 0 .. MaxLeopold]
    /\ equity \in Equities
    /\ held \in {[t \in Ticker |-> IF t \in old THEN [num |-> 1, den |-> 2]
                                              ELSE [num |-> 0, den |-> 1]] :
                    old \in {s \in SUBSET Ticker : Cardinality(s) <= 1}}
    /\ pc = "select"
    /\ ws = Nothing
    /\ passes = 0
    /\ orders = {}
    /\ cycles = 0
    /\ merged = Nothing
    /\ floored = Nothing
    /\ same = FALSE

-----------------------------------------------------------------------------
(***************************************************************************)
(* Target weights.                                                         *)
(***************************************************************************)

\* select_top_n: ties are broken by the order of the rows, which is fixed.
Top(raw) ==
    LET present == {t \in Ticker : raw[t] > 0}
        size == IF Cardinality(present) < TopN THEN Cardinality(present) ELSE TopN
    IN  CHOOSE s \in SUBSET present :
            /\ Cardinality(s) = size
            /\ \A t \in s, u \in present \ s : raw[t] >= raw[u]

\* Mutant: each sleeve is normalised to the whole book.
SleeveWhole(raw, alloc) ==
    LET top == Top(raw)
        total == Total([t \in top |-> raw[t]])
    IN  [num |-> [t \in Ticker |-> IF t \in top THEN raw[t] ELSE 0],
         den |-> (IF total = 0 THEN 1 ELSE total)]

\* normalize_sleeve: a sleeve without holdings leaves its share in cash.
Sleeve(raw, alloc) ==
    LET top == Top(raw)
        total == Total([t \in top |-> raw[t]])
    IN  [num |-> [t \in Ticker |-> IF t \in top THEN alloc * raw[t] ELSE 0],
         den |-> Unit * (IF total = 0 THEN 1 ELSE total)]

\* merge_sleeves
Merge(v, w) ==
    Vector([t \in Ticker |-> v.num[t] * w.den + w.num[t] * v.den], v.den * w.den)

Select ==
    /\ pc = "select"
    /\ ws' = Merge(Sleeve(trump, SleeveTrump), Sleeve(leopold, SleeveLeopold))
    /\ merged' = ws'
    /\ pc' = "floor"
    /\ passes' = 0
    /\ UNCHANGED <<inputs, held, orders, cycles, floored, same>>

\* Mutant: the dollar floor is left out.
AboveFloorPct(w, t) ==
    w.num[t] * Unit * Unit >= FloorPct * (SleeveTrump + SleeveLeopold) * w.den

\* Both floors: a part of the sleeves, and an amount.
AboveFloor(w, t) ==
    /\ w.num[t] * Unit * Unit >= FloorPct * (SleeveTrump + SleeveLeopold) * w.den
    /\ w.num[t] * equity >= FloorUsd * w.den

\* What the floor drops goes to the names it leaves, in proportion.
Floored(w) ==
    LET kept == {t \in Targets(w) : AboveFloor(w, t)}
        left == Total([t \in kept |-> w.num[t]])
    IN  IF left = 0 THEN Nothing
        ELSE Vector([t \in Ticker |-> IF t \in kept THEN w.num[t] * Total(w.num) ELSE 0],
                    w.den * left)

ApplyFloor ==
    /\ pc = "floor"
    /\ ws' = Floored(ws)
    /\ floored' = ws'
    /\ pc' = "cap"
    /\ UNCHANGED <<inputs, held, passes, orders, cycles, merged, same>>

OverCap(w) == {t \in Ticker : w.num[t] * Unit > Cap * w.den}

\* Mutant: names at the cap receive as well.
BelowCapOrAt(w) == {t \in Targets(w) : w.num[t] * Unit <= Cap * w.den}

BelowCap(w) == {t \in Targets(w) : w.num[t] * Unit < Cap * w.den}

\* Mutant: what a pass pushes over the cap is clamped at once.
SpreadClamped(w) ==
    LET cap == Cap * w.den
        excess == Total([t \in OverCap(w) |-> w.num[t] * Unit - cap])
        rest == Total([t \in BelowCap(w) |-> w.num[t] * Unit])
        scale == IF rest = 0 THEN 1 ELSE rest
    IN  Vector([t \in Ticker |->
                   IF t \in BelowCap(w) /\ w.num[t] * Unit * (rest + excess) < cap * scale
                   THEN w.num[t] * Unit * (rest + excess)
                   ELSE IF w.num[t] = 0 THEN 0 ELSE cap * scale],
               w.den * Unit * scale)

\* Mutant: the excess is shared out equally.
SpreadEqually(w) ==
    LET cap == Cap * w.den
        excess == Total([t \in OverCap(w) |-> w.num[t] * Unit - cap])
        n == Cardinality(BelowCap(w))
        scale == IF n = 0 THEN 1 ELSE n
    IN  Vector([t \in Ticker |->
                   IF t \in BelowCap(w) THEN w.num[t] * Unit * n + excess
                   ELSE IF w.num[t] = 0 THEN 0 ELSE cap * scale],
               w.den * Unit * scale)

\* One pass: names over the cap come down to it, and the excess goes to those
\* below it in proportion; without any of them it stays in cash.
Spread(w) ==
    LET cap == Cap * w.den
        excess == Total([t \in OverCap(w) |-> w.num[t] * Unit - cap])
        rest == Total([t \in BelowCap(w) |-> w.num[t] * Unit])
        scale == IF rest = 0 THEN 1 ELSE rest
    IN  Vector([t \in Ticker |->
                   IF t \in BelowCap(w) THEN w.num[t] * Unit * (rest + excess)
                   ELSE IF w.num[t] = 0 THEN 0 ELSE cap * scale],
               w.den * Unit * scale)

CapPass ==
    /\ pc = "cap"
    /\ OverCap(ws) # {}
    /\ ws' = Spread(ws)
    /\ passes' = passes + 1
    /\ pc' = IF BelowCap(ws) = {} THEN "drift" ELSE "cap"
    /\ UNCHANGED <<inputs, held, orders, cycles, merged, floored, same>>

CapDone ==
    /\ pc = "cap"
    /\ OverCap(ws) = {}
    /\ pc' = "drift"
    /\ UNCHANGED <<inputs, held, ws, passes, orders, cycles, merged, floored, same>>

-----------------------------------------------------------------------------
(***************************************************************************)
(* Orders.                                                                 *)
(***************************************************************************)

\* compute_drift_orders: |target - current| over the band, in weight or dollars.
Drifted(t) ==
    LET d == ws.num[t] * held[t].den - held[t].num * ws.den
        size == (IF d < 0 THEN - d ELSE d)
        den == ws.den * held[t].den
    IN  size * Unit > DriftPct * den \/ size * equity > DriftUsd * den

\* Mutant: an exit for every name the floor dropped, held or not.
ExitsUnheld == {t \in Ticker : held[t].num > 0 \/ merged.num[t] > 0} \ Targets(ws)

Exits == {t \in Ticker : held[t].num > 0} \ Targets(ws)

Plan ==
    /\ pc = "drift"
    /\ orders' = {t \in Targets(ws) : Drifted(t)} \cup Exits
    /\ pc' = "execute"
    /\ UNCHANGED <<inputs, held, ws, passes, cycles, merged, floored, same>>

\* Every order of the plan is filled at the weight it was meant for.
ExecutePlan ==
    /\ pc = "execute"
    /\ held' = [t \in Ticker |->
                   IF t \in orders THEN Fraction(ws.num[t], ws.den) ELSE held[t]]
    /\ pc' = "settled"
    /\ UNCHANGED <<inputs, ws, passes, orders, cycles, merged, floored, same>>

\* The next rebalance, of the same sources or of a new 13F.
NextCycle ==
    /\ pc = "settled" /\ cycles < MaxCycle
    /\ cycles' = cycles + 1
    /\ leopold' \in {leopold} \cup [Ticker -> 0 .. MaxLeopold]
    /\ same' = (leopold' = leopold)
    /\ pc' = "select"
    /\ orders' = {}
    /\ UNCHANGED <<trump, equity, held, ws, passes, merged, floored>>

Next ==
    \/ Select \/ ApplyFloor \/ CapPass \/ CapDone
    \/ Plan \/ ExecutePlan \/ NextCycle

Spec == Init /\ [][Next]_vars

-----------------------------------------------------------------------------
(***************************************************************************)
(* Properties.                                                             *)
(***************************************************************************)

AtCap(w, t) == w.num[t] * Unit = Cap * w.den

\* The cap's iteration computes what it is meant to, the fixed point: no name
\* is over the cap; names below it keep their proportions, all raised by one
\* factor; and a name at the cap would be no lower by that factor.
CapIsWaterFill ==
    pc = "drift" =>
        /\ \A t \in Ticker : ws.num[t] * Unit <= Cap * ws.den
        /\ \A t \in BelowCap(ws), u \in Targets(ws) :
               /\ ws.num[t] * floored.den >= floored.num[t] * ws.den
               /\ IF AtCap(ws, u)
                  THEN floored.num[u] * ws.num[t] >= ws.num[u] * floored.num[t]
                  ELSE floored.num[u] * ws.num[t] = ws.num[u] * floored.num[t]

\* "No mid-pass clamp that leaks weight": the cap moves weight, adds none and
\* loses none but for what is left when every name is at the cap.
NoWeightLeaks ==
    pc = "drift" =>
        /\ Total(ws.num) * floored.den <= Total(floored.num) * ws.den
        /\ \/ Total(ws.num) * floored.den = Total(floored.num) * ws.den
           \/ \A t \in Targets(floored) : AtCap(ws, t)

\* The fixed point is reached after one pass per name, far from max_iter.
CapConverges == passes <= Cardinality(Targets(floored))

\* Nobody gets an order for a position below either floor: redistribution and
\* cap leave every name that survived the floor above it, if the cap is.
FloorSurvivorsStay ==
    pc = "drift" /\ Cap >= FloorPct /\ Cap * equity >= FloorUsd * Unit =>
        \A t \in Targets(ws) :
            /\ ws.num[t] * Unit >= FloorPct * ws.den
            /\ ws.num[t] * equity >= FloorUsd * ws.den

\* An executed rebalance leaves nothing to do for the next one.
RebalanceSettles == pc = "execute" /\ same => orders = {}

\* "2% of sleeve must survive (sleeve-relative floor)": a selected name with
\* the floor's part of its own sleeve, and the floor's amount, is kept.
SleeveFloorHonoured ==
    pc = "drift" =>
        \A t \in Ticker :
            \A side \in {Sleeve(trump, SleeveTrump), Sleeve(leopold, SleeveLeopold)} :
                /\ side.num[t] > 0
                /\ side.num[t] * Unit >= FloorPct * Total(side.num)
                /\ side.num[t] * equity >= FloorUsd * side.den
                => t \in Targets(ws)
=============================================================================
