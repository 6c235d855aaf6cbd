---------------------------- MODULE DailyMirror ----------------------------
(***************************************************************************)
(* The program as it is deployed, from a 13F to the shares it ends in:     *)
(* live_broker/run_live.py runs run_cycle (src/src/mirror_agent.py) with   *)
(* the Trump sleeve disabled, day after day, and execute_plan carries the  *)
(* plan out.  The broker, the ledger and the executor are those of         *)
(* Executor; this module adds the filings, the gate, and what reconcile    *)
(* makes of a filing and a snapshot.                                       *)
(*                                                                         *)
(* A share costs one unit of cash and prices stand still, so truleo's own  *)
(* NAV is what it started with, less what has no quote at the moment, and  *)
(* the weights of a filing times that NAV are a number of shares for each  *)
(* name.  The drift band (1% and $10) is narrower than one share.          *)
(***************************************************************************)
EXTENDS Executor, Functions

CONSTANTS
    NoFiling,   \* the trigger of a cycle without a 13F
    Goals,      \* the books a 13F may ask for
    OwnNav      \* own_nav of the ledger while every name has a quote

Sum(f) == FoldFunction(+, 0, f)

\* The weights of a 13F's names add up to at most one, and it has a name.
ASSUME MirrorAssumption ==
    /\ NoFiling \in NoneTrigger
    /\ Goals \subseteq {g \in [Ticker -> 0 .. MaxTarget] : Sum(g) \in 1 .. OwnNav}
    /\ NoShares \notin Goals
    /\ OwnNav \in Nat \ {0}

VARIABLES
    sec,        \* the latest 13F on EDGAR, or NoFiling
    weights,    \* weights[f]: the shares 13F f asks for, of a NAV of OwnNav
    leop,       \* the accession in leopold_13f_cache.json
    disclosed,  \* trump_disclosure_cache.json has the fixture's filing id
    nav         \* _cycle_own_nav

filingVars == <<sec, weights, leop, disclosed, nav>>
mirrorVars == <<vars, filingVars>>

-----------------------------------------------------------------------------
MirrorTypeOK ==
    /\ TypeOK
    /\ sec \in Trigger
    /\ weights \in [Trigger -> Goals \cup {NoShares}]
    /\ leop \in {NoFiling} \cup {f \in Trigger : weights[f] # NoShares}
    /\ disclosed \in BOOLEAN
    /\ nav \in 0 .. OwnNav

Unfiled == [f \in Trigger |-> NoShares]

\* truleo is the only tenant of the account, as run_live.py says it is.  The
\* data directory is new, or run_mirror.py has been tried in it before the
\* migration, with the Trump sleeve, and has left its caches there.
MirrorInit ==
    /\ Init
    /\ foreign = NoShares
    /\ Sum(bot) + bp = OwnNav
    /\ sec = NoFiling
    /\ \/ /\ disclosed = FALSE
          /\ leop = NoFiling
          /\ weights = Unfiled
       \/ /\ disclosed = TRUE
          /\ ledger = Absent
          /\ \E f \in Trigger \ {NoFiling}, g \in Goals :
               leop = f /\ weights = [Unfiled EXCEPT ![f] = g]
    /\ nav = OwnNav

Publish ==
    /\ \E f \in Trigger \ {NoFiling}, g \in Goals :
        /\ weights[f] = NoShares
        /\ sec' = f
        /\ weights' = [weights EXCEPT ![f] = g]
    /\ UNCHANGED <<vars, leop, disclosed, nav>>

-----------------------------------------------------------------------------
(***************************************************************************)
(* run_cycle, up to execute_plan.                                          *)
(***************************************************************************)

Seen == IF posCache = NoCache THEN Held ELSE posCache

\* What the positions outside V are worth to the snapshot: it counts those in
\* V, which have no quote, as nothing.
Priced(V) == [t \in Ticker |-> IF t \in V THEN 0 ELSE Seen[t]]

\* total_equity: positions and buying power, but not what has yet to settle.
\* An account worth nothing is given a tenth of a cent.
Equity(V) == LET e == Sum(Priced(V)) + bp IN IF e > 0 THEN e ELSE 1

\* Mutant: sized by the account's equity, as before the ledger had an own_nav.
TargetOfEquity(f, t) == (weights[f][t] * Equity({})) \div OwnNav

\* translate_weight_to_shares
Target(f, t) == (weights[f][t] * nav) \div OwnNav

\* compute_drift_orders: the weight of a target differs from the weight the
\* position has in the account, or a position is no target at all.
Drifted(f, t, V) ==
    IF weights[f][t] > 0
    THEN weights[f][t] * Equity(V) # Priced(V)[t] * OwnNav
    ELSE Priced(V)[t] > 0

Plan(f, V) == {t \in Ticker : Drifted(f, t, V)}

Records == [t \in Ticker |-> Owned(ledger, t)]

\* own_nav of a ledger with these records when the names in U have no quote.
NavWithout(records, U) == OwnNav - FoldFunctionOnSet(+, 0, records, U)

\* Mutant: the gate looks at the 13F feed alone.
GateOfLeopold == sec \notin {NoFiling, leop}

\* Nothing saves the fixture's id while the sleeve is disabled, so it is a new
\* disclosure every day unless an earlier run has saved it.
GateOpen == ~ disclosed \/ sec \notin {NoFiling, leop}

\* One cycle with basket f.  The snapshot and the ledger's NAV have rounds of
\* quotes of their own, in which the names in V and in U have none.
CycleWith(f) ==
    /\ pc = "idle" /\ ~ killed
    /\ IsSeeded(ledger)
    /\ GateOpen
    /\ leop' = f
    /\ \E V, U \in SUBSET Ticker :
        IF Plan(f, V) = {} THEN QuietCycle /\ nav' = OwnNav
        ELSE /\ StartCycle /\ trigger' = f /\ todo' = Plan(f, V)
             /\ nav' = NavWithout(Records, U)
    /\ UNCHANGED <<sec, weights, disclosed>>

\* The latest 13F: the cached one until EDGAR has one.
Latest == IF sec = NoFiling THEN leop ELSE sec

\* If the feed fails, the basket is the cached one.
RunCycle == \E f \in {Latest, leop} : CycleWith(f)

\* PASS 1 sizes an intent by the weights of the plan's filing.
Size(t) ==
    /\ pc = "build"
    /\ Target(trigger, t) \in 0 .. MaxTarget
    /\ BuildIntentTo(t, Target(trigger, t))
    /\ UNCHANGED filingVars

-----------------------------------------------------------------------------
RunPlan == CarryOut /\ UNCHANGED filingVars

Around ==
    /\ SeedLedger \/ EndProcess \/ QuoteRaises \/ Crash \/ Broker
    /\ UNCHANGED filingVars

MirrorNext ==
    \/ Publish \/ RunCycle \/ (\E t \in Ticker : Size(t)) \/ RunPlan \/ Around

MirrorSpec == MirrorInit /\ [][MirrorNext]_mirrorVars

\* The steps a day may fail to take, but not every day.
Prepared(t) == Size(t) /\ ready'[t] # 0

OrderTaken(t) == RunPlan /\ Accepted /\ order.tkr = t

OrderFilled(t) == Around /\ FillOrder /\ order.tkr = t

\* launchd starts a run every day and a run comes to its end; cash settles; a
\* feed, the quote of a name and its order succeed some day.
MirrorFairSpec ==
    /\ MirrorSpec
    /\ WF_mirrorVars(Around /\ SeedLedger)
    /\ WF_mirrorVars(RunPlan)
    /\ WF_mirrorVars(\E t \in Ticker : Size(t))
    /\ WF_mirrorVars(Around /\ BrokerWorks)
    /\ WF_mirrorVars(Around /\ Settle)
    /\ SF_mirrorVars(CycleWith(Latest))
    /\ \A t \in Ticker :
        SF_mirrorVars(Prepared(t)) /\ SF_mirrorVars(OrderTaken(t)) /\ SF_mirrorVars(OrderFilled(t))

-----------------------------------------------------------------------------
(***************************************************************************)
(* Properties.                                                             *)
(***************************************************************************)

\* What truleo has sold but not recorded yet.
SoldUnrecorded(t) ==
    (IF fills[t] < 0 THEN - fills[t] ELSE 0)
    + (IF pc = "poll" /\ order.tkr = t /\ order.qty < 0 THEN order.filled ELSE 0)

Promise ==
    INSTANCE Tracking WITH
        Nav <- OwnNav,
        NavOf <- NavWithout,
        goal <- weights[leop],
        priced <- nav,
        book <- bot,
        authority <- [t \in Ticker |-> Owned(ledger, t) - SoldUnrecorded(t)]

\* From filing to shares: every fill moves the book towards the 13F that was
\* adopted last, at the size that the NAV with a quote gives it, is covered by
\* the ledger, and stays within the target.
FollowsFiling == Promise!Spec

\* A quote that raises ends the day for every name, a buying power that cannot
\* be read ends it for every buy, and a position without a quote makes a plan
\* that leaves the filing.
Outage ==
    \/ QuoteRaises
    \/ ReadBuyingPower /\ Buys # {} /\ available' # bp
    \/ RunCycle /\ (nav' # OwnNav \/ todo' # Plan(leop', {}))

\* In a data directory without the fixture's id, a 13F ends up in the book,
\* through partial fills, cancellations, refusals, cash that has to settle, runs
\* that end in PASS 1 and feeds that fail, unless the next one comes, an outage
\* comes back again and again, or a buy that nobody confirmed holds the cash it
\* took.
FilingReachesBook ==
    ~ disclosed /\ <>[][~ Outage]_mirrorVars =>
        \A f \in Trigger \ {NoFiling} :
            sec = f ~> \/ leop = f /\ Promise!Settled
                       \/ sec # f
                       \/ \E t \in Ticker : bot[t] > Owned(ledger, t)

\* The same of any data directory.
FilingReachesBookAnyway ==
    <>[][~ Outage]_mirrorVars =>
        \A f \in Trigger \ {NoFiling} :
            sec = f ~> \/ leop = f /\ Promise!Settled
                       \/ sec # f
                       \/ \E t \in Ticker : bot[t] > Owned(ledger, t)

\* A filing is never undershot: no name is sold below what its 13F asks for.
NeverBelowFiling ==
    [][\A t \in Ticker : bot'[t] < bot[t] => bot'[t] >= weights[leop][t]]_mirrorVars
=============================================================================
