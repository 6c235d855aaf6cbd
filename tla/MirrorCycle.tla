--------------------------- MODULE MirrorCycle ---------------------------
(***************************************************************************)
(* The event-driven cycle: run_cycle (src/src/mirror_agent.py) as driven   *)
(* by live_broker/run_live.py, with the two sources it polls and the files *)
(* they keep: LeopoldSource's 13F cache, TrumpSource's disclosure cache,   *)
(* the catalyst tags and the operator's approvals.                         *)
(*                                                                         *)
(* Each fetch is a step of its own: a feed may publish, or fail, between   *)
(* the fetch that finds a filing new and the one that reads it.  A         *)
(* position is a ticker that is held or not; weights only matter through   *)
(* the names a plan drops (top-N and floor) or leaves alone (drift band).  *)
(* What execute_plan does with a plan is the subject of Executor: here any *)
(* part of the plan may come true.                                         *)
(***************************************************************************)
EXTENDS Integers

CONSTANTS
    Ticker,
    TrumpDisabled,  \* cfg.disable_trump_sleeve; its source then serves a fixture
    Events,         \* what may happen besides filings and feed failures
    MaxFiling,      \* bound: 13F filings
    MaxDisclosure   \* bound: Trump disclosures

AllEvents ==
    {"dry",      \* a run without --execute
     "force",    \* a cycle that ignores the caches (run_demo's first)
     "kill",     \* the KILL_SWITCH file appears
     "crash",    \* the process dies: a kill, or the broker's snapshot raises
     "torn",     \* and leaves a truncated cache file
     "garble",   \* a 13F whose table cannot be parsed, or maps to no ticker
     "short"}    \* a 13F with puts

ASSUME EventsAssumption ==
    /\ TrumpDisabled \in BOOLEAN
    /\ Events \subseteq AllEvents
    /\ MaxFiling \in Nat \ {0}
    /\ MaxDisclosure \in Nat \ {0}

VARIABLES
    \* the world
    sec,        \* the latest 13F on EDGAR
    oge,        \* the latest Trump disclosure
    killed,     \* the KILL_SWITCH file exists
    held,       \* the tickers truleo holds
    \* files
    leop,       \* leopold_13f_cache.json
    trump,      \* trump_disclosure_cache.json
    tags,       \* catalyst_cache: "none", or the verdict "yes" or "no"
    approved,   \* tickers with a catalyst_approved event
    \* the process
    pc,         \* phase of run_cycle
    run,        \* its flags: dry (no --execute) and force
    news,       \* leop_new and trump_new
    basket,     \* leop_basket
    status,     \* trump_status
    raw,        \* trump_raw: the carried basket; the disclosed one in phase "tag"
    plan,       \* plan.orders: exits, and adjustments of targets
    small,      \* targets the top-N selection or the floor has dropped
    \* history
    handed,     \* 13Fs a run with --execute has planned for and handed over
    accepted    \* names the last completed verified cycle accepted

files == <<leop, trump, tags, approved>>
process == <<pc, run, news, basket, status, raw, plan, small>>
history == <<handed, accepted>>
vars == <<sec, oge, killed, held, files, process, history>>

-----------------------------------------------------------------------------
Names == SUBSET Ticker

Filings == [acc : 0 .. MaxFiling, longs : Names, shorts : Names]

NoFiling == [acc |-> 0, longs |-> {}, shorts |-> {}]

Disclosures == [id : 0 .. MaxDisclosure, names : Names]

NoDisclosure == [id |-> 0, names |-> {}]

NoPlan == [exits |-> {}, adjust |-> {}]

NoNews == [leop |-> FALSE, trump |-> FALSE]

Live == [dry |-> FALSE, force |-> FALSE]

TypeOK ==
    /\ sec \in Filings /\ leop \in Filings /\ basket \in Filings
    /\ oge \in Disclosures /\ trump \in Disclosures
    /\ killed \in BOOLEAN
    /\ held \in Names /\ approved \in Names /\ raw \in Names
    /\ small \in Names /\ accepted \in Names
    /\ tags \in [Ticker -> {"none", "yes", "no"}]
    /\ pc \in {"off", "gate", "quiet", "basket", "trump", "tag", "carry",
               "plan", "execute", "end"}
    /\ run \in [dry : BOOLEAN, force : BOOLEAN]
    /\ news \in [leop : BOOLEAN, trump : BOOLEAN]
    /\ status \in {"no_update", "disabled", "verified", "hold"}
    /\ plan \in [exits : Names, adjust : Names]
    /\ handed \subseteq 0 .. MaxFiling

\* A 13F as EDGAR may publish it; the two sides may share a ticker.
Published(n) ==
    [acc : {n}, longs : Names \ {{}},
     shorts : IF "short" \in Events THEN Names ELSE {{}}]

\* truleo starts with what the seed adopted and without any cache.
Init ==
    /\ sec \in Published(1)
    /\ oge \in [id : {1}, names : Names \ {{}}]
    /\ killed = FALSE
    /\ held \in Names
    /\ leop = NoFiling
    /\ trump = NoDisclosure
    /\ tags = [t \in Ticker |-> "none"]
    /\ approved = {}
    /\ pc = "off"
    /\ run = Live
    /\ news = NoNews
    /\ basket = NoFiling
    /\ status = "no_update"
    /\ raw = {}
    /\ plan = NoPlan
    /\ small = {}
    /\ handed = {}
    /\ accepted = {}

-----------------------------------------------------------------------------
(***************************************************************************)
(* The world.                                                              *)
(***************************************************************************)

Publish ==
    /\ sec.acc < MaxFiling
    /\ sec' \in Published(sec.acc + 1)
    /\ UNCHANGED <<oge, killed, held, files, process, history>>

Disclose ==
    /\ ~ TrumpDisabled
    /\ oge.id < MaxDisclosure
    /\ oge' \in [id : {oge.id + 1}, names : Names]
    /\ UNCHANGED <<sec, killed, held, files, process, history>>

\* approve: any ticker, at any time, and for good.
Approve(t) ==
    /\ t \notin approved
    /\ approved' = approved \cup {t}
    /\ UNCHANGED <<sec, oge, killed, held, leop, trump, tags, process, history>>

SetKill ==
    /\ "kill" \in Events
    /\ killed' = ~ killed
    /\ UNCHANGED <<sec, oge, held, files, process, history>>

-----------------------------------------------------------------------------
(***************************************************************************)
(* The feeds.                                                              *)
(***************************************************************************)

\* Mutant: a failing feed is an empty 13F.
FallbackEmpty == [acc |-> leop.acc + 1, longs |-> {}, shorts |-> {}]

\* Mutant: a failing feed is no 13F at all, whatever the cache has.
FallbackNothing == NoFiling

\* get_latest_13f when EDGAR does not answer: the cached filing, if there is
\* one with holdings, and otherwise nothing.
Fallback == IF leop.longs \cup leop.shorts # {} THEN leop ELSE NoFiling

Latest13F ==
    {sec, Fallback} \cup
    (IF "garble" \in Events THEN {[sec EXCEPT !.longs = {}, !.shorts = {}]} ELSE {})

\* fetch_aggregator_latest: the id it claims, 0 when it does not answer.  The
\* fixture of a disabled source always answers.
Claims == IF TrumpDisabled THEN {oge.id} ELSE {oge.id, 0}

-----------------------------------------------------------------------------
(***************************************************************************)
(* One process, one cycle after the other.                                 *)
(***************************************************************************)

\* run_live refuses to start an executing run while the switch is on.
Start ==
    /\ pc = "off"
    /\ \E d \in (IF "dry" \in Events THEN BOOLEAN ELSE {FALSE}) :
        /\ ~ (killed /\ ~ d)
        /\ run' = [dry |-> d, force |-> FALSE]
    /\ pc' = "gate"
    /\ UNCHANGED <<sec, oge, killed, held, files, news, basket, status, raw, plan,
                   small, history>>

\* Is there anything new?  Two fetches, each of which may fail.
GateOn(latest, claim, force) ==
    LET new == [leop |-> force \/ (latest.acc # 0 /\ latest.acc # leop.acc),
                trump |-> force \/ (claim # 0 /\ claim # trump.id)]
    IN  /\ pc = "gate"
        /\ news' = new
        /\ run' = [run EXCEPT !.force = force]
        /\ pc' = IF new.leop \/ new.trump THEN "basket" ELSE "quiet"
        /\ UNCHANGED <<sec, oge, killed, held, files, basket, status, raw, plan,
                       small, history>>

Gate ==
    \E latest \in Latest13F, claim \in Claims,
       force \in (IF "force" \in Events THEN BOOLEAN ELSE {FALSE}) :
        GateOn(latest, claim, force)

\* Mutant: a new filing is remembered when it is first seen.
GetBasketEarly(latest) ==
    IF latest = NoFiling THEN basket' = NoFiling /\ UNCHANGED leop
    ELSE /\ leop' = sec
         /\ basket' = IF latest.acc = leop.acc THEN leop ELSE latest

\* Mutant: the rows of the last filing are not cleared.
GetBasketMerged(latest) ==
    IF latest = NoFiling THEN basket' = NoFiling /\ UNCHANGED leop
    ELSE /\ basket' = latest
         /\ leop' = [latest EXCEPT !.longs = @ \cup leop.longs]

\* get_current_basket: a filing that is not the cached one replaces the cache
\* here, before anything is planned or traded.
GetBasket(latest) ==
    IF latest = NoFiling THEN basket' = NoFiling /\ UNCHANGED leop
    ELSE IF ~ run.force /\ latest.acc = leop.acc THEN basket' = leop /\ UNCHANGED leop
    ELSE basket' = latest /\ leop' = latest

BasketFrom(latest) ==
    /\ pc = "basket"
    /\ GetBasket(latest)
    /\ pc' = "trump"
    /\ UNCHANGED <<sec, oge, killed, held, trump, tags, approved, run, news, status,
                   raw, plan, small, history>>

ReadBasket == \E latest \in Latest13F : BasketFrom(latest)

\* get_last_verified_raw
Carried == trump.names

TrumpCarries(st) ==
    /\ status' = st
    /\ raw' = Carried
    /\ pc' = "plan"
    /\ UNCHANGED trump

\* get_raw_disclosed found a disclosure that the official filing confirms: its
\* names are saved as they are, before the catalyst filter has seen them.
TrumpVerifies ==
    /\ status' = "verified"
    /\ raw' = oge.names
    /\ trump' = oge
    /\ pc' = "tag"

\* The aggregator names the cached disclosure after all: its names go through
\* the filter again.
TrumpRefilters ==
    /\ status' = "verified"
    /\ raw' = trump.names
    /\ pc' = "tag"
    /\ UNCHANGED trump

\* The basket of a disabled sleeve.
Disabled == {}

ReadTrump ==
    /\ pc = "trump"
    /\ IF TrumpDisabled
       THEN status' = "disabled" /\ raw' = Disabled /\ pc' = "plan" /\ UNCHANGED trump
       ELSE IF ~ news.trump
       THEN TrumpCarries("no_update")
       ELSE \E claim \in Claims :
            IF claim = 0 THEN TrumpCarries("hold")
            ELSE IF ~ run.force /\ claim = trump.id THEN TrumpRefilters
            ELSE TrumpVerifies \/ TrumpCarries("hold")
    /\ UNCHANGED <<sec, oge, killed, held, leop, tags, approved, run, news, basket,
                   plan, small, history>>

\* Mutant: a pending name counts as accepted.
AcceptedUnapproved(names, verdicts) == {t \in names : verdicts[t] = "yes"}

AcceptedOf(names, verdicts) == {t \in names : verdicts[t] = "yes" /\ t \in approved}

\* The verdicts of the classifier stay: a ticker's context never changes.  A
\* call that fails is a "no", and stays one.
Verdicts(names) ==
    {v \in [Ticker -> {"none", "yes", "no"}] :
        \A t \in Ticker :
            IF t \in names /\ tags[t] = "none" THEN v[t] # "none" ELSE v[t] = tags[t]}

\* filter_trump_holdings: the verdicts are stored before anything else is.
Filter ==
    /\ pc = "tag"
    /\ tags' \in Verdicts(raw)
    /\ raw' = AcceptedOf(raw, tags')
    /\ pc' = "carry"
    /\ UNCHANGED <<sec, oge, killed, held, leop, trump, approved, run, news, basket,
                   status, plan, small, history>>

\* update_last_verified_accepted, once the account could be read: only what
\* the filter accepted is carried from here on.
CarryAccepted ==
    /\ pc = "carry"
    /\ trump' = [trump EXCEPT !.names = raw]
    /\ accepted' = raw
    /\ pc' = "plan"
    /\ UNCHANGED <<sec, oge, killed, held, leop, tags, approved, run, news, basket,
                   status, raw, plan, small, handed>>

\* On a hold no order touches a name that only Trump's basket holds.
Frozen == IF status = "hold" THEN raw \ (basket.longs \cup basket.shorts) ELSE {}

\* The local variables of run_cycle go away.
Forget ==
    /\ news' = NoNews
    /\ basket' = NoFiling
    /\ status' = "no_update"
    /\ raw' = {}
    /\ plan' = NoPlan
    /\ small' = {}

\* reconcile, on one snapshot of the account; a plan without orders ends the
\* cycle.
Reconcile ==
    /\ pc = "plan"
    /\ \E dropped \in SUBSET (raw \cup basket.longs) :
        LET targets == (raw \cup basket.longs) \ dropped
        IN  \E drift \in SUBSET targets :
            LET orders == [exits |-> (held \ targets) \ Frozen,
                           adjust |-> drift \ Frozen]
            IN  IF orders = NoPlan
                THEN /\ pc' = "end"
                     /\ handed' = handed \cup {basket.acc}
                     /\ Forget
                ELSE /\ pc' = "execute"
                     /\ plan' = orders
                     /\ small' = dropped
                     /\ UNCHANGED <<handed, news, basket, status, raw>>
    /\ UNCHANGED <<sec, oge, killed, held, files, run, accepted>>

\* A dry run, and a kill switch, stop execute_plan before the first order.
Execute ==
    /\ pc = "execute"
    /\ IF run.dry \/ killed
       THEN UNCHANGED <<held, handed>>
       ELSE /\ \E out \in SUBSET plan.exits, in \in SUBSET plan.adjust :
                held' = (held \ out) \cup in
            /\ handed' = handed \cup {basket.acc}
    /\ pc' = "end"
    /\ Forget
    /\ UNCHANGED <<sec, oge, killed, files, run, accepted>>

\* The process ends after its last cycle.
EndCycle ==
    /\ pc \in {"quiet", "end"}
    /\ \/ pc' = "gate" /\ run' = [run EXCEPT !.force = FALSE]
       \/ pc' = "off" /\ run' = Live
    /\ UNCHANGED <<sec, oge, killed, held, files, news, basket, status, raw, plan,
                   small, history>>

\* A cache file that cannot be parsed is an empty one to the next process.
Crash ==
    /\ "crash" \in Events
    /\ pc # "off"
    /\ pc' = "off"
    /\ run' = Live
    /\ Forget
    /\ \/ UNCHANGED <<leop, trump>>
       \/ "torn" \in Events /\ leop' = NoFiling /\ UNCHANGED trump
       \/ "torn" \in Events /\ trump' = NoDisclosure /\ UNCHANGED leop
    /\ UNCHANGED <<sec, oge, killed, held, tags, approved, history>>

-----------------------------------------------------------------------------
Cycle ==
    \/ Gate \/ ReadBasket \/ ReadTrump \/ Filter \/ CarryAccepted \/ Reconcile \/ Execute \/ EndCycle

Next ==
    \/ Publish \/ Disclose \/ SetKill
    \/ \E t \in Ticker : Approve(t)
    \/ Start \/ Cycle \/ Crash

Spec == Init /\ [][Next]_vars

\* launchd starts a run every day, a run comes to its end, and a feed that is
\* asked again and again sometimes answers.
FairSpec ==
    /\ Spec
    /\ WF_vars(Start)
    /\ WF_vars(Cycle)
    /\ SF_vars(\E claim \in Claims : GateOn(sec, claim, FALSE))
    /\ SF_vars(BasketFrom(sec))

-----------------------------------------------------------------------------
(***************************************************************************)
(* Properties.                                                             *)
(***************************************************************************)

\* Nothing but a name of the 13F or an approved catalyst name is ever bought:
\* the carried basket is behind the filter in every cycle that plans with it.
OnlyApprovedBought ==
    pc = "execute" => plan.adjust \subseteq basket.longs \cup approved

\* The longs of the latest 13F, once truleo has read it or mirrored it, even if
\* nothing of it is left in the cache; until then those of the one before.
Followed == IF sec.acc \in handed \cup {leop.acc} THEN sec.longs ELSE leop.longs

\* No source_exit for want of data: a name that the 13F put into the book is only
\* sold when a later one drops it or when it has become too small ...
FilingKept == pc = "execute" => plan.exits \cap Followed \subseteq small

\* ... nor is a name that the last verified disclosure put into it.
NoSpuriousExit ==
    FilingKept /\ (pc = "execute" => plan.exits \cap accepted \subseteq small)

\* The files never mix two filings: what a cache holds under the identifier
\* of the latest filing are names of that filing, all of them (13F; unless the
\* table was unreadable) or those the filter left (disclosure).
CachesMatchFilings ==
    /\ leop.acc = sec.acc => leop = sec \/ leop = [sec EXCEPT !.longs = {}, !.shorts = {}]
    /\ trump.id = oge.id => trump.names \subseteq oge.names

\* An executing run goes quiet only when the 13F it has cached has been
\* planned for and handed to the executor.
QuietMeansMirrored ==
    pc = "quiet" /\ ~ run.dry => leop.acc \in handed \cup {0}

\* On a hold, no order touches a name that only the Trump sleeve is in.
HoldFreezesTrump ==
    pc = "execute" /\ status = "hold" =>
        (plan.exits \cup plan.adjust) \cap (raw \ basket.longs) = {}

\* Every 13F is planned for by an executing run, unless the next one comes.
FilingMirrored ==
    \A n \in 1 .. MaxFiling : sec.acc = n ~> n \in handed \/ sec.acc > n

\* A plan is only executed when one of the sources in use has a new filing.
OrdersOnlyOnNewFiling ==
    pc = "execute" => news.leop \/ (news.trump /\ ~ TrumpDisabled)

\* Without any 13F there is no rebalance.
NoRebalanceWithoutFiling == pc = "execute" => basket # NoFiling

\* An approved name of the latest disclosure comes into the carried basket.
ApprovedEntersBasket ==
    \A t \in Ticker :
        t \in approved /\ tags[t] = "yes" /\ t \in oge.names /\ trump.id = oge.id ~>
            t \in trump.names \/ trump.id # oge.id
=============================================================================
