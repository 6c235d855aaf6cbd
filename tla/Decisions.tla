----------------------------- MODULE Decisions -----------------------------
(***************************************************************************)
(* What a verified disclosure of the Trump sleeve becomes when the live    *)
(* classifier is used (src/src/tagger.py): the verdict on every name, paid *)
(* from a daily budget (src/src/executor.py), the human approval, and the  *)
(* record of the decision in the graveyard (src/src/core/storage.py),      *)
(* which attribution reads.                                                *)
(*                                                                         *)
(* run_cycle gives the classifier no context, so a name has one verdict.   *)
(* A call with a usable answer costs one unit.  The names of a disclosure  *)
(* are classified and recorded one by one; the process may die in between, *)
(* and a day may end while it runs.                                        *)
(***************************************************************************)
EXTENDS Integers

CONSTANTS
    Ticker,
    Budget,      \* calls that CFG.max_budget_usd_per_day pays for
    MaxDay,      \* bound: days
    MaxFiling,   \* bound: disclosures
    MaxCrash     \* bound: processes that die

ASSUME DecisionsAssumption ==
    Budget \in Nat /\ MaxDay \in Nat /\ MaxFiling \in Nat /\ MaxCrash \in Nat

VARIABLES
    day,
    pc,         \* off, idle, filter, record
    spent,      \* _spent_today
    file,       \* budget.json
    verdict,    \* catalyst_cache
    approved,   \* names with a catalyst_approved event
    filing,     \* the verified disclosure, 0 for none
    carried,    \* the names the Trump source has cached for it
    todo,       \* names still to be classified, or to be recorded
    bucket,     \* what the filter has made of each name
    events,     \* catalyst_accept, _reject and _pending events
    paid,       \* history: calls with a usable answer today
    lost,       \* history: those budget.json has lost
    crashes

budgetVars == <<spent, file, paid, lost>>
filterVars == <<filing, carried, todo, bucket>>
vars == <<day, pc, budgetVars, verdict, approved, filterVars, events, crashes>>

-----------------------------------------------------------------------------
Buckets == {"accept", "reject", "pending"}

Undecided == [t \in Ticker |-> "none"]

\* A budget file that does not parse; it is of no day.
Torn == [day |-> -1, spent |-> 0]

Files == [day : 0 .. MaxDay, spent : 0 .. Budget] \cup {Torn}

TypeOK ==
    /\ day \in 0 .. MaxDay
    /\ pc \in {"off", "idle", "filter", "record"}
    /\ spent \in 0 .. Budget
    /\ file \in Files
    /\ verdict \in [Ticker -> {"none", "yes", "no", "failed"}]
    /\ approved \subseteq Ticker
    /\ filing \in 0 .. MaxFiling
    /\ carried \subseteq Ticker
    /\ todo \subseteq Ticker
    /\ bucket \in [Ticker -> Buckets \cup {"none"}]
    /\ events \subseteq [filing : 1 .. MaxFiling, tkr : Ticker, as : Buckets]
    /\ paid \in Nat /\ lost \in 0 .. paid
    /\ crashes \in 0 .. MaxCrash

Init ==
    /\ day = 0
    /\ pc = "off"
    /\ spent = 0
    /\ file = Torn
    /\ verdict = Undecided
    /\ approved = {}
    /\ filing = 0
    /\ carried = {}
    /\ todo = {}
    /\ bucket = Undecided
    /\ events = {}
    /\ paid = 0
    /\ lost = 0
    /\ crashes = 0

-----------------------------------------------------------------------------
(***************************************************************************)
(* The process, and the world around it.                                   *)
(***************************************************************************)

\* Mutant: every process starts with the whole budget.
LoadedNothing == 0

Loaded == IF file.day = day THEN file.spent ELSE 0

Start ==
    /\ pc = "off"
    /\ pc' = "idle"
    /\ spent' = Loaded
    /\ UNCHANGED <<day, file, paid, lost, verdict, approved, filterVars, events, crashes>>

\* The local variables of the process go away.
Quit ==
    /\ pc' = "off"
    /\ spent' = 0
    /\ todo' = {}
    /\ bucket' = Undecided
    /\ UNCHANGED <<day, approved, filing, carried, events>>

Stop ==
    /\ pc = "idle"
    /\ Quit
    /\ UNCHANGED <<file, paid, lost, verdict, crashes>>

Dies ==
    /\ pc \in {"filter", "record"}
    /\ crashes < MaxCrash
    /\ crashes' = crashes + 1
    /\ Quit

Crash == Dies /\ UNCHANGED <<file, paid, lost, verdict>>

\* What the process has counted so far is not reset at midnight.
Midnight ==
    /\ day < MaxDay
    /\ day' = day + 1
    /\ paid' = 0
    /\ lost' = 0
    /\ UNCHANGED <<pc, spent, file, verdict, approved, filterVars, events, crashes>>

Approve(t) ==
    /\ t \notin approved
    /\ approved' = approved \cup {t}
    /\ UNCHANGED <<day, pc, budgetVars, verdict, filterVars, events, crashes>>

-----------------------------------------------------------------------------
(***************************************************************************)
(* filter_trump_holdings.                                                  *)
(***************************************************************************)

Classify(names) ==
    /\ pc = "idle"
    /\ pc' = "filter"
    /\ todo' = names
    /\ carried' = names
    /\ UNCHANGED <<day, budgetVars, verdict, approved, bucket, events, crashes>>

\* A disclosure is verified; its names are cached before they are classified.
Disclose ==
    /\ filing < MaxFiling
    /\ filing' = filing + 1
    /\ \E names \in (SUBSET Ticker) \ {{}} : Classify(names)

\* The aggregator names the cached disclosure after all.
Refilter ==
    /\ carried # {}
    /\ Classify(carried)
    /\ UNCHANGED filing

\* Mutant: a name nobody has approved yet counts as one the filter rejects.
BucketWithoutPending(t, v) == IF v = "yes" /\ t \in approved THEN "accept" ELSE "reject"

BucketOf(t, v) ==
    IF v # "yes" THEN "reject" ELSE IF t \in approved THEN "accept" ELSE "pending"

Decide(t, v) ==
    /\ pc = "filter"
    /\ t \in todo
    /\ todo' = todo \ {t}
    /\ bucket' = [bucket EXCEPT ![t] = BucketOf(t, v)]
    /\ verdict' = [verdict EXCEPT ![t] = v]
    /\ UNCHANGED <<day, pc, approved, filing, carried, events, crashes>>

Cached(t) ==
    /\ verdict[t] # "none"
    /\ Decide(t, verdict[t])
    /\ UNCHANGED budgetVars

\* The budget is exhausted, there is no client, the call raises, or what it
\* returns has the wrong shape: not accepted, and stored like any verdict.
Fails(t) ==
    /\ verdict[t] = "none"
    /\ Decide(t, "failed")
    /\ UNCHANGED budgetVars

\* Mutant: the last call may exceed the budget.
CanSpendMore == spent <= Budget

CanSpend == spent + 1 <= Budget

\* record_spend writes what this process has counted under today's date.  A
\* verdict whose confidence is no number fails after it has been paid for.
Answers(t) ==
    /\ verdict[t] = "none"
    /\ CanSpend
    /\ \E v \in {"yes", "no", "failed"} : Decide(t, v)
    /\ spent' = spent + 1
    /\ file' = [day |-> day, spent |-> spent + 1]
    /\ paid' = paid + 1
    /\ UNCHANGED lost

\* The process dies after the verdict is stored: before the call is recorded
\* as spent, or while budget.json is being written.
AnswersAndDies(t) ==
    /\ pc = "filter" /\ t \in todo
    /\ verdict[t] = "none"
    /\ CanSpend
    /\ \E v \in {"yes", "no"} : verdict' = [verdict EXCEPT ![t] = v]
    /\ paid' = paid + 1
    /\ \/ lost' = lost + 1 /\ UNCHANGED file
       \/ lost' = paid + 1 /\ file' = Torn
    /\ Dies

EndFilter ==
    /\ pc = "filter"
    /\ todo = {}
    /\ pc' = "record"
    /\ todo' = carried
    /\ UNCHANGED <<day, budgetVars, verdict, approved, filing, carried, bucket, events,
                   crashes>>

-----------------------------------------------------------------------------
(***************************************************************************)
(* persist_decision, and what is carried from here on.                     *)
(***************************************************************************)

Record(t) ==
    /\ pc = "record"
    /\ t \in todo
    /\ todo' = todo \ {t}
    /\ events' = events \cup {[filing |-> filing, tkr |-> t, as |-> bucket[t]]}
    /\ UNCHANGED <<day, pc, budgetVars, verdict, approved, filing, carried, bucket,
                   crashes>>

CarryAccepted ==
    /\ pc = "record"
    /\ todo = {}
    /\ carried' = {t \in carried : bucket[t] = "accept"}
    /\ bucket' = Undecided
    /\ pc' = "idle"
    /\ UNCHANGED <<day, budgetVars, verdict, approved, filing, todo, events, crashes>>

Next ==
    \/ Start \/ Stop \/ Crash \/ Midnight
    \/ Disclose \/ Refilter
    \/ EndFilter \/ CarryAccepted
    \/ \E t \in Ticker :
        \/ Approve(t) \/ Cached(t) \/ Fails(t) \/ Answers(t) \/ AnswersAndDies(t)
        \/ Record(t)

Spec == Init /\ [][Next]_vars

-----------------------------------------------------------------------------
(***************************************************************************)
(* Properties.                                                             *)
(***************************************************************************)

\* Through restarts and midnights, the calls of a day that gave a usable
\* answer stay within the budget, but for those a process did not live to record.
BudgetHolds == paid <= Budget + lost

\* The record attribution reads never turns a name against its verdict, however
\* often a disclosure is filtered and whenever approval comes: the filter's
\* rejects are not names it liked, and what waits for approval is neither.
EventsMatchVerdicts ==
    \A e \in events :
        /\ e.as = "accept" => verdict[e.tkr] = "yes" /\ e.tkr \in approved
        /\ e.as = "pending" => verdict[e.tkr] = "yes"
        /\ e.as = "reject" => verdict[e.tkr] \in {"no", "failed"}

\* "Genuinely rejected (catalyst=False) go to rejected": a reject is a name
\* the classifier has been asked about and has turned down.
RejectsAreGenuine == \A e \in events : e.as = "reject" => verdict[e.tkr] = "no"
=============================================================================
