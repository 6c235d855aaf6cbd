--------------------------- MODULE DecisionsProofs ---------------------------
(***************************************************************************)
(* The properties of Decisions, for any set of names, any budget and any   *)
(* number of days, disclosures and crashes.                                *)
(***************************************************************************)
EXTENDS Decisions, TLAPS

-----------------------------------------------------------------------------
(***************************************************************************)
(* The invariants.                                                         *)
(***************************************************************************)

\* The names under way are the disclosure's, and those the filter is done with
\* are in a bucket: nothing else is ever recorded.
RunInv ==
    /\ carried # {} => filing > 0
    /\ pc \in {"filter", "record"} => filing > 0 /\ todo \subseteq carried
    /\ pc = "filter" => \A t \in carried \ todo : bucket[t] # "none"
    /\ pc = "record" => \A t \in carried : bucket[t] # "none"

\* What budget.json has lost is all that the day's count and its own may differ
\* by, and a process counts at least what it has loaded.
BudgetInv ==
    /\ paid - lost <= Loaded
    /\ pc # "off" => paid - lost <= spent

\* Putting a name into bucket b is what its verdict and its approval call for.
Agrees(t, b) ==
    /\ b = "accept" => verdict[t] = "yes" /\ t \in approved
    /\ b = "pending" => verdict[t] = "yes"
    /\ b = "reject" => verdict[t] \in {"no", "failed"}

\* A bucket agrees with its verdict before it is recorded.
BucketInv ==
    /\ \A t \in Ticker : Agrees(t, bucket[t])
    /\ EventsMatchVerdicts

IInv == TypeOK /\ RunInv /\ BudgetInv /\ BucketInv

-----------------------------------------------------------------------------
\* The invariant holds of a first day without a record.
LEMMA InitInv == Init => IInv
BY DecisionsAssumption
   DEF Init, IInv, TypeOK, RunInv, BudgetInv, BucketInv, Agrees, EventsMatchVerdicts, Undecided,
       Files, Torn, Loaded

\* A stored verdict never changes, and an approval is not taken back.
LEMMA VerdictsStay ==
    ASSUME TypeOK, [Next]_vars
    PROVE  /\ approved \subseteq approved'
           /\ \A t \in Ticker : verdict[t] # "none" => verdict'[t] = verdict[t]
<1>1. ASSUME NEW t \in Ticker, NEW v, Decide(t, v), v = verdict[t] \/ verdict[t] = "none"
      PROVE  /\ approved' = approved
             /\ \A s \in Ticker : verdict[s] # "none" => verdict'[s] = verdict[s]
    BY <1>1 DEF TypeOK, Decide
<1>2. ASSUME NEW t \in Ticker, Cached(t) \/ Fails(t) \/ Answers(t)
      PROVE  /\ approved' = approved
             /\ \A s \in Ticker : verdict[s] # "none" => verdict'[s] = verdict[s]
    BY <1>1, <1>2 DEF Cached, Fails, Answers
<1>3. ASSUME NEW t \in Ticker, AnswersAndDies(t)
      PROVE  /\ approved' = approved
             /\ \A s \in Ticker : verdict[s] # "none" => verdict'[s] = verdict[s]
    BY <1>3 DEF TypeOK, AnswersAndDies, Dies, Quit
<1>4. ASSUME NEW t \in Ticker, Approve(t) \/ Record(t)
      PROVE  approved \subseteq approved' /\ verdict' = verdict
    BY <1>4 DEF Approve, Record
<1>5. CASE \/ Start \/ Stop \/ Crash \/ Midnight \/ Disclose \/ Refilter \/ EndFilter
           \/ CarryAccepted \/ UNCHANGED vars
    BY <1>5 DEF Start, Stop, Crash, Dies, Quit, Midnight, Disclose, Refilter, Classify,
                EndFilter, CarryAccepted, vars
<1> QED
    BY <1>2, <1>3, <1>4, <1>5, Zenon DEF Next

\* What agreed with its verdict still does after a step.
LEMMA StillAgrees ==
    ASSUME TypeOK, [Next]_vars, NEW t \in Ticker, NEW b, Agrees(t, b)
    PROVE  Agrees(t, b)'
BY VerdictsStay DEF Agrees

-----------------------------------------------------------------------------
(***************************************************************************)
(* Every step keeps every part of the invariant.                           *)
(***************************************************************************)

\* The state keeps its types: no call exceeds the budget, and what is recorded
\* comes from a disclosure and from a bucket.
LEMMA TypeStep ==
    ASSUME TypeOK, RunInv, [Next]_vars
    PROVE  TypeOK'
<1> USE DecisionsAssumption DEF TypeOK
<1>1. CASE Start
    <2>1. Loaded \in 0 .. Budget
        BY DEF Loaded, Files, Torn
    <2> QED
        BY <1>1, <2>1 DEF Start, filterVars
<1>2. CASE Stop \/ Crash
    BY <1>2 DEF Stop, Crash, Dies, Quit, Undecided
<1>3. CASE Midnight
    BY <1>3 DEF Midnight, filterVars
<1>4. CASE Disclose \/ Refilter
    BY <1>4 DEF Disclose, Refilter, Classify, budgetVars
<1>5. CASE EndFilter \/ CarryAccepted
    BY <1>5 DEF EndFilter, CarryAccepted, Undecided, budgetVars
<1>6. ASSUME NEW t \in Ticker, Approve(t) PROVE TypeOK'
    BY <1>6 DEF Approve, budgetVars, filterVars
<1>7. ASSUME NEW t \in Ticker, NEW v \in {"yes", "no", "failed"}, Decide(t, v)
      PROVE  /\ todo' \subseteq Ticker
             /\ bucket' \in [Ticker -> Buckets \cup {"none"}]
             /\ verdict' \in [Ticker -> {"none", "yes", "no", "failed"}]
             /\ UNCHANGED <<day, pc, approved, filing, carried, events, crashes>>
    BY <1>7 DEF Decide, BucketOf, Buckets
<1>8. ASSUME NEW t \in Ticker, Cached(t) \/ Fails(t) PROVE TypeOK'
    BY <1>7, <1>8 DEF Cached, Fails, budgetVars
<1>9. ASSUME NEW t \in Ticker, Answers(t) PROVE TypeOK'
    <2>1. spent' \in 0 .. Budget /\ file' \in Files
        BY <1>9 DEF Answers, CanSpend, Files
    <2>2. paid' \in Nat /\ lost' \in 0 .. paid'
        BY <1>9 DEF Answers
    <2> QED
        BY <1>7, <1>9, <2>1, <2>2 DEF Answers
<1>10. ASSUME NEW t \in Ticker, AnswersAndDies(t) PROVE TypeOK'
    BY <1>10 DEF AnswersAndDies, Dies, Quit, Undecided, Files
<1>11. ASSUME NEW t \in Ticker, Record(t) PROVE TypeOK'
    <2>1. /\ filing \in 1 .. MaxFiling /\ bucket[t] \in Buckets
          /\ events' = events \cup {[filing |-> filing, tkr |-> t, as |-> bucket[t]]}
        BY <1>11 DEF Record, RunInv
    <2>2. events' \subseteq [filing : 1 .. MaxFiling, tkr : Ticker, as : Buckets]
        BY <2>1
    <2> QED
        BY <1>11, <2>2 DEF Record, budgetVars
<1>12. CASE UNCHANGED vars
    BY <1>12 DEF vars, budgetVars, filterVars
<1> QED
    BY <1>1, <1>2, <1>3, <1>4, <1>5, <1>6, <1>8, <1>9, <1>10, <1>11, <1>12, Zenon DEF Next

\* Only the filter takes names off its list, and only into a bucket.
LEMMA RunStep ==
    ASSUME TypeOK, RunInv, [Next]_vars
    PROVE  RunInv'
<1> USE DEF TypeOK, RunInv
<1>1. CASE Start \/ Stop \/ Crash \/ Midnight
    BY <1>1 DEF Start, Stop, Crash, Dies, Quit, Midnight, filterVars
<1>2. CASE Disclose \/ Refilter
    BY <1>2, DecisionsAssumption DEF Disclose, Refilter, Classify
<1>3. CASE EndFilter
    BY <1>3 DEF EndFilter
<1>4. CASE CarryAccepted
    BY <1>4 DEF CarryAccepted
<1>5. ASSUME NEW t \in Ticker, Approve(t) PROVE RunInv'
    BY <1>5 DEF Approve, filterVars
<1>6. ASSUME NEW t \in Ticker, NEW v, Decide(t, v) PROVE RunInv'
    BY <1>6 DEF Decide, BucketOf
<1>7. ASSUME NEW t \in Ticker, Cached(t) \/ Fails(t) \/ Answers(t) PROVE RunInv'
    BY <1>6, <1>7 DEF Cached, Fails, Answers
<1>8. ASSUME NEW t \in Ticker, AnswersAndDies(t) PROVE RunInv'
    BY <1>8 DEF AnswersAndDies, Dies, Quit
<1>9. ASSUME NEW t \in Ticker, Record(t) PROVE RunInv'
    BY <1>9 DEF Record
<1>10. CASE UNCHANGED vars
    BY <1>10 DEF vars, filterVars
<1> QED
    BY <1>1, <1>2, <1>3, <1>4, <1>5, <1>7, <1>8, <1>9, <1>10, Zenon DEF Next

\* A process writes what it has counted, and that includes what it has loaded.
LEMMA BudgetStep ==
    ASSUME TypeOK, BudgetInv, [Next]_vars
    PROVE  BudgetInv'
<1> USE DecisionsAssumption DEF TypeOK, BudgetInv
<1>1. file.day \in Int /\ file.spent \in 0 .. Budget
    BY DEF Files, Torn
<1>2. ASSUME UNCHANGED <<day, file, paid, lost>>,
             pc' = "off" \/ (pc # "off" /\ spent' = spent)
      PROVE  BudgetInv'
    BY <1>2 DEF Loaded
<1>3. CASE Start
    BY <1>3 DEF Start, Loaded
<1>4. CASE Midnight
    BY <1>1, <1>4 DEF Midnight, Loaded
<1>5. CASE Stop \/ Crash
    BY <1>5 DEF Stop, Crash, Dies, Quit, Loaded
<1>6. CASE Disclose \/ Refilter \/ EndFilter \/ CarryAccepted
    BY <1>2, <1>6, Zenon DEF Disclose, Refilter, Classify, EndFilter, CarryAccepted, budgetVars
<1>7. ASSUME NEW t \in Ticker, Approve(t) PROVE BudgetInv'
    BY <1>7 DEF Approve, budgetVars, Loaded
<1>8. ASSUME NEW t \in Ticker, Cached(t) \/ Fails(t) \/ Record(t) PROVE BudgetInv'
    BY <1>2, <1>8 DEF Cached, Fails, Record, Decide, budgetVars
<1>9. ASSUME NEW t \in Ticker, Answers(t) PROVE BudgetInv'
    <2>1. /\ paid - lost <= spent /\ day' = day /\ pc' = pc /\ pc = "filter"
        BY <1>9 DEF Answers, Decide
    <2>2. paid' - lost' <= spent' /\ file'.day = day' /\ file'.spent = spent'
        BY <1>9, <2>1 DEF Answers
    <2> QED
        BY <2>1, <2>2 DEF Loaded
<1>10. ASSUME NEW t \in Ticker, AnswersAndDies(t) PROVE BudgetInv'
    <2>1. /\ pc' = "off" /\ day' = day /\ paid' = paid + 1
          /\ \/ lost' = lost + 1 /\ file' = file
             \/ lost' = paid + 1 /\ file' = Torn
        BY <1>10 DEF AnswersAndDies, Dies, Quit
    <2> QED
        BY <1>1, <2>1 DEF Loaded, Torn
<1>11. CASE UNCHANGED vars
    BY <1>11 DEF vars, budgetVars, Loaded
<1> QED
    BY <1>3, <1>4, <1>5, <1>7, <1>8, <1>9, <1>10, <1>11, <1>6, Zenon DEF Next

\* Every bucket is filled by BucketOf, and every event copies a bucket.
LEMMA BucketStep ==
    ASSUME TypeOK, BucketInv, [Next]_vars
    PROVE  BucketInv'
<1>1. /\ \A t \in Ticker : Agrees(t, bucket[t])
      /\ \A e \in events : e.tkr \in Ticker /\ Agrees(e.tkr, e.as)
    BY DEF TypeOK, BucketInv, EventsMatchVerdicts, Agrees
<1>2. ASSUME events' = events \/ \E t \in Ticker : Record(t)
      PROVE  EventsMatchVerdicts'
    <2>1. ASSUME NEW e \in events' PROVE e.tkr \in Ticker /\ Agrees(e.tkr, e.as)
        BY <1>1, <1>2, <2>1 DEF Record
    <2>2. ASSUME NEW e \in events' PROVE Agrees(e.tkr, e.as)'
        BY <2>1, StillAgrees
    <2> QED
        BY <2>2 DEF EventsMatchVerdicts, Agrees
<1>3. ASSUME NEW t \in Ticker, NEW b, bucket'[t] = b, Agrees(t, b)
      PROVE  Agrees(t, bucket[t])'
    BY <1>3, StillAgrees DEF Agrees
<1>4. ASSUME NEW t \in Ticker, bucket'[t] = bucket[t] \/ bucket'[t] = "none"
      PROVE  Agrees(t, bucket[t])'
    <2>1. PICK b : b = bucket'[t]
        OBVIOUS
    <2>2. Agrees(t, b)
        BY <1>1, <1>4, <2>1 DEF Agrees
    <2> QED
        BY <1>3, <2>1, <2>2
<1>5. ASSUME NEW t \in Ticker, Cached(t) \/ Fails(t) \/ Answers(t)
      PROVE  events' = events /\ \A s \in Ticker : Agrees(s, bucket[s])'
    <2>1. PICK v \in {"yes", "no", "failed"} : Decide(t, v)
        BY <1>5 DEF TypeOK, Cached, Fails, Answers
    <2>2. Agrees(t, bucket[t])'
        BY <2>1 DEF TypeOK, Decide, BucketOf, Agrees
    <2>3. ASSUME NEW s \in Ticker, s # t PROVE Agrees(s, bucket[s])'
        <3>1. bucket'[s] = bucket[s]
            BY <2>1, <2>3 DEF TypeOK, Decide
        <3> QED
            BY <1>4, <3>1
    <2> QED
        BY <2>1, <2>2, <2>3 DEF Decide
<1>6. ASSUME NEW t \in Ticker, Approve(t) \/ AnswersAndDies(t) \/ Record(t)
      PROVE  /\ \A s \in Ticker : bucket'[s] = bucket[s] \/ bucket'[s] = "none"
             /\ Record(t) \/ events' = events
    BY <1>6 DEF Approve, AnswersAndDies, Dies, Quit, Undecided, Record, filterVars
<1>7. CASE \/ Start \/ Stop \/ Crash \/ Midnight \/ Disclose \/ Refilter \/ EndFilter
           \/ CarryAccepted \/ UNCHANGED vars
    <2>1. /\ \A s \in Ticker : bucket'[s] = bucket[s] \/ bucket'[s] = "none"
          /\ events' = events
        BY <1>7 DEF Start, Stop, Crash, Dies, Quit, Midnight, Disclose, Refilter, Classify,
                    EndFilter, CarryAccepted, Undecided, vars, filterVars
    <2> QED
        BY <1>2, <1>4, <2>1 DEF BucketInv
<1>8. ASSUME NEW t \in Ticker,
             \/ Approve(t) \/ Cached(t) \/ Fails(t) \/ Answers(t) \/ AnswersAndDies(t)
             \/ Record(t)
      PROVE  BucketInv'
    <2>1. \A s \in Ticker : Agrees(s, bucket[s])'
        BY <1>4, <1>6, <1>8, <1>5
    <2>2. EventsMatchVerdicts'
        BY <1>2, <1>6, <1>8, <1>5
    <2> QED
        BY <2>1, <2>2 DEF BucketInv
<1> QED
    BY <1>7, <1>8, Zenon DEF Next

-----------------------------------------------------------------------------
\* The invariant, and with it the types of the state, in every behaviour of the
\* live classifier.
THEOREM DecisionsInvariant == Spec => []IInv
<1>1. IInv /\ [Next]_vars => IInv'
    BY TypeStep, RunStep, BudgetStep, BucketStep DEF IInv
<1> QED
    BY <1>1, InitInv, PTL DEF Spec

\* The classifier's state keeps its types.
THEOREM DecisionsTypeCorrect == Spec => []TypeOK
<1>1. IInv => TypeOK
    BY DEF IInv
<1> QED
    BY <1>1, DecisionsInvariant, PTL

\* record_spend and budget.json (executor.py): whatever is restarted and
\* whenever midnight comes, a day pays for no call beyond the budget, but for
\* those that a process did not live to record.
THEOREM DayStaysInBudget == Spec => []BudgetHolds
<1>1. IInv => BudgetHolds
    <2> SUFFICES ASSUME IInv PROVE BudgetHolds
        OBVIOUS
    <2>1. paid \in Nat /\ lost \in Nat /\ paid - lost <= Loaded
        BY DEF IInv, TypeOK, BudgetInv
    <2>2. Loaded \in 0 .. Budget
        BY DecisionsAssumption DEF IInv, TypeOK, Loaded, Files, Torn
    <2> QED
        BY <2>1, <2>2, DecisionsAssumption DEF BudgetHolds
<1> QED
    BY <1>1, DecisionsInvariant, PTL

\* filter_trump_holdings and persist_decision: however often a disclosure is
\* filtered, the graveyard holds no event that its verdict speaks against.
THEOREM GraveyardAgrees == Spec => []EventsMatchVerdicts
<1>1. IInv => EventsMatchVerdicts
    BY DEF IInv, BucketInv
<1> QED
    BY <1>1, DecisionsInvariant, PTL
=============================================================================
