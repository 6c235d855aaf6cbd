----------------------------- MODULE CycleProofs -----------------------------
(***************************************************************************)
(* The properties of MirrorCycle, for any set of names, any number of      *)
(* filings and disclosures, and every event that each of them survives.    *)
(***************************************************************************)
EXTENDS MirrorCycle, TLAPS

-----------------------------------------------------------------------------
(***************************************************************************)
(* Premises: what must not happen for a property to hold.                  *)
(***************************************************************************)

\* The process outlives every cycle it starts.
CyclesComplete == "crash" \notin Events

\* And every run trades on what it plans.
RunsTrade == Events \cap {"crash", "dry", "kill"} = {}

\* Every table EDGAR serves can be read, and every cache that was written.
FilingsReadable == Events \cap {"garble", "torn"} = {}

-----------------------------------------------------------------------------
(***************************************************************************)
(* The invariants.                                                         *)
(***************************************************************************)

\* The caches are behind the feeds, and the basket under way is never behind
\* the cache: where it has no name, the cache has none.
CacheInv ==
    /\ sec.acc > 0 /\ leop.acc <= sec.acc /\ trump.id <= oge.id
    /\ CachesMatchFilings
    /\ pc \in {"tag", "carry"} => raw \subseteq trump.names
    /\ pc \in {"trump", "tag", "carry", "plan"} => leop.longs \subseteq basket.longs

\* The carried basket has passed the filter, except while the filter is at it,
\* and a name leaves it only there.
Passed(names) == names \subseteq approved /\ accepted \subseteq names

CarryInv ==
    /\ pc \notin {"tag", "carry"} => Passed(trump.names)
    /\ TrumpDisabled => pc \notin {"tag", "carry"} /\ accepted = {}
    /\ pc = "carry" => raw \subseteq approved
    /\ pc = "plan" => Passed(raw)

AcceptedKept == pc = "execute" => plan.exits \cap accepted \subseteq small

PlanInv == OnlyApprovedBought /\ AcceptedKept

\* The cached 13F has been handed over, or is the one under way.
HandedInv ==
    /\ ~ killed /\ ~ run.dry
    /\ \/ leop.acc \in handed \cup {0}
       \/ pc \in {"trump", "tag", "carry", "plan", "execute"} /\ leop.acc = basket.acc

\* The cache holds the latest 13F truleo has read or mirrored, as a whole, and
\* the basket under way is not of another one.
FilingInv ==
    /\ leop.acc = sec.acc => leop.longs = sec.longs
    /\ \A n \in handed : n <= leop.acc
    /\ basket.acc <= leop.acc
    /\ FilingKept

-----------------------------------------------------------------------------
(***************************************************************************)
(* The types.                                                              *)
(***************************************************************************)

\* What EDGAR publishes is a filing, with at least one name.
LEMMA PublishedType ==
    ASSUME NEW n \in 0 .. MaxFiling, NEW f \in Published(n)
    PROVE  f \in Filings /\ f.acc = n
BY DEF Published, Filings, Names

\* A read of the 13F feed returns a filing, or the empty one.
LEMMA LatestType ==
    ASSUME TypeOK, NEW f \in Latest13F
    PROVE  /\ f \in Filings
           /\ \/ f = sec
              \/ f = leop
              \/ f = NoFiling /\ leop.longs = {} /\ leop.shorts = {}
              \/ f = [sec EXCEPT !.longs = {}, !.shorts = {}]
<1>1. sec \in Filings /\ leop \in Filings /\ NoFiling \in Filings
    BY EventsAssumption DEF TypeOK, NoFiling, Filings, Names
<1>2. [sec EXCEPT !.longs = {}, !.shorts = {}] \in Filings
    BY <1>1 DEF Filings, Names
<1>3. f \in {sec, leop, NoFiling, [sec EXCEPT !.longs = {}, !.shorts = {}]}
    BY DEF Latest13F, Fallback
<1>4. CASE f # leop /\ f = Fallback
    <2>1. f = NoFiling /\ leop.longs \cup leop.shorts = {}
        BY <1>4 DEF Fallback
    <2> QED
        BY <1>1, <2>1
<1>5. CASE f # Fallback
    <2>1. f \in {sec} \cup {[sec EXCEPT !.longs = {}, !.shorts = {}]}
        BY <1>5, Zenon DEF Latest13F
    <2> QED
        BY <1>1, <1>2, <2>1
<1> QED
    BY <1>1, <1>2, <1>3, <1>4, <1>5

\* What a file or a variable holds before anything is known.
LEMMA NothingType ==
    /\ NoFiling \in Filings /\ NoDisclosure \in Disclosures
    /\ NoPlan \in [exits : Names, adjust : Names] /\ {} \in Names
    /\ NoNews \in [leop : BOOLEAN, trump : BOOLEAN]
    /\ Live \in [dry : BOOLEAN, force : BOOLEAN]
BY EventsAssumption
   DEF NoFiling, NoDisclosure, NoPlan, NoNews, Live, Filings, Disclosures, Names

\* The flags of a run, and what is new to it, are Booleans.
LEMMA FlagsType ==
    /\ \A d, f \in BOOLEAN :
        /\ [dry |-> d, force |-> f] \in [dry : BOOLEAN, force : BOOLEAN]
        /\ [leop |-> d, trump |-> f] \in [leop : BOOLEAN, trump : BOOLEAN]
    /\ \A r \in [dry : BOOLEAN, force : BOOLEAN], f \in BOOLEAN :
        [r EXCEPT !.force = f] \in [dry : BOOLEAN, force : BOOLEAN]
OBVIOUS

\* The first state.
LEMMA InitType == Init => TypeOK
<1> SUFFICES ASSUME Init PROVE TypeOK
    OBVIOUS
<1>1. sec \in Filings
    BY EventsAssumption, PublishedType DEF Init
<1>2. oge \in Disclosures
    BY EventsAssumption DEF Init, Disclosures, Names
<1>3. tags \in [Ticker -> {"none", "yes", "no"}]
    BY DEF Init
<1>4. /\ leop \in Filings /\ basket \in Filings /\ trump \in Disclosures
      /\ run \in [dry : BOOLEAN, force : BOOLEAN]
      /\ news \in [leop : BOOLEAN, trump : BOOLEAN]
      /\ plan \in [exits : Names, adjust : Names]
    BY NothingType, Zenon DEF Init
<1>5. approved \in Names /\ raw \in Names /\ small \in Names /\ accepted \in Names
    BY NothingType, Zenon DEF Init
<1>6. /\ killed \in BOOLEAN /\ held \in Names /\ handed \subseteq 0 .. MaxFiling
      /\ pc = "off" /\ status = "no_update"
    BY DEF Init
<1> QED
    BY <1>1, <1>2, <1>3, <1>4, <1>5, <1>6, Zenon DEF TypeOK

\* The orders of a plan that drops some targets and finds that others drifted.
Orders(dropped, drift) ==
    [exits |-> (held \ ((raw \cup basket.longs) \ dropped)) \ Frozen,
     adjust |-> drift \ Frozen]

\* What planning them leads to.
Planned(dropped, drift) ==
    /\ IF Orders(dropped, drift) = NoPlan
       THEN pc' = "end" /\ handed' = handed \cup {basket.acc} /\ Forget
       ELSE /\ pc' = "execute" /\ plan' = Orders(dropped, drift) /\ small' = dropped
            /\ UNCHANGED <<handed, news, basket, status, raw>>
    /\ UNCHANGED <<sec, oge, killed, held, files, run, accepted>>

\* A reconciliation plans for some that are too small and some that drifted.
LEMMA ReconcileFact ==
    ASSUME Reconcile
    PROVE  \E dropped \in SUBSET (raw \cup basket.longs) :
           \E drift \in SUBSET ((raw \cup basket.longs) \ dropped) :
             Planned(dropped, drift)
BY Zenon DEF Reconcile, Planned, Orders

\* The state keeps its types.
LEMMA TypeStep ==
    ASSUME TypeOK, [Next]_vars
    PROVE  TypeOK'
<1> USE EventsAssumption DEF TypeOK, files, process, history
<1>1. CASE Publish
    <2>1. sec' \in Filings
        BY <1>1, PublishedType DEF Publish, Filings
    <2> QED
        BY <1>1, <2>1 DEF Publish
<1>2. CASE Disclose
    <2>1. oge' \in Disclosures
        BY <1>2 DEF Disclose, Disclosures
    <2> QED
        BY <1>2, <2>1 DEF Disclose
<1>3. CASE SetKill
    BY <1>3 DEF SetKill
<1>4. ASSUME NEW t \in Ticker, Approve(t) PROVE TypeOK'
    BY <1>4 DEF Approve, Names
<1>5. CASE Start
    <2>1. PICK d \in BOOLEAN : run' = [dry |-> d, force |-> FALSE]
        BY <1>5, Zenon DEF Start
    <2>2. run' \in [dry : BOOLEAN, force : BOOLEAN]
        BY <2>1, FlagsType
    <2> QED
        BY <1>5, <2>2 DEF Start
<1>6. CASE Gate
    <2>1. PICK force \in (IF "force" \in Events THEN BOOLEAN ELSE {FALSE}) :
            \E latest \in Latest13F, claim \in Claims : GateOn(latest, claim, force)
        BY <1>6, Zenon DEF Gate
    <2>2. force \in BOOLEAN
        BY <2>1, Zenon
    <2>3. PICK latest \in Latest13F, claim \in Claims : GateOn(latest, claim, force)
        BY <2>1
    <2>4. run' \in [dry : BOOLEAN, force : BOOLEAN] /\ pc' \in {"basket", "quiet"}
        BY <2>3, <2>2, FlagsType DEF GateOn
    <2>5. news' \in [leop : BOOLEAN, trump : BOOLEAN]
        BY <2>3, <2>2, FlagsType DEF GateOn
    <2> QED
        BY <2>3, <2>4, <2>5 DEF GateOn
<1>7. CASE ReadBasket
    <2>1. PICK latest \in Latest13F : BasketFrom(latest)
        BY <1>7 DEF ReadBasket
    <2>2. latest \in Filings
        BY LatestType
    <2> QED
        BY <2>1, <2>2 DEF BasketFrom, GetBasket
<1>8. CASE ReadTrump
    BY <1>8 DEF ReadTrump, Disabled, TrumpCarries, Carried, TrumpRefilters, TrumpVerifies,
                Disclosures, Names
<1>9. CASE Filter
    BY <1>9 DEF Filter, Verdicts, AcceptedOf, Names
<1>10. CASE CarryAccepted
    BY <1>10 DEF CarryAccepted, Disclosures
<1>11. ASSUME Forget
       PROVE  /\ news' \in [leop : BOOLEAN, trump : BOOLEAN]
              /\ basket' \in Filings /\ status' = "no_update" /\ raw' \in Names
              /\ plan' \in [exits : Names, adjust : Names] /\ small' \in Names
    BY <1>11, NothingType, Zenon DEF Forget
<1>12. CASE Reconcile
    <2>1. PICK dropped \in SUBSET (raw \cup basket.longs) :
               \E drift \in SUBSET ((raw \cup basket.longs) \ dropped) :
                 Planned(dropped, drift)
        BY <1>12, ReconcileFact
    <2>2. PICK drift \in SUBSET ((raw \cup basket.longs) \ dropped) : Planned(dropped, drift)
        BY <2>1
    <2>3. dropped \in Names /\ drift \in Names /\ basket.acc \in 0 .. MaxFiling
        BY DEF Filings, Names
    <2>4. Orders(dropped, drift) \in [exits : Names, adjust : Names]
        BY <2>3 DEF Orders, Names
    <2>5. CASE Orders(dropped, drift) = NoPlan
        <3>1. /\ pc' = "end" /\ handed' = handed \cup {basket.acc} /\ Forget
              /\ UNCHANGED <<sec, oge, killed, held, files, run, accepted>>
            BY <2>5, <2>2, Zenon DEF Planned
        <3>2. handed' \subseteq 0 .. MaxFiling
            BY <2>3, <3>1
        <3> QED
            BY <1>11, <3>1, <3>2
    <2>6. CASE Orders(dropped, drift) # NoPlan
        <3>1. /\ pc' = "execute" /\ plan' = Orders(dropped, drift) /\ small' = dropped
              /\ UNCHANGED <<handed, news, basket, status, raw>>
              /\ UNCHANGED <<sec, oge, killed, held, files, run, accepted>>
            BY <2>6, <2>2, Zenon DEF Planned
        <3> QED
            BY <2>3, <2>4, <3>1
    <2> QED
        BY <2>5, <2>6
<1>13. CASE Execute
    <2>1. held' \in Names
        BY <1>13 DEF Execute, Names
    <2>2. handed' \subseteq 0 .. MaxFiling
        BY <1>13 DEF Execute, Filings
    <2> QED
        BY <1>13, <1>11, <2>1, <2>2 DEF Execute
<1>14. CASE EndCycle
    <2>1. run' = Live \/ run' = [run EXCEPT !.force = FALSE]
        BY <1>14 DEF EndCycle
    <2>2. run \in [dry : BOOLEAN, force : BOOLEAN] /\ FALSE \in BOOLEAN
        OBVIOUS
    <2>3. [run EXCEPT !.force = FALSE] \in [dry : BOOLEAN, force : BOOLEAN]
        BY <2>2, FlagsType, Zenon
    <2>4. run' \in [dry : BOOLEAN, force : BOOLEAN]
        BY <2>1, <2>3, NothingType, Zenon
    <2> QED
        BY <1>14, <2>4 DEF EndCycle
<1>15. CASE Crash
    <2>1. /\ leop' \in Filings /\ trump' \in Disclosures
          /\ run' \in [dry : BOOLEAN, force : BOOLEAN]
        BY <1>15, NothingType DEF Crash
    <2> QED
        BY <1>15, <1>11, <2>1 DEF Crash
<1>16. CASE UNCHANGED vars
    BY <1>16 DEF vars
<1> QED
    BY <1>1, <1>2, <1>3, <1>4, <1>5, <1>6, <1>7, <1>8, <1>9, <1>10, <1>12, <1>13, <1>14,
       <1>15, <1>16 DEF Next, Cycle

-----------------------------------------------------------------------------
(***************************************************************************)
(* The steps of each invariant.                                            *)
(***************************************************************************)

\* The identifiers, and the names, that a record holds.
LEMMA FieldTypes ==
    ASSUME TypeOK
    PROVE  /\ sec.acc \in Nat /\ leop.acc \in Nat /\ basket.acc \in Nat
           /\ oge.id \in Nat /\ trump.id \in Nat
           /\ trump = [id |-> trump.id, names |-> trump.names]
           /\ leop = [acc |-> leop.acc, longs |-> leop.longs, shorts |-> leop.shorts]
BY EventsAssumption DEF TypeOK, Filings, Disclosures

\* Where the gate opens, and where a process starts or ends a cycle, no plan is
\* under way.
LEMMA BetweenFact ==
    ASSUME Start \/ Gate \/ EndCycle
    PROVE  /\ pc \in {"off", "gate", "quiet", "end"}
           /\ pc' \in {"off", "gate", "basket", "quiet"}
           /\ UNCHANGED <<sec, oge, killed, held, files, basket, status, raw, plan, small, history>>
<1>1. CASE Start \/ EndCycle
    BY <1>1 DEF Start, EndCycle
<1>2. CASE Gate
    <2>1. PICK force \in (IF "force" \in Events THEN BOOLEAN ELSE {FALSE}) :
            \E latest \in Latest13F, claim \in Claims : GateOn(latest, claim, force)
        BY <1>2, Zenon DEF Gate
    <2> QED
        BY <2>1 DEF GateOn
<1> QED
    BY <1>1, <1>2

\* Only an empty cache lets a read find no filing at all.
LEMMA LatestFact ==
    ASSUME TypeOK, sec.acc > 0, NEW f \in Latest13F
    PROVE  /\ f = NoFiling => leop.longs = {}
           /\ f # NoFiling => \/ f = leop
                              \/ /\ f.acc = sec.acc
                                 /\ f = sec \/ f = [sec EXCEPT !.longs = {}, !.shorts = {}]
<1> DEFINE unreadable == [sec EXCEPT !.longs = {}, !.shorts = {}]
<1>1. unreadable.acc = sec.acc /\ NoFiling.acc = 0 /\ NoFiling.longs = {}
    BY DEF TypeOK, Filings, NoFiling
<1>2. f = sec \/ f = leop \/ (f = NoFiling /\ leop.longs = {}) \/ f = unreadable
    BY LatestType
<1> HIDE DEF unreadable
<1>3. f = NoFiling => f # sec /\ f # unreadable
    BY <1>1
<1> QED
    BY <1>1, <1>2, <1>3 DEF unreadable

\* A fetched filing replaces the cache as a whole.
LEMMA CacheStep ==
    ASSUME TypeOK, CacheInv, [Next]_vars
    PROVE  CacheInv'
<1> USE DEF CacheInv, CachesMatchFilings, files, process, history
<1>1. CASE Publish
    <2>1. sec'.acc = sec.acc + 1
        BY <1>1 DEF Publish, Published
    <2> QED
        BY FieldTypes, <1>1, <2>1 DEF Publish
<1>2. CASE Disclose
    <2>1. oge'.id = oge.id + 1
        BY <1>2 DEF Disclose
    <2> QED
        BY FieldTypes, <1>2, <2>1 DEF Disclose
<1>3. CASE SetKill \/ \E t \in Ticker : Approve(t)
    BY <1>3 DEF SetKill, Approve
<1>4. CASE Start \/ Gate \/ EndCycle
    BY <1>4, BetweenFact
<1>5. CASE ReadBasket
    <2>1. PICK latest \in Latest13F : BasketFrom(latest)
        BY <1>5 DEF ReadBasket
    <2>2. CASE latest = NoFiling
        <3>1. leop.longs = {} /\ leop' = leop
            BY <2>1, <2>2, LatestFact DEF BasketFrom, GetBasket
        <3> QED
            BY <2>1, <3>1 DEF BasketFrom
    <2>3. CASE latest # NoFiling
        <3>1. /\ leop'.acc <= sec.acc /\ leop'.longs = basket'.longs
              /\ leop'.acc = sec.acc =>
                   leop' = sec \/ leop' = [sec EXCEPT !.longs = {}, !.shorts = {}]
            BY FieldTypes, <2>1, <2>3, LatestFact DEF BasketFrom, GetBasket
        <3> QED
            BY <2>1, <3>1 DEF BasketFrom
    <2> QED
        BY <2>2, <2>3
<1>6. CASE ReadTrump
    BY FieldTypes, <1>6 DEF ReadTrump, Disabled, TrumpCarries, Carried, TrumpRefilters, TrumpVerifies
<1>7. CASE Filter
    BY <1>7 DEF Filter, AcceptedOf
<1>8. CASE CarryAccepted
    <2>1. trump'.id = trump.id /\ trump'.names = raw
        BY FieldTypes, <1>8 DEF CarryAccepted
    <2> QED
        BY <1>8, <2>1 DEF CarryAccepted
<1>9. CASE Reconcile
    <2>1. pc' \in {"end", "execute"} /\ UNCHANGED <<sec, oge, leop, trump>>
        BY <1>9, ReconcileFact DEF Planned
    <2> QED
        BY <2>1
<1>10. CASE Execute
    BY <1>10 DEF Execute
<1>11. CASE Crash
    BY FieldTypes, <1>11 DEF Crash, NoFiling, NoDisclosure
<1>12. CASE UNCHANGED vars
    BY <1>12 DEF vars
<1> QED
    BY <1>1, <1>2, <1>3, <1>4, <1>5, <1>6, <1>7, <1>8, <1>9, <1>10, <1>11, <1>12
    DEF Next, Cycle

\* While no process dies, the carried basket leaves the filter as it should.
LEMMA CarryStep ==
    ASSUME CyclesComplete, TypeOK, CacheInv, CarryInv, [Next]_vars
    PROVE  CarryInv'
<1> USE DEF CarryInv, Passed, files, process, history
<1>1. CASE Publish \/ Disclose \/ SetKill \/ UNCHANGED vars
    BY <1>1 DEF Publish, Disclose, SetKill, vars
<1>2. ASSUME NEW t \in Ticker, Approve(t) PROVE CarryInv'
    BY <1>2 DEF Approve
<1>3. CASE Start \/ Gate \/ EndCycle
    BY <1>3, BetweenFact
<1>4. CASE ReadBasket
    BY <1>4 DEF ReadBasket, BasketFrom
<1>5. CASE ReadTrump
    BY <1>5 DEF ReadTrump, Disabled, TrumpCarries, Carried, TrumpRefilters, TrumpVerifies
<1>6. CASE Filter
    BY <1>6 DEF Filter, AcceptedOf
<1>7. CASE CarryAccepted
    <2>1. trump'.names = raw
        BY <1>7, FieldTypes DEF CarryAccepted
    <2> QED
        BY <1>7, <2>1 DEF CarryAccepted
<1>8. CASE Reconcile
    <2>1. pc' \in {"end", "execute"} /\ UNCHANGED <<approved, trump, accepted>> /\ pc = "plan"
        BY <1>8, ReconcileFact DEF Planned, Reconcile
    <2> QED
        BY <2>1
<1>9. CASE Execute
    BY <1>9 DEF Execute
<1>10. CASE Crash
    BY <1>10 DEF Crash, CyclesComplete
<1> QED
    BY <1>1, <1>2, <1>3, <1>4, <1>5, <1>6, <1>7, <1>8, <1>9, <1>10 DEF Next, Cycle

\* Only reconcile makes a plan, and only a plan that is not empty is executed.
LEMMA ExecuteFact ==
    ASSUME TypeOK, [Next]_vars, pc' = "execute"
    PROVE  \/ \E dropped \in SUBSET (raw \cup basket.longs) :
              \E drift \in SUBSET ((raw \cup basket.longs) \ dropped) :
                /\ pc = "plan"
                /\ plan' = Orders(dropped, drift) /\ small' = dropped
                /\ UNCHANGED <<files, basket, status, raw, accepted>>
           \/ /\ pc = "execute"
              /\ approved \subseteq approved'
              /\ UNCHANGED <<leop, basket, status, raw, plan, small, accepted>>
<1> USE DEF files, process, history
<1>1. CASE Publish \/ Disclose \/ SetKill \/ UNCHANGED vars
    BY <1>1 DEF Publish, Disclose, SetKill, vars
<1>2. ASSUME NEW t \in Ticker, Approve(t)
      PROVE  /\ pc = "execute" /\ approved \subseteq approved'
             /\ UNCHANGED <<leop, basket, status, raw, plan, small, accepted>>
    BY <1>2 DEF Approve
<1>3. ~ (Start \/ Gate \/ EndCycle)
    BY BetweenFact
<1>4. ~ (ReadBasket \/ ReadTrump \/ Filter \/ CarryAccepted \/ Execute \/ Crash)
    BY DEF ReadBasket, BasketFrom, ReadTrump, TrumpCarries, TrumpVerifies, TrumpRefilters,
           Filter, CarryAccepted, Execute, Crash
<1>5. CASE Reconcile
    BY <1>5, ReconcileFact DEF Planned, Reconcile
<1> QED
    BY <1>1, <1>2, <1>3, <1>4, <1>5, Zenon DEF Next, Cycle

\* A plan keeps every name its inputs have, but for those it drops.
LEMMA PlanStep ==
    ASSUME TypeOK, CacheInv, CarryInv, PlanInv, [Next]_vars
    PROVE  PlanInv'
<1> USE DEF PlanInv, OnlyApprovedBought, AcceptedKept
<1> SUFFICES ASSUME pc' = "execute" PROVE PlanInv'
    OBVIOUS
<1>1. ASSUME NEW dropped \in SUBSET (raw \cup basket.longs),
             NEW drift \in SUBSET ((raw \cup basket.longs) \ dropped),
             pc = "plan", plan' = Orders(dropped, drift), small' = dropped,
             UNCHANGED <<files, basket, status, raw, accepted>>
      PROVE  PlanInv'
    <2>1. /\ plan'.adjust \subseteq drift
          /\ plan'.exits \subseteq held \ ((raw \cup basket.longs) \ dropped)
        BY <1>1 DEF Orders
    <2>2. raw \subseteq approved /\ accepted \subseteq raw /\ leop.longs \subseteq basket.longs
        BY <1>1 DEF CacheInv, CarryInv, Passed
    <2> QED
        BY <1>1, <2>1, <2>2 DEF files
<1>2. CASE /\ pc = "execute"
           /\ approved \subseteq approved'
           /\ UNCHANGED <<leop, basket, status, raw, plan, small, accepted>>
    BY <1>2
<1> QED
    BY <1>1, <1>2, ExecuteFact

\* A 13F enters the cache in the cycle that hands it over.
LEMMA HandedStep ==
    ASSUME RunsTrade, TypeOK, HandedInv, [Next]_vars
    PROVE  HandedInv'
<1> USE DEF HandedInv, RunsTrade, files, process, history
<1>1. CASE Publish \/ Disclose \/ UNCHANGED vars
    BY <1>1 DEF Publish, Disclose, vars
<1>2. ASSUME NEW t \in Ticker, Approve(t) PROVE HandedInv'
    BY <1>2 DEF Approve
<1>3. ~ SetKill /\ ~ Crash
    BY DEF SetKill, Crash
<1>4. CASE Start \/ Gate \/ EndCycle
    <2>1. ~ run'.dry
        <3>1. CASE Start
            <4>1. PICK d \in (IF "dry" \in Events THEN BOOLEAN ELSE {FALSE}) :
                    run' = [dry |-> d, force |-> FALSE]
                BY <3>1 DEF Start
            <4>2. d = FALSE
                BY <4>1
            <4> QED
                BY <4>1, <4>2
        <3>2. ASSUME NEW force, run' = [run EXCEPT !.force = force] PROVE ~ run'.dry
            BY <3>2 DEF TypeOK
        <3>3. CASE Gate
            <4>1. PICK force \in (IF "force" \in Events THEN BOOLEAN ELSE {FALSE}) :
                    \E latest \in Latest13F, claim \in Claims : GateOn(latest, claim, force)
                BY <3>3, Zenon DEF Gate
            <4> QED
                BY <3>2, <4>1 DEF GateOn
        <3>4. CASE EndCycle
            BY <3>2, <3>4 DEF EndCycle, Live
        <3> QED
            BY <1>4, <3>1, <3>3, <3>4
    <2> QED
        BY <1>4, <2>1, BetweenFact
<1>5. CASE ReadBasket
    <2>1. PICK latest \in Latest13F : BasketFrom(latest)
        BY <1>5 DEF ReadBasket
    <2>2. leop' = leop \/ leop' = basket'
        BY <2>1 DEF BasketFrom, GetBasket
    <2> QED
        BY <2>1, <2>2 DEF BasketFrom
<1>6. CASE ReadTrump
    BY <1>6 DEF ReadTrump, TrumpCarries, TrumpRefilters, TrumpVerifies
<1>7. CASE Filter \/ CarryAccepted
    BY <1>7 DEF Filter, CarryAccepted
<1>8. CASE Reconcile
    <2>1. \/ pc' = "end" /\ handed' = handed \cup {basket.acc}
          \/ pc' = "execute" /\ UNCHANGED <<handed, basket>>
        BY <1>8, ReconcileFact DEF Planned
    <2>2. UNCHANGED <<killed, run, leop>> /\ pc = "plan"
        BY <1>8 DEF Reconcile
    <2> QED
        BY <2>1, <2>2
<1>9. CASE Execute
    BY <1>9 DEF Execute
<1> QED
    BY <1>1, <1>2, <1>3, <1>4, <1>5, <1>6, <1>7, <1>8, <1>9, Zenon DEF Next, Cycle

\* A read that finds the cache whole finds the 13F in it, or a newer one.
LEMMA ReadFact ==
    ASSUME FilingsReadable, TypeOK, CacheInv, NEW latest \in Latest13F, BasketFrom(latest)
    PROVE  /\ leop' = leop \/ leop' = sec
           /\ basket'.acc <= leop'.acc
<1>1. latest = sec \/ latest = leop \/ latest = NoFiling
    BY LatestType DEF Latest13F, Fallback, FilingsReadable
<1>2. NoFiling.acc = 0
    BY DEF NoFiling
<1> QED
    BY <1>1, <1>2, FieldTypes DEF BasketFrom, GetBasket

\* With readable files, no cycle plans without the 13F it has read.
LEMMA FilingStep ==
    ASSUME FilingsReadable, TypeOK, CacheInv, FilingInv, [Next]_vars
    PROVE  FilingInv'
<1> USE DEF FilingInv, FilingKept, Followed, files, process, history
<1>0. Followed = leop.longs
    <2>1. sec.acc \in handed => leop.acc = sec.acc
        BY FieldTypes DEF CacheInv
    <2> QED
        BY <2>1
<1>1. CASE Publish
    <2>1. sec'.acc = sec.acc + 1
        BY <1>1 DEF Publish, Published
    <2>2. sec.acc \in Nat /\ leop.acc \in Nat /\ leop.acc <= sec.acc
        BY FieldTypes DEF CacheInv
    <2>3. leop.acc # sec'.acc /\ sec'.acc \notin handed
        <3>1. \A n \in handed : n \in Nat /\ n <= leop.acc
            BY EventsAssumption DEF TypeOK
        <3> QED
            BY <2>1, <2>2, <3>1
    <2>4. Followed' = leop.longs
        BY <1>1, <2>3 DEF Publish
    <2> QED
        BY <1>0, <1>1, <2>2, <2>3, <2>4 DEF Publish
<1>2. CASE Disclose \/ SetKill \/ (\E t \in Ticker : Approve(t)) \/ UNCHANGED vars
    BY <1>2 DEF Disclose, SetKill, Approve, vars
<1>3. CASE Start \/ Gate \/ EndCycle
    BY <1>3, BetweenFact
<1>4. CASE ReadBasket
    <2>1. PICK latest \in Latest13F : BasketFrom(latest)
        BY <1>4 DEF ReadBasket
    <2>2. /\ leop' = leop \/ leop' = sec
          /\ basket'.acc <= leop'.acc
        BY <2>1, ReadFact
    <2>3. \A n \in handed : n \in Nat /\ n <= leop'.acc
        BY <2>2, FieldTypes, EventsAssumption DEF CacheInv, TypeOK
    <2> QED
        BY <2>1, <2>2, <2>3 DEF BasketFrom
<1>5. CASE ReadTrump \/ Filter \/ CarryAccepted
    BY <1>5 DEF ReadTrump, Filter, CarryAccepted, TrumpCarries, TrumpVerifies, TrumpRefilters
<1>6. CASE Reconcile
    <2>1. PICK dropped \in SUBSET (raw \cup basket.longs) :
               \E drift \in SUBSET ((raw \cup basket.longs) \ dropped) :
                 Planned(dropped, drift)
        BY <1>6, ReconcileFact
    <2>2. PICK drift \in SUBSET ((raw \cup basket.longs) \ dropped) : Planned(dropped, drift)
        BY <2>1
    <2>3. UNCHANGED <<sec, leop>> /\ pc = "plan"
        BY <1>6 DEF Reconcile
    <2>4. CASE Orders(dropped, drift) = NoPlan
        <3>1. pc' = "end" /\ handed' = handed \cup {basket.acc} /\ basket' = NoFiling
            BY <2>2, <2>4, Zenon DEF Planned, Forget
        <3>2. NoFiling.acc = 0 /\ 0 <= leop.acc
            BY FieldTypes DEF NoFiling
        <3> QED
            BY <2>3, <3>1, <3>2
    <2>5. CASE Orders(dropped, drift) # NoPlan
        <3>1. /\ pc' = "execute" /\ plan' = Orders(dropped, drift) /\ small' = dropped
              /\ UNCHANGED <<handed, basket>>
            BY <2>2, <2>5, Zenon DEF Planned
        <3>2. leop.longs \subseteq basket.longs
            BY <2>3 DEF CacheInv
        <3>4. plan'.exits \subseteq held \ (basket.longs \ dropped)
            BY <3>1 DEF Orders
        <3>5. plan'.exits \cap Followed \subseteq small'
            BY <1>0, <2>3, <3>1, <3>2, <3>4
        <3> QED
            BY <2>3, <3>1, <3>5
    <2> QED
        BY <2>4, <2>5
<1>7. CASE Execute
    <2>1. /\ pc' = "end" /\ basket' = NoFiling /\ UNCHANGED <<sec, leop>>
          /\ handed' \subseteq handed \cup {basket.acc}
        BY <1>7 DEF Execute, Forget
    <2>2. NoFiling.acc = 0 /\ 0 <= leop.acc
        BY FieldTypes DEF NoFiling
    <2> QED
        BY <2>1, <2>2
<1>8. CASE Crash
    <2>1. pc' = "off" /\ basket' = NoFiling /\ UNCHANGED <<sec, leop, handed>>
        BY <1>8 DEF Crash, Forget, FilingsReadable
    <2>2. NoFiling.acc = 0 /\ 0 <= leop.acc
        BY FieldTypes DEF NoFiling
    <2> QED
        BY <2>1, <2>2
<1> QED
    BY <1>1, <1>2, <1>3, <1>4, <1>5, <1>6, <1>7, <1>8, Zenon DEF Next, Cycle

\* The first state, without a cache and between two cycles.
LEMMA InitInvs == Init => CacheInv /\ CarryInv /\ PlanInv /\ HandedInv
<1> SUFFICES ASSUME Init PROVE CacheInv /\ CarryInv /\ PlanInv /\ HandedInv
    OBVIOUS
<1>1. sec.acc = 1 /\ oge.id = 1
    BY DEF Init, Published
<1> QED
    BY <1>1
    DEF Init, CacheInv, CachesMatchFilings, CarryInv, Passed, PlanInv, OnlyApprovedBought,
        AcceptedKept, HandedInv, NoFiling, NoDisclosure, Live

\* Nothing has been read at the start.
LEMMA InitFiling == Init => FilingInv
BY DEF Init, Published, FilingInv, FilingKept, NoFiling

-----------------------------------------------------------------------------
(***************************************************************************)
(* What holds of every behaviour.                                          *)
(***************************************************************************)

\* The cycle's state keeps its types, and its caches stay behind the feeds.
THEOREM CycleInvariant == Spec => [](TypeOK /\ CacheInv)
<1>1. TypeOK /\ CacheInv /\ [Next]_vars => (TypeOK /\ CacheInv)'
    BY TypeStep, CacheStep
<1> QED
    BY <1>1, InitType, InitInvs, PTL DEF Spec

\* The cycle's state keeps its types.
THEOREM CycleTypeCorrect == Spec => []TypeOK
BY CycleInvariant, PTL

\* LeopoldSource and TrumpSource: through crashes, truncated files, unreadable
\* tables and forced cycles, what a cache holds under the latest identifier is
\* of the latest filing.
THEOREM CachesHoldOneFiling == Spec => []CachesMatchFilings
<1>1. CacheInv => CachesMatchFilings
    BY DEF CacheInv
<1> QED
    BY <1>1, CycleInvariant, PTL

\* While every cycle completes, plans follow from what has passed the filter.
THEOREM PlanInvariant == CyclesComplete => (Spec => [](CarryInv /\ PlanInv))
<1> SUFFICES ASSUME CyclesComplete PROVE Spec => [](CarryInv /\ PlanInv)
    OBVIOUS
<1>1. /\ TypeOK /\ CacheInv /\ CarryInv /\ PlanInv /\ [Next]_vars
      => (CarryInv /\ PlanInv)'
    BY CarryStep, PlanStep
<1> QED
    BY <1>1, InitInvs, CycleInvariant, PTL DEF Spec

\* run_cycle, when no process dies in a cycle: whatever feeds fail, nothing but
\* a name of the 13F or an approved catalyst name is bought.
THEOREM OnlyApprovedIsBought == CyclesComplete => (Spec => []OnlyApprovedBought)
<1>1. PlanInv => OnlyApprovedBought
    BY DEF PlanInv
<1> QED
    BY <1>1, PlanInvariant, PTL

\* LeopoldSource and run_cycle, with readable tables and caches: through feeds
\* that fail, crashes, dry and forced runs and the switch, no plan sells what the
\* 13F that truleo has read or mirrored put into the book.
THEOREM FilingIsKept == FilingsReadable => (Spec => []FilingKept)
<1> SUFFICES ASSUME FilingsReadable PROVE Spec => []FilingKept
    OBVIOUS
<1>1. TypeOK /\ CacheInv /\ FilingInv /\ [Next]_vars => FilingInv'
    BY FilingStep
<1>2. FilingInv => FilingKept
    BY DEF FilingInv
<1> QED
    BY <1>1, <1>2, InitFiling, CycleInvariant, PTL DEF Spec

\* run_cycle, with readable tables and caches and when no process dies in a
\* cycle: a failing feed or a hold sells nothing that the 13F or the last
\* verified disclosure put into the book.  (An unreadable table, or a cache that
\* is lost before the feed fails, does sell it.)
THEOREM ExitsHaveASource ==
    FilingsReadable /\ CyclesComplete => (Spec => []NoSpuriousExit)
<1>1. PlanInv /\ FilingKept => NoSpuriousExit
    BY DEF PlanInv, AcceptedKept, NoSpuriousExit
<1> QED
    BY <1>1, PlanInvariant, FilingIsKept, PTL

\* The gate of run_cycle, when every run trades: nothing new means that the
\* cached 13F has been handed to the executor.
THEOREM QuietIsMirrored == RunsTrade => (Spec => []QuietMeansMirrored)
<1> SUFFICES ASSUME RunsTrade PROVE Spec => []QuietMeansMirrored
    OBVIOUS
<1>1. TypeOK /\ HandedInv /\ [Next]_vars => HandedInv'
    BY HandedStep
<1>2. HandedInv => QuietMeansMirrored
    BY DEF HandedInv, QuietMeansMirrored
<1> QED
    BY <1>1, <1>2, InitInvs, CycleTypeCorrect, PTL DEF Spec
=============================================================================
