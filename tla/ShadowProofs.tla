---------------------------- MODULE ShadowProofs ----------------------------
(***************************************************************************)
(* The properties of ShadowHedge, for any tickers, prices and notionals,   *)
(* any number of days and filings, and whatever is missed, repeated or cut *)
(* short.                                                                  *)
(***************************************************************************)
EXTENDS ShadowHedge, Sums

-----------------------------------------------------------------------------
(***************************************************************************)
(* The invariants.                                                         *)
(***************************************************************************)

\* What a book has accrued on a put, from its basis to its last mark.
Telescopes(book) ==
    \A s \in Series, t \in Ticker :
        book[s][t].cum =
            book[s][t].shares * (book[s][t].basis - book[s][t].prior) - book[s][t].cost

\* Both the saved book and the one in memory telescope.
AccruedInv == Telescopes(file) /\ Telescopes(state)

\* What the entries have accrued on some puts.
Total(entries, names) == MapThenSumSet(LAMBDA t : entries[t].cum, names)

\* Of a series whose hedges are the puts within a scope, the row to be appended
\* gives the sum of the book in memory, which is the saved one from SaveState
\* on; until its row is there, the record is known to lag behind.
RowInv(s, scope) ==
    /\ pc \in {"save", "append"} =>
           next.pnl[s] = Total(state[s], next.puts \cap scope)
    /\ pc = "append" => ahead /\ file = state
    /\ ~ ahead => row.pnl[s] = Total(file[s], row.puts \cap scope)

\* Under the first filing, a book has charged every put for each day since its
\* first up to d.
Charged(book, d) ==
    \A t \in Ticker : Present(book["full"][t]) =>
        book["full"][t].cost = puts[t] * Rate * (d - book["full"][t].since + 1)

CostInv ==
    filing = 1 =>
        /\ pc = "idle" /\ ~ ran => Charged(file, day - 1)
        /\ pc = "idle" /\ ran => Charged(file, day)
        /\ pc # "idle" => ran /\ Charged(state, day)
        /\ pc = "append" => file = state

-----------------------------------------------------------------------------
(***************************************************************************)
(* Premises.                                                               *)
(***************************************************************************)

\* Every close can be fetched.
ClosesComplete == "missing" \notin Events

\* Every day has one run, which gets to its end.
OnceADay == ClosesComplete /\ Events \cap {"crash", "rerun", "skip"} = {}

-----------------------------------------------------------------------------
(***************************************************************************)
(* Sums.                                                                   *)
(***************************************************************************)

\* The P&L of a series is a sum of its entries' accruals.
LEMMA PnlIsSum ==
    ASSUME NEW entries, NEW hedges, NEW marked
    PROVE  Pnl(entries, hedges, marked) = SumOver([t \in hedges |-> entries[t].cum], hedges)
<1> DEFINE cum == [t \in hedges |-> entries[t].cum]
           Fold(g) == [s \in SUBSET hedges |->
                           IF s = {} THEN 0 ELSE entries[Pick(s)].cum + g[s \ {Pick(s)}]]
           Adding(g) == [s \in SUBSET hedges |-> Added(cum, g, s)]
<1>1. \A g : Fold(g) = Adding(g)
    BY DEF Added, Pick
<1>2. Pnl(entries, hedges, marked) = (CHOOSE g : g = Fold(g))[hedges]
    BY DEF Pnl, MapThenSumSet, MapThenFoldSet, Pick
<1>3. SumOver(cum, hedges) = (CHOOSE g : g = Adding(g))[hedges]
    BY DEF SumOver, Partial
<1>4. (CHOOSE g : g = Fold(g)) = (CHOOSE g : g = Adding(g))
    <2> HIDE DEF Fold, Adding
    <2> QED
        BY <1>1
<1> QED
    BY <1>2, <1>3, <1>4

\* The value of the longs is a sum over those that are marked.
LEMMA LongsNavIsSum ==
    ASSUME NEW marked
    PROVE  LongsNav(marked) =
               SumOver([t \in Long \cap marked |-> (Scale \div price[t]) * price[t]],
                       Long \cap marked)
<1> DEFINE longs == Long \cap marked
           worth == [t \in longs |-> (Scale \div price[t]) * price[t]]
           Fold(g) == [s \in SUBSET longs |->
                           IF s = {} THEN 0
                           ELSE (Scale \div price[Pick(s)]) * price[Pick(s)]
                                    + g[s \ {Pick(s)}]]
           Adding(g) == [s \in SUBSET longs |-> Added(worth, g, s)]
<1>1. \A g : Fold(g) = Adding(g)
    BY DEF Added, Pick
<1>2. LongsNav(marked) = (CHOOSE g : g = Fold(g))[longs]
    BY DEF LongsNav, MapThenSumSet, MapThenFoldSet, Pick
<1>3. SumOver(worth, longs) = (CHOOSE g : g = Adding(g))[longs]
    BY DEF SumOver, Partial
<1>4. (CHOOSE g : g = Fold(g)) = (CHOOSE g : g = Adding(g))
    <2> HIDE DEF Fold, Adding
    <2> QED
        BY <1>1
<1> QED
    BY <1>2, <1>3, <1>4

\* The shares a dollar buys are whole, and worth a dollar.
LEMMA Division ==
    ASSUME NEW p \in 1 .. MaxPrice
    PROVE  Scale \div p \in Nat /\ (Scale \div p) * p = Scale
<1>1. Scale \in Nat /\ p \in Nat \ {0} /\ Scale % p = 0
    BY ShadowAssumption
<1>2. Scale = p * (Scale \div p) + (Scale % p) /\ Scale \div p \in Nat
    BY <1>1
<1> QED
    BY <1>1, <1>2

-----------------------------------------------------------------------------
(***************************************************************************)
(* Entries.                                                                *)
(***************************************************************************)

\* The telescoping equation of an entry.
Accounted(e) == e.cum = e.shares * (e.basis - e.prior) - e.cost

\* What marking makes of an entry is an entry, and telescopes if that did: the
\* gain since the last mark joins the gain up to it.
LEMMA EntryFact ==
    ASSUME TypeOK, NEW t \in Ticker, NEW e \in Entries
    PROVE  /\ Inception(t) \in Entries /\ Accounted(Inception(t))
           /\ Accrued(e, t) \in Entries
           /\ Accounted(e) => Accounted(Accrued(e, t))
<1>1. /\ price[t] \in 1 .. MaxPrice /\ price[t] \in 0 .. MaxPrice /\ price[t] \in Int
      /\ puts[t] \in Nat /\ Rate \in Nat
      /\ day \in 0 .. MaxDay /\ filing \in 0 .. MaxFiling
    BY ShadowAssumption DEF TypeOK
<1>2. Scale \div price[t] \in Nat
    BY <1>1, Division
<1>3. PICK cost \in Nat, shares \in Nat :
          cost = puts[t] * Rate /\ shares = puts[t] * (Scale \div price[t])
    BY <1>1, <1>2
<1>4. Inception(t) =
          [basis |-> price[t], shares |-> shares, prior |-> price[t], cum |-> - cost,
           cost |-> cost, since |-> day, filing |-> filing]
    BY <1>3 DEF Inception
<1>5. Inception(t) \in Entries
    BY <1>1, <1>3, <1>4 DEF Entries
<1>6. Accounted(Inception(t))
    <2>1. shares * (price[t] - price[t]) = 0
        BY <1>1, <1>3
    <2> QED
        BY <1>3, <1>4, <2>1 DEF Accounted
<1>7. /\ e.basis \in 0 .. MaxPrice /\ e.shares \in Nat /\ e.prior \in 0 .. MaxPrice
      /\ e.cum \in Int /\ e.cost \in Nat /\ e.since \in 0 .. MaxDay
      /\ e.basis \in Int /\ e.prior \in Int
    BY DEF Entries
<1>8. PICK gain \in Int : gain = e.shares * (price[t] - e.prior)
    BY <1>1, <1>7
<1>9. Accrued(e, t) =
          [basis |-> e.basis, shares |-> e.shares, prior |-> price[t],
           cum |-> e.cum - gain - cost, cost |-> e.cost + cost, since |-> e.since,
           filing |-> filing]
    <2>1. e = [basis |-> e.basis, shares |-> e.shares, prior |-> e.prior, cum |-> e.cum,
               cost |-> e.cost, since |-> e.since, filing |-> e.filing]
        BY DEF Entries
    <2>2. Accrued(e, t) =
              [e EXCEPT !.cum = e.cum - gain - cost, !.prior = price[t],
                        !.cost = e.cost + cost, !.filing = filing]
        BY <1>3, <1>8 DEF Accrued
    <2> QED
        BY <2>1, <2>2
<1>10. Accrued(e, t) \in Entries
    BY <1>1, <1>3, <1>7, <1>8, <1>9 DEF Entries
<1>11. ASSUME Accounted(e) PROVE Accounted(Accrued(e, t))
    <2>1. e.shares * (e.basis - price[t]) = e.shares * (e.basis - e.prior) - gain
        BY <1>1, <1>7, <1>8
    <2>2. e.cum - gain - cost = e.shares * (e.basis - price[t]) - (e.cost + cost)
        <3>1. PICK kept \in Int : kept = e.shares * (e.basis - e.prior)
            BY <1>7
        <3> QED
            BY <1>3, <1>7, <1>8, <1>11, <2>1, <3>1 DEF Accounted
    <2> QED
        BY <1>9, <2>2 DEF Accounted
<1> QED
    BY <1>5, <1>6, <1>10, <1>11

\* So marking makes a book of a book.
LEMMA BookFact ==
    ASSUME TypeOK, NEW book \in States, NEW marked \in SUBSET Ticker
    PROVE  LET new == [s \in Series |-> Advance(book[s], Hedges(s, marked), marked)]
           IN  new \in States /\ (Telescopes(book) => Telescopes(new))
<1> DEFINE new == [s \in Series |-> Advance(book[s], Hedges(s, marked), marked)]
<1>1. ASSUME NEW s \in Series, NEW t \in Ticker
      PROVE  /\ new[s][t] \in Entries
             /\ Accounted(book[s][t]) => Accounted(new[s][t])
    <2>1. PICK e \in Entries : e = book[s][t]
        BY DEF States
    <2>2. new[s][t] \in {e, Accrued(e, t), Inception(t)}
        BY <2>1 DEF Advance
    <2> QED
        BY <2>1, <2>2, EntryFact
<1>2. new \in States
    <2>1. ASSUME NEW s \in Series PROVE new[s] \in [Ticker -> Entries]
        <3>1. new[s] = [t \in Ticker |-> new[s][t]]
            BY DEF Advance
        <3> HIDE DEF new
        <3> QED
            BY <1>1, <3>1
    <2> QED
        BY <2>1 DEF States
<1>3. ASSUME Telescopes(book) PROVE Telescopes(new)
    <2> HIDE DEF new
    <2> QED
        BY <1>1, <1>3 DEF Telescopes, Accounted
<1> QED
    BY <1>2, <1>3

\* The sums of a row are integers, the value of the longs a natural number.
LEMMA SumsFact ==
    ASSUME TypeOK, NEW book \in States, NEW s \in Series, NEW marked \in SUBSET Ticker
    PROVE  Pnl(book[s], Hedges(s, marked), marked) \in Int /\ LongsNav(marked) \in Nat
<1>1. Pnl(book[s], Hedges(s, marked), marked) \in Int
    <2> DEFINE hedges == Hedges(s, marked)
               cum == [t \in hedges |-> book[s][t].cum]
    <2>1. hedges \subseteq Ticker /\ IsFiniteSet(hedges)
        BY ShadowAssumption, FS_Subset DEF Hedges
    <2>2. \A t \in hedges : cum[t] \in Int
        BY <2>1 DEF States, Entries
    <2> HIDE DEF cum
    <2>3. SumOver(cum, hedges) \in Int
        BY <2>1, <2>2, SumOfIntegers
    <2> QED
        BY <2>3, PnlIsSum DEF cum
<1>2. LongsNav(marked) \in Nat
    <2> DEFINE longs == Long \cap marked
               worth == [t \in longs |-> (Scale \div price[t]) * price[t]]
    <2>1. longs \subseteq Ticker /\ IsFiniteSet(longs)
        BY ShadowAssumption, FS_Subset
    <2>2. \A t \in longs : worth[t] \in 0 .. Scale
        BY <2>1, Division, ShadowAssumption DEF TypeOK
    <2>3. Cardinality(longs) \in Nat /\ Scale \in Nat
        BY <2>1, FS_CardinalityType, ShadowAssumption
    <2> HIDE DEF worth, longs
    <2>4. SumOver(worth, longs) \in 0 .. Scale * Cardinality(longs)
        BY <2>1, <2>2, <2>3, SumOfBounded
    <2>5. SumOver(worth, longs) \in Nat
        BY <2>3, <2>4
    <2> QED
        BY <2>5, LongsNavIsSum DEF worth, longs
<1> QED
    BY <1>1, <1>2

-----------------------------------------------------------------------------
(***************************************************************************)
(* The steps.                                                              *)
(***************************************************************************)

\* The empty book is a book, and accounts for nothing.
LEMMA InitType == Init => TypeOK /\ AccruedInv
<1> SUFFICES ASSUME Init PROVE TypeOK /\ AccruedInv
    OBVIOUS
<1>1. NoEntry \in Entries
    BY ShadowAssumption DEF NoEntry, Entries
<1>2. file \in States /\ state = file
    BY <1>1 DEF Init, States
<1>3. /\ NoRow.longs \in Nat /\ NoRow.pnl \in [Series -> Int]
      /\ NoRow.puts \subseteq Ticker /\ NoRow.marked \subseteq Ticker
    BY DEF NoRow
<1>4. TypeOK
    <2>1. 0 \in 0 .. MaxDay /\ 1 \in 1 .. MaxFiling
        BY ShadowAssumption
    <2> QED
        BY <1>2, <1>3, <2>1 DEF Init, TypeOK
<1>5. Telescopes(file)
    BY DEF Init, Telescopes, NoEntry
<1> QED
    BY <1>2, <1>4, <1>5 DEF AccruedInv

\* The state keeps its types, and the books go on to telescope.
LEMMA TypeStep ==
    ASSUME TypeOK, AccruedInv, [Next]_vars
    PROVE  TypeOK' /\ AccruedInv'
<1> USE DEF TypeOK, AccruedInv, Telescopes, world
<1>1. CASE NextDay
    <2>1. MaxDay \in Nat
        BY ShadowAssumption
    <2>2. day' \in 0 .. MaxDay
        BY <1>1, <2>1 DEF NextDay
    <2>3. ran' = FALSE
        BY <1>1 DEF NextDay
    <2> QED
        BY <1>1, <2>2, <2>3 DEF NextDay
<1>2. CASE NewFiling
    <2>1. filing' \in 1 .. MaxFiling
        BY <1>2, ShadowAssumption DEF NewFiling
    <2> QED
        BY <1>2, <2>1 DEF NewFiling
<1>3. CASE Run
    <2>1. PICK marked \in SUBSET Ticker : Mark(marked)
        BY <1>3 DEF Run
    <2> DEFINE new == [s \in Series |-> Advance(file[s], Hedges(s, marked), marked)]
    <2>2. state' = new /\ UNCHANGED <<price, puts, filing, day, file, row, ahead>>
        BY <2>1 DEF Mark
    <2>3. new \in States /\ Telescopes(new)
        BY BookFact
    <2>4. ASSUME NEW s \in Series
          PROVE  Pnl(state'[s], Hedges(s, marked), marked) \in Int
        BY <2>2, <2>3, SumsFact
    <2>5. /\ next'.longs = LongsNav(marked) /\ next'.marked = marked
          /\ next'.puts = {t \in Ticker : puts[t] > 0}
          /\ next'.pnl = [s \in Series |-> Pnl(state'[s], Hedges(s, marked), marked)]
        BY <2>1 DEF Mark
    <2>6. LongsNav(marked) \in Nat
        BY <2>3, SumsFact DEF Series
    <2> HIDE DEF new
    <2>7. TypeOK'
        BY <2>1, <2>2, <2>3, <2>4, <2>5, <2>6 DEF Mark
    <2> QED
        BY <2>2, <2>3, <2>7
<1>4. CASE SaveState
    BY <1>4 DEF SaveState
<1>5. CASE AppendRow
    BY <1>5 DEF AppendRow
<1>6. CASE Crash
    BY <1>6 DEF Crash
<1>7. CASE UNCHANGED vars
    BY <1>7 DEF vars
<1> QED
    BY <1>1, <1>2, <1>3, <1>4, <1>5, <1>6, <1>7, Zenon DEF Next

\* The empty record agrees with the empty book.
LEMMA InitRow ==
    ASSUME Init, NEW s \in Series, NEW scope
    PROVE  RowInv(s, scope)
<1>1. Total(file[s], {}) = 0
    <2>1. Pnl(file[s], {}, {}) = SumOver([t \in {} |-> file[s][t].cum], {})
        BY PnlIsSum
    <2>2. SumOver([t \in {} |-> file[s][t].cum], {}) = 0
        BY PartialFact, FS_EmptySet DEF SumOver, Added
    <2> QED
        BY <2>1, <2>2 DEF Pnl, Total
<1>2. row.pnl[s] = 0 /\ row.puts = {}
    BY DEF Init, NoRow
<1>3. row.puts \cap scope = {}
    BY <1>2
<1> QED
    BY <1>1, <1>2, <1>3 DEF Init, RowInv

\* A row is put together from the book that is saved before it is appended.
LEMMA RowStep ==
    ASSUME NEW s \in Series, NEW scope, RowInv(s, scope), [Next]_vars,
           Run => \E marked \in SUBSET Ticker :
                      /\ Mark(marked)
                      /\ Hedges(s, marked) = {t \in Ticker : puts[t] > 0} \cap scope
    PROVE  RowInv(s, scope)'
<1> USE DEF RowInv, world
<1>1. CASE NextDay \/ NewFiling \/ Crash
    BY <1>1 DEF NextDay, NewFiling, Crash
<1>2. CASE Run
    <2>1. PICK marked \in SUBSET Ticker :
              /\ Mark(marked)
              /\ Hedges(s, marked) = {t \in Ticker : puts[t] > 0} \cap scope
        BY <1>2
    <2>2. next'.pnl[s] = Pnl(state'[s], Hedges(s, marked), marked)
        BY <2>1 DEF Mark
    <2>3. next'.puts \cap scope = Hedges(s, marked)
        BY <2>1 DEF Mark
    <2>4. next'.pnl[s] = Total(state'[s], next'.puts \cap scope)
        BY <2>2, <2>3 DEF Pnl, Total
    <2> QED
        BY <2>1, <2>4 DEF Mark
<1>3. CASE SaveState
    BY <1>3 DEF SaveState
<1>4. CASE AppendRow
    BY <1>4 DEF AppendRow
<1>5. CASE UNCHANGED vars
    BY <1>5 DEF vars
<1> QED
    BY <1>1, <1>2, <1>3, <1>4, <1>5 DEF Next

-----------------------------------------------------------------------------
(***************************************************************************)
(* The theorems.                                                           *)
(***************************************************************************)

\* The types and the books, whatever goes wrong.
THEOREM ShadowInvariant == Spec => [](TypeOK /\ AccruedInv)
<1>1. TypeOK /\ AccruedInv /\ [Next]_vars => (TypeOK /\ AccruedInv)'
    BY TypeStep
<1> QED
    BY <1>1, InitType, PTL DEF Spec

\* Prices, notionals, both states and both rows stay in their ranges.
THEOREM ShadowTypeCorrect == Spec => []TypeOK
BY ShadowInvariant, PTL

\* The P&L that the state file has accrued on a put is the gain of its frozen
\* short position since the basis, less what was charged, over any number of
\* days, filings, missing marks, second runs and crashes.
THEOREM AccrualTelescopes == Spec => []PnlFromFrozenBasis
<1>1. AccruedInv => PnlFromFrozenBasis
    BY DEF AccruedInv, Telescopes, PnlFromFrozenBasis
<1> QED
    BY <1>1, ShadowInvariant, PTL

\* Unless a run died between its two files, the last row of the record gives
\* the sum of the accruals in the state file.
THEOREM RecordFollowsState == Spec => []RowMatchesState
<1>1. "full" \in Series
    BY DEF Series
<1>2. Init => RowInv("full", Ticker)
    BY <1>1, InitRow
<1>3. ASSUME RowInv("full", Ticker), [Next]_vars PROVE RowInv("full", Ticker)'
    <2>1. ASSUME Run
          PROVE  \E marked \in SUBSET Ticker :
                     /\ Mark(marked)
                     /\ Hedges("full", marked) = {t \in Ticker : puts[t] > 0} \cap Ticker
        BY <2>1 DEF Run, Hedges
    <2> QED
        BY <1>1, <1>3, <2>1, RowStep
<1>4. TypeOK /\ RowInv("full", Ticker) => RowMatchesState
    <2> SUFFICES ASSUME TypeOK, RowInv("full", Ticker) PROVE RowMatchesState
        OBVIOUS
    <2>1. row.puts \cap Ticker = row.puts
        BY DEF TypeOK
    <2> QED
        BY <2>1 DEF RowInv, RowMatchesState, Total
<1> QED
    BY <1>2, <1>3, <1>4, ShadowTypeCorrect, PTL DEF Spec

\* So it does of the puts whose ticker is one of the longs, as long as every
\* close can be fetched (when one cannot, it does not).
THEOREM MatchedRecordFollowsState == ClosesComplete => (Spec => []MissingMarkCarries)
<1> SUFFICES ASSUME ClosesComplete PROVE Spec => []MissingMarkCarries
    OBVIOUS
<1>1. "matched" \in Series
    BY DEF Series
<1>2. Init => RowInv("matched", Long)
    BY <1>1, InitRow
<1>3. ASSUME RowInv("matched", Long), [Next]_vars PROVE RowInv("matched", Long)'
    <2>1. ASSUME Run
          PROVE  \E marked \in SUBSET Ticker :
                     /\ Mark(marked)
                     /\ Hedges("matched", marked) = {t \in Ticker : puts[t] > 0} \cap Long
        <3>1. Mark(Ticker)
            BY <2>1 DEF Run, ClosesComplete
        <3>2. Hedges("matched", Ticker) = {t \in Ticker : puts[t] > 0} \cap Long
            BY DEF Hedges
        <3> QED
            BY <3>1, <3>2
    <2> QED
        BY <1>1, <1>3, <2>1, RowStep
<1>4. RowInv("matched", Long) => MissingMarkCarries
    BY DEF RowInv, MissingMarkCarries, Total
<1> QED
    BY <1>2, <1>3, <1>4, PTL DEF Spec
\* A day's mark charges every put once.
LEMMA ChargeFact ==
    ASSUME TypeOK, NEW t \in Ticker, NEW e \in Entries,
           Present(e) => e.cost = puts[t] * Rate * ((day - 1) - e.since + 1)
    PROVE  /\ Inception(t).cost = puts[t] * Rate * (day - Inception(t).since + 1)
           /\ Present(e) =>
                  Accrued(e, t).cost = puts[t] * Rate * (day - Accrued(e, t).since + 1)
<1>1. puts[t] \in Nat /\ Rate \in Nat /\ day \in Int /\ e.since \in Int /\ e.cost \in Int
    BY ShadowAssumption DEF TypeOK, Entries
<1>2. PICK cost \in Nat : cost = puts[t] * Rate
    BY <1>1
<1>3. Inception(t).cost = cost /\ Inception(t).since = day /\ day - day + 1 = 1
    BY <1>1, <1>2 DEF Inception
<1>4. Accrued(e, t).cost = e.cost + cost /\ Accrued(e, t).since = e.since
    BY <1>2 DEF Accrued, Entries
<1>5. cost * (day - e.since + 1) = cost * ((day - 1) - e.since + 1) + cost
    BY <1>1, <1>2
<1> QED
    BY <1>1, <1>2, <1>3, <1>4, <1>5

\* Under the first filing every day is charged once.
LEMMA CostStep ==
    ASSUME OnceADay, TypeOK, CostInv, [Next]_vars
    PROVE  CostInv'
<1> USE DEF CostInv, world
<1>1. CASE NextDay
    <2>1. ran /\ pc = "idle" /\ day' = day + 1 /\ ~ ran' /\ UNCHANGED <<filing, file, puts, pc>>
        BY <1>1 DEF NextDay, OnceADay
    <2>2. day' - 1 = day
        BY <2>1 DEF TypeOK
    <2> QED
        BY <2>1, <2>2 DEF Charged
<1>2. CASE NewFiling
    <2>1. filing' # 1
        BY <1>2 DEF NewFiling, TypeOK
    <2> QED
        BY <2>1
<1>3. CASE Run
    <2>1. Mark(Ticker) /\ ~ ran
        BY <1>3 DEF Run, Mark, OnceADay, ClosesComplete
    <2>2. /\ state' = [s \in Series |-> Advance(file[s], Hedges(s, Ticker), Ticker)]
          /\ ran' /\ pc' = "save" /\ UNCHANGED <<puts, filing, day>>
        BY <2>1 DEF Mark
    <2>3. ASSUME filing = 1, NEW t \in Ticker, Present(state'["full"][t])
          PROVE  state'["full"][t].cost =
                     puts[t] * Rate * (day - state'["full"][t].since + 1)
        <3>1. PICK e \in Entries : e = file["full"][t]
            BY DEF TypeOK, States, Series
        <3>2. Present(e) => e.cost = puts[t] * Rate * ((day - 1) - e.since + 1)
            BY <2>1, <2>3, <3>1 DEF Mark, Charged
        <3>3. state'["full"][t] =
                  IF puts[t] > 0 THEN IF Present(e) THEN Accrued(e, t) ELSE Inception(t)
                  ELSE e
            BY <2>2, <3>1 DEF Advance, Hedges, Series
        <3>4. CASE puts[t] > 0
            BY <3>2, <3>3, <3>4, ChargeFact
        <3>5. CASE ~ (puts[t] > 0)
            <4>1. state'["full"][t] = e /\ Present(e)
                BY <2>3, <3>3, <3>5
            <4>2. /\ puts[t] = 0 /\ Rate \in Nat /\ day \in Int /\ e.since \in Int
                BY <3>5, ShadowAssumption DEF TypeOK, Entries
            <4>3. \A n \in Int : 0 * Rate * n = 0
                BY <4>2
            <4>4. e.cost = 0 /\ puts[t] * Rate * (day - e.since + 1) = 0
                BY <3>2, <4>1, <4>2, <4>3
            <4> QED
                BY <4>1, <4>4
        <3> QED
            BY <3>4, <3>5
    <2> QED
        BY <2>2, <2>3 DEF Charged
<1>4. CASE SaveState
    BY <1>4 DEF SaveState, Charged
<1>5. CASE AppendRow
    BY <1>5 DEF AppendRow, Charged
<1>6. CASE Crash
    BY <1>6 DEF Crash, OnceADay
<1>7. CASE UNCHANGED vars
    BY <1>7 DEF vars, Charged
<1> QED
    BY <1>1, <1>2, <1>3, <1>4, <1>5, <1>6, <1>7 DEF Next

\* A put is charged its cost per day, as long as every day has one run that gets
\* to its end (when a day has two, or none, it is not).
THEOREM CostIsPerDay == OnceADay => (Spec => []CostPerDay)
<1> SUFFICES ASSUME OnceADay PROVE Spec => []CostPerDay
    OBVIOUS
<1>1. Init => CostInv
    BY DEF Init, CostInv, Charged, Present, Series
<1>2. TypeOK /\ CostInv /\ [Next]_vars => CostInv'
    BY CostStep
<1>3. CostInv => CostPerDay
    BY DEF CostInv, Charged, CostPerDay
<1> QED
    BY <1>1, <1>2, <1>3, ShadowTypeCorrect, PTL DEF Spec
=============================================================================
