----------------------------- MODULE GuardProofs -----------------------------
(***************************************************************************)
(* The properties of DrawdownGuard, for any set of tickers, any prices and *)
(* levels, and whatever fails.                                             *)
(***************************************************************************)
EXTENDS DrawdownGuard, Sums

-----------------------------------------------------------------------------
(***************************************************************************)
(* The invariants.                                                         *)
(***************************************************************************)

\* Where TypeOK only bounds a number, it is one.
NumberInv == hwm \in Int /\ best \in Int

\* The mark covers every NAV that the guard has read, the one it is at included.
RatchetInv ==
    best <= hwm \/ (gpc = "ratchet" /\ best = nav)

\* As long as nothing has happened to it, total is the book's value and the rest.
AccountInv == rpc \in {"check", "write"} /\ exact => total = TrueNav + alien

-----------------------------------------------------------------------------
(***************************************************************************)
(* The types.                                                              *)
(***************************************************************************)

\* What the assumption says of the constants, as numbers.
LEMMA ConstantsFact ==
    /\ IsFiniteSet(Ticker) /\ Cardinality(Ticker) \in Nat
    /\ MaxPrice \in Nat /\ Cash \in Nat /\ MaxForeign \in Nat /\ Tolerance \in Nat
    /\ CostBasis \in Nat /\ HaltLevel \in Nat /\ HaltLevel <= CostBasis /\ Day \in Nat \ {0}
    /\ MaxPrice * Cardinality(Ticker) \in Nat
<1>1. IsFiniteSet(Ticker) /\ Cardinality(Ticker) \in Nat /\ MaxPrice \in Nat
    BY GuardAssumption, FS_CardinalityType
<1>2. MaxPrice * Cardinality(Ticker) \in Nat
    BY <1>1
<1> QED
    BY <1>1, <1>2, GuardAssumption

\* own_nav of any part of the positions is in its range.
LEMMA OwnNavType ==
    ASSUME price \in [Ticker -> 1 .. MaxPrice], NEW q \in SUBSET Ticker
    PROVE  OwnNav(q) \in Navs /\ OwnNav(q) \in Nat /\ OwnNav(q) >= Cash
<1>1. IsFiniteSet(q)
    BY ConstantsFact, FS_Subset
<1>2. Worth(q) = SumOver(price, q)
    BY DEF Worth, MapThenSumSet, MapThenFoldSet, SumOver, Partial, Added, Pick
<1>3. \A t \in q : price[t] \in 0 .. MaxPrice
    BY ConstantsFact
<1>4. /\ SumOver(price, q) \in 0 .. MaxPrice * Cardinality(q)
      /\ MaxPrice * Cardinality(q) \in 0 .. MaxPrice * Cardinality(Ticker)
    BY <1>1, <1>3, ConstantsFact, SumOfBounded
<1> QED
    BY <1>2, <1>4, ConstantsFact DEF OwnNav, Navs

\* No NAV is below zero.
LEMMA NavFact == (\A n \in Navs : n \in Int /\ n >= 0) /\ 0 \in Navs
BY ConstantsFact DEF Navs

\* The first state is typed.
LEMMA InitType == Init => TypeOK /\ NumberInv
<1> SUFFICES ASSUME Init PROVE TypeOK /\ NumberInv
    OBVIOUS
<1>1. hwm = CostBasis /\ state = [file |-> "none", nav |-> 0]
    BY DEF Init, NoMark, NoState
<1>2. state \in [file : {"none", "ok"}, nav : Navs]
    BY <1>1, NavFact, Zenon
<1>3. /\ killed \in BOOLEAN /\ runDue \in BOOLEAN /\ degraded \in BOOLEAN
      /\ guardDue \in BOOLEAN /\ halved \in BOOLEAN /\ real \in BOOLEAN
      /\ exact \in BOOLEAN
    BY Zenon DEF Init
<1>4. hwm \in Int /\ hwm >= CostBasis
    BY <1>1, ConstantsFact
<1>5. hour \in 0 .. Day - 1 /\ best >= CostBasis /\ best \in Int
    BY ConstantsFact DEF Init
<1>6. /\ price \in [Ticker -> 1 .. MaxPrice] /\ down \subseteq Ticker
      /\ rpc = "off" /\ gpc = "idle" /\ nav \in Navs
    BY NavFact DEF Init
<1>7. /\ total \in 0 .. Cash + MaxPrice * Cardinality(Ticker) + MaxForeign
      /\ alien \in 0 .. MaxForeign
    BY ConstantsFact DEF Init
<1> QED
    BY <1>2, <1>3, <1>4, <1>5, <1>6, <1>7 DEF TypeOK, NumberInv

\* The state keeps its types.
LEMMA TypeStep ==
    ASSUME TypeOK, NumberInv, [Next]_vars
    PROVE  TypeOK' /\ NumberInv'
<1> USE DEF TypeOK, NumberInv, market, runner, guard
<1>1. CASE MovePrice \/ Quotes
    <2>1. exact' \in BOOLEAN
        BY <1>1, Zenon DEF MovePrice, Quotes
    <2> QED
        BY <1>1, <2>1 DEF MovePrice, Quotes
<1>2. CASE Tick
    <2>1. hour' \in 0 .. Day - 1
        BY <1>2, ConstantsFact DEF Tick
    <2>2. runDue' \in BOOLEAN /\ guardDue' \in BOOLEAN
        BY <1>2, Zenon DEF Tick
    <2> QED
        BY <1>2, <2>1, <2>2 DEF Tick
<1>3. CASE RemoveKill \/ RunStarts \/ DryRunStarts
    <2>1. CASE RemoveKill
        BY <2>1 DEF RemoveKill
    <2>2. CASE RunStarts
        <3>1. runDue' \in BOOLEAN /\ rpc' \in {"off", "cycle"}
            BY <2>2, Zenon DEF RunStarts
        <3> QED
            BY <2>2, <3>1 DEF RunStarts
    <2>3. CASE DryRunStarts
        BY <2>3 DEF DryRunStarts
    <2> QED
        BY <1>3, <2>1, <2>2, <2>3
<1>4. CASE ReadAccount
    <2> DEFINE q == Ticker \ down
    <2>1. PICK foreign \in 0 .. MaxForeign, owed \in Owed :
              /\ total' = OwnNav(q) + foreign - owed
              /\ alien' = foreign
              /\ exact' = (owed = 0 /\ down = {})
        BY <1>4 DEF ReadAccount
    <2>2. /\ OwnNav(q) \in Int /\ OwnNav(q) >= Cash
          /\ OwnNav(q) <= Cash + MaxPrice * Cardinality(Ticker)
        BY OwnNavType, ConstantsFact DEF Navs
    <2>3. owed \in 0 .. Cash
        BY <2>1, ConstantsFact DEF Owed
    <2>4. exact' \in BOOLEAN
        BY <2>1, Zenon
    <2> HIDE DEF q
    <2>5. total' \in 0 .. Cash + MaxPrice * Cardinality(Ticker) + MaxForeign
        BY <2>1, <2>2, <2>3, ConstantsFact
    <2> QED
        BY <1>4, <2>1, <2>4, <2>5 DEF ReadAccount
<1>5. CASE CheckQuotes
    <2>1. degraded' \in BOOLEAN
        BY <1>5, Zenon DEF CheckQuotes
    <2> QED
        BY <1>5, <2>1 DEF CheckQuotes
<1>6. CASE WriteState
    <2>1. OwnNav(Ticker \ down) \in Navs
        BY OwnNavType
    <2>2. state' = [file |-> "ok", nav |-> OwnNav(Ticker \ down)]
        BY <1>6 DEF WriteState
    <2>3. state' \in [file : {"none", "ok"}, nav : Navs]
        BY <2>1, <2>2, Zenon
    <2>4. degraded' \in BOOLEAN /\ exact' \in BOOLEAN
        BY <1>6, Zenon DEF WriteState, RunEnds
    <2>7. halved' \in BOOLEAN
        BY <1>6 DEF WriteState
    <2>5. total' = 0 /\ alien' = 0 /\ rpc' = "off"
        BY <1>6 DEF WriteState, RunEnds
    <2>6. UNCHANGED <<market, hour, hwm, killed, runDue, guard>>
        BY <1>6 DEF WriteState
    <2> QED
        BY <2>3, <2>4, <2>5, <2>6, <2>7, ConstantsFact
<1>7. CASE RunFails
    <2>1. degraded' \in BOOLEAN /\ exact' \in BOOLEAN
        BY <1>7, Zenon DEF RunFails, RunEnds
    <2>2. total' = 0 /\ alien' = 0 /\ rpc' = "off"
        BY <1>7 DEF RunFails, RunEnds
    <2> QED
        BY <1>7, <2>1, <2>2, ConstantsFact DEF RunFails
<1>8. CASE GuardReads
    <2>1. state.nav \in Navs
        OBVIOUS
    <2>2. state.nav \in Int
        BY <2>1, NavFact, Zenon
    <2>3. best' \in Int /\ best' >= CostBasis
        BY <1>8, <2>2, ConstantsFact DEF GuardReads, Larger
    <2>4. nav' \in Navs
        BY <1>8, <2>1 DEF GuardReads
    <2>5. gpc' \in {"idle", "ratchet", "decide"}
        BY <1>8 DEF GuardReads
    <2>6. guardDue' \in BOOLEAN /\ real' \in BOOLEAN
        BY <1>8, Zenon DEF GuardReads
    <2>7. UNCHANGED <<market, hour, state, hwm, killed, runner, halved>>
        BY <1>8 DEF GuardReads
    <2> QED
        BY <2>3, <2>4, <2>5, <2>6, <2>7
<1>9. CASE GuardRatchets
    <2>1. nav \in Int /\ hwm' = Peak
        BY <1>9, NavFact DEF GuardRatchets
    <2>2. Peak \in Int /\ Peak >= CostBasis
        BY <2>1, ConstantsFact DEF Peak, Larger
    <2> QED
        BY <1>9, <2>1, <2>2 DEF GuardRatchets
<1>10. CASE GuardDies
    <2>1. hwm' = CostBasis
        BY <1>10 DEF GuardDies, NoMark
    <2>2. real' \in BOOLEAN
        BY <1>10, Zenon DEF GuardDies, GuardEnds
    <2> QED
        BY <1>10, <2>1, <2>2, ConstantsFact, NavFact DEF GuardDies, GuardEnds
<1>11. CASE GuardDecides
    <2>1. killed' \in BOOLEAN /\ real' \in BOOLEAN
        BY <1>11, Zenon DEF GuardDecides, GuardEnds
    <2> QED
        BY <1>11, <2>1, NavFact DEF GuardDecides, GuardEnds
<1>12. CASE UNCHANGED vars
    BY <1>12 DEF vars
<1> QED
    BY <1>1, <1>2, <1>3, <1>4, <1>5, <1>6, <1>7, <1>8, <1>9, <1>10, <1>11, <1>12, Zenon
    DEF Next, Runner, Guard

-----------------------------------------------------------------------------
(***************************************************************************)
(* The steps of the other invariants.                                      *)
(***************************************************************************)

\* What is read is ratcheted in before anything is decided, and a mark that is
\* lost takes what it stood for along.
LEMMA RatchetStep ==
    ASSUME TypeOK, NumberInv, RatchetInv, [Next]_vars
    PROVE  RatchetInv'
<1> USE DEF RatchetInv, market, runner, guard
<1>1. nav \in Int /\ state.nav \in Int /\ hwm \in Int /\ best \in Int
    BY NavFact DEF TypeOK, NumberInv
<1>2. CASE MovePrice \/ Quotes \/ Tick \/ RemoveKill \/ DryRunStarts \/ RunFails
    BY <1>2 DEF MovePrice, Quotes, Tick, RemoveKill, DryRunStarts, RunFails
<1>3. CASE Runner
    BY <1>3 DEF Runner, RunStarts, ReadAccount, CheckQuotes, WriteState
<1>4. CASE GuardReads
    BY <1>1, <1>4 DEF GuardReads, Larger
<1>5. CASE GuardRatchets
    <2>1. hwm' = Peak /\ best' = best /\ nav' = nav
        BY <1>5 DEF GuardRatchets
    <2>2. Peak >= hwm /\ Peak >= nav /\ Peak \in Int
        BY <1>1, ConstantsFact DEF Peak, Larger
    <2> QED
        BY <1>1, <2>1, <2>2
<1>6. CASE GuardDecides
    BY <1>6 DEF GuardDecides
<1>7. CASE GuardDies
    <2>1. hwm' = CostBasis /\ best' = CostBasis
        BY <1>7 DEF GuardDies, NoMark
    <2> QED
        BY <2>1, ConstantsFact
<1>8. CASE UNCHANGED vars
    BY <1>8 DEF vars
<1> QED
    BY <1>2, <1>3, <1>4, <1>5, <1>6, <1>7, <1>8, Zenon DEF Next, Guard

\* A total that was read with every quote and all the cash stays what it says
\* until a price moves.
LEMMA AccountStep ==
    ASSUME TypeOK, AccountInv, [Next]_vars
    PROVE  AccountInv'
<1> USE DEF AccountInv, market, runner, guard
<1>1. ASSUME UNCHANGED price PROVE TrueNav' = TrueNav
    BY <1>1 DEF TrueNav, OwnNav, Worth, MapThenSumSet, MapThenFoldSet
<1>2. CASE MovePrice
    <2>1. ASSUME exact' PROVE exact /\ UNCHANGED price
        BY <1>2, <2>1 DEF MovePrice
    <2> QED
        BY <1>1, <1>2, <2>1 DEF MovePrice
<1>3. CASE Quotes \/ Tick \/ RemoveKill \/ Guard \/ GuardDies \/ UNCHANGED vars
    BY <1>1, <1>3 DEF Quotes, Tick, RemoveKill, Guard, GuardReads, GuardRatchets,
       GuardDecides, GuardDies, vars
<1>4. CASE RunStarts \/ DryRunStarts \/ WriteState \/ RunFails
    BY <1>4 DEF RunStarts, DryRunStarts, WriteState, RunFails, RunEnds
<1>5. CASE ReadAccount
    <2>1. PICK foreign \in 0 .. MaxForeign, owed \in Owed :
              /\ total' = OwnNav(Ticker \ down) + foreign - owed
              /\ alien' = foreign
              /\ exact' = (owed = 0 /\ down = {})
        BY <1>5 DEF ReadAccount
    <2>2. ASSUME exact' PROVE total' = TrueNav' + alien'
        <3>1. owed = 0 /\ down = {} /\ Ticker \ {} = Ticker
            BY <2>1, <2>2
        <3>2. TrueNav' = TrueNav /\ TrueNav \in Nat
            BY <1>1, <1>5, OwnNavType DEF ReadAccount, TypeOK, TrueNav
        <3>3. total' = TrueNav + foreign - 0
            BY <2>1, <3>1 DEF TrueNav
        <3> QED
            BY <2>1, <3>2, <3>3
    <2> QED
        BY <2>2
<1>6. CASE CheckQuotes
    BY <1>1, <1>6 DEF CheckQuotes
<1> QED
    BY <1>2, <1>3, <1>4, <1>5, <1>6, Zenon DEF Next, Runner

-----------------------------------------------------------------------------
(***************************************************************************)
(* The theorems.                                                           *)
(***************************************************************************)

\* The guard's types and its ratchet, whatever fails.
THEOREM GuardInvariant == Spec => [](TypeOK /\ NumberInv /\ RatchetInv)
<1>1. Init => TypeOK /\ NumberInv /\ RatchetInv
    <2>1. Init => RatchetInv
        BY ConstantsFact DEF Init, NoMark, RatchetInv
    <2> QED
        BY <2>1, InitType
<1>2. TypeOK /\ NumberInv /\ RatchetInv /\ [Next]_vars => (TypeOK /\ NumberInv /\ RatchetInv)'
    BY TypeStep, RatchetStep
<1> QED
    BY <1>1, <1>2, PTL DEF Spec

\* Every field of state.json, of the mark and of the two processes stays in its
\* range, whatever fails.
THEOREM GuardTypeCorrect == Spec => []TypeOK
BY GuardInvariant, PTL

\* drift_flag is never set when a quote was missing in the round that asks for it;
\* and with every quote there in all three rounds, all the cash in buying power and
\* prices that stand still in between, it is set if and only if there is more
\* foreign capital in the account than the tolerance.
THEOREM DriftExplained == Spec => DriftIsExplained
<1>1. Init => AccountInv
    BY DEF Init, AccountInv
<1>2. TypeOK /\ AccountInv /\ [Next]_vars => AccountInv'
    BY AccountStep
<1>3. ASSUME TypeOK, AccountInv, WriteState
      PROVE  /\ DriftFlag => ~ degraded
             /\ ~ degraded /\ down = {} /\ exact
                  => (DriftFlag <=> alien > Tolerance)
    <2>1. ASSUME ~ degraded, down = {}, exact
          PROVE  DriftFlag <=> alien > Tolerance
        <3>1. Ticker \ {} = Ticker
            OBVIOUS
        <3>2. total = TrueNav + alien /\ TrueNav \in Nat
            BY <1>3, <2>1, OwnNavType DEF AccountInv, WriteState, TypeOK, TrueNav
        <3>3. DriftFlag <=> total - TrueNav > Tolerance \/ TrueNav - total > Tolerance
            BY <2>1, <3>1, Zenon DEF DriftFlag, Drift, TrueNav
        <3>4. alien \in Nat
            BY <1>3, ConstantsFact DEF TypeOK
        <3>5. total - TrueNav = alien /\ TrueNav - total = 0 - alien
            BY <3>2, <3>4
        <3> QED
            BY <3>3, <3>4, <3>5, ConstantsFact
    <2> QED
        BY <2>1, Zenon DEF DriftFlag, Drift
<1>4. TypeOK /\ AccountInv /\ [Next]_vars
        => [WriteState => /\ DriftFlag => ~ degraded
                          /\ ~ degraded /\ down = {} /\ exact
                               => (DriftFlag <=> alien > Tolerance)]_vars
    BY <1>3, Zenon
<1> QED
    BY <1>1, <1>2, <1>4, GuardTypeCorrect, PTL DEF Spec, DriftIsExplained

\* The guard says that all is well only when the NAV it has read is above three
\* quarters of the highest it has read since the mark was last lost, whatever
\* fails.
THEOREM DrawdownIsReported == Spec => WarnsOnDrawdown
<1>1. ASSUME TypeOK, NumberInv, RatchetInv, GuardDecides, AllIsWell
      PROVE  4 * nav > 3 * best
    <2>1. nav \in Int /\ hwm \in Int /\ best \in Int
        BY <1>1, NavFact DEF TypeOK, NumberInv
    <2>2. gpc = "decide" /\ ~ (4 * nav <= 3 * hwm)
        BY <1>1 DEF GuardDecides, AllIsWell, Warning
    <2>3. best <= hwm
        BY <1>1, <2>2 DEF RatchetInv
    <2> QED
        BY <2>1, <2>2, <2>3
<1>2. TypeOK /\ NumberInv /\ RatchetInv /\ [Next]_vars
        => [GuardDecides /\ AllIsWell => 4 * nav > 3 * best]_vars
    BY <1>1
<1> QED
    BY <1>2, GuardInvariant, PTL DEF Spec, WarnsOnDrawdown
=============================================================================
