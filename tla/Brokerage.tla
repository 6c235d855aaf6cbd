---------------------------- MODULE Brokerage ----------------------------
(***************************************************************************)
(* The broker account behind src/src/mcp/robinhood_client.py, as far as    *)
(* the client can tell: a market order is accepted or refused, an accepted *)
(* order fills in pieces or is cancelled at the close (the client sends    *)
(* time_in_force "gfd"), and an order the client has stopped watching goes *)
(* on resting at the broker and may still fill.  The account is shared:    *)
(* `foreign` counts the shares in it that are not truleo's.                *)
(*                                                                         *)
(* One unit of shares costs one unit of cash when a plan is built.  The    *)
(* price may have moved by the time the client quotes a buy again, so a    *)
(* buy has two amounts: the shares it is for and the dollars it is sent    *)
(* for.                                                                    *)
(***************************************************************************)
EXTENDS OwnershipLedger

CONSTANTS
    Grain,       \* order quantities are multiples of this many ledger units
    MaxForeign,  \* bound: foreign shares per ticker
    Faults,      \* which faults of the environment may happen
    MaxFaults    \* bound: how many of them in one behaviour

AllFaults ==
    {"veto",    \* a halt, a wide spread or a thin volume vetoes an order
     "slow",    \* an order may stay open longer than the client polls
     "reply",   \* the reply to an order may get lost
     "noid",    \* or names no order
     "requote", \* a buy may be quoted at another price when it is sent
     "poll",    \* the calls that poll an order may fail
     "reread",  \* the second read of the positions may fail
     "crash",   \* the process may die
     "torn",    \* and leave a truncated file
     "owner"}   \* the account's owner trades too

ASSUME GrainAssumption == Grain \in Nat \ {0}
ASSUME MaxForeignAssumption == MaxForeign \in Nat
ASSUME FaultsAssumption == Faults \subseteq AllFaults /\ MaxFaults \in Nat

VARIABLES
    foreign,    \* foreign[t]: shares in the account that are not truleo's
    bot,        \* bot[t]: what truleo's own orders really bought less sold
    bp,         \* buying power: settled cash not reserved by an open buy
    unsettled,  \* proceeds of sells that have not settled yet
    order,      \* the order the client is watching, or NoOrder
    restBuy,    \* restBuy[t]: unfilled part of buys nobody watches any more
    restPay,    \* restPay[t]: the buying power they hold
    restSell,   \* restSell[t]: unfilled part of such sells
    faults      \* how many faults have happened

accountVars == <<foreign, bot, bp, unsettled, order, restBuy, restPay, restSell>>
brokerVars == <<accountVars, faults>>

Fault(f) ==
    /\ f \in Faults
    /\ faults < MaxFaults
    /\ faults' = faults + 1

\* qty is what the executor asked for: positive to buy, negative to sell.  pay
\* is the dollar amount a buy is sent for, 0 for a sell.  want is the number of
\* shares the broker works the order for.
Orders == [tkr : Ticker, qty : Int, pay : Nat, want : Nat, filled : Nat,
           state : {"open", "closed"}]

NoOrder == [tkr |-> "none"]

BrokerTypeOK ==
    /\ foreign \in Shares
    /\ bot \in [Ticker -> Int]
    /\ bp \in Nat
    /\ unsettled \in Nat
    /\ order \in Orders \cup {NoOrder}
    /\ restBuy \in Shares
    /\ restPay \in Shares
    /\ restSell \in Shares
    /\ faults \in 0 .. MaxFaults

\* get_equity_positions does not tell whose shares they are.
Held == [t \in Ticker |-> IF foreign[t] + bot[t] > 0
                          THEN foreign[t] + bot[t] ELSE 0]

-----------------------------------------------------------------------------
(***************************************************************************)
(* What the client's calls do.                                             *)
(***************************************************************************)

\* A sell is sent as round(qty, 6); on a tie the float may go either way.
RoundedSell(n) ==
    {r \in 0 .. n + Grain :
        r % Grain = 0 /\ 2 * (r - n) <= Grain /\ 2 * (n - r) <= Grain}

\* A buy for q shares is sent as pay dollars.  It fills at a price anywhere
\* between the plan's and the one it was quoted at last, on the broker's grid.
BoughtShares(q, pay) ==
    {Grain * (n \div Grain) : n \in IF pay < q THEN pay .. q ELSE q .. pay}

\* The shares the broker can work an order for: a buy needs buying power, a
\* sell needs shares that no other open sell has claimed.
Workable(t, q, pay) ==
    {w \in (IF q > 0 THEN BoughtShares(q, pay) ELSE RoundedSell(- q)) :
        /\ w > 0
        /\ IF q > 0 THEN 0 < pay /\ pay <= bp ELSE w + restSell[t] <= Held[t]}

\* The client watches the order from here on.
Accept(t, q, pay) ==
    /\ \E w \in Workable(t, q, pay) :
        order' = [tkr |-> t, qty |-> q, pay |-> pay, want |-> w, filled |-> 0,
                  state |-> "open"]
    /\ bp' = IF q > 0 THEN bp - pay ELSE bp
    /\ UNCHANGED <<foreign, bot, unsettled, restBuy, restPay, restSell>>

\* The client never learns of the order.
AcceptUnwatched(t, q, pay) ==
    /\ \E w \in Workable(t, q, pay) :
        IF q > 0
        THEN /\ restBuy' = [restBuy EXCEPT ![t] = @ + w]
             /\ restPay' = [restPay EXCEPT ![t] = @ + pay]
             /\ UNCHANGED restSell
        ELSE /\ restSell' = [restSell EXCEPT ![t] = @ + w]
             /\ UNCHANGED <<restBuy, restPay>>
    /\ bp' = IF q > 0 THEN bp - pay ELSE bp
    /\ order' = NoOrder
    /\ UNCHANGED <<foreign, bot, unsettled>>

\* What the broker still works of an order, and the dollars it holds for it.
Rest(o) == IF o.state = "open" /\ o.filled < o.want THEN o.want - o.filled ELSE 0

Unspent(o) ==
    IF o.qty > 0 /\ Rest(o) > 0 THEN (o.pay * Rest(o)) \div o.want ELSE 0

\* The client turns away from the order it was watching, if any: what has not
\* been filled of a live order keeps resting at the broker.
Unwatch ==
    LET add(f, n) == [f EXCEPT ![order.tkr] = @ + n]
    IN  /\ order' = NoOrder
        /\ IF order = NoOrder THEN UNCHANGED <<restBuy, restPay, restSell>>
           ELSE IF order.qty > 0
           THEN /\ restBuy' = add(restBuy, Rest(order))
                /\ restPay' = add(restPay, Unspent(order))
                /\ UNCHANGED restSell
           ELSE /\ restSell' = add(restSell, Rest(order))
                /\ UNCHANGED <<restBuy, restPay>>
        /\ UNCHANGED <<foreign, bot, bp, unsettled>>

-----------------------------------------------------------------------------
(***************************************************************************)
(* What the broker and the account's owner do on their own.                *)
(***************************************************************************)

Pieces(n) == {k \in 1 .. n : k % Grain = 0}

FillOrder ==
    /\ order # NoOrder
    /\ order.state = "open"
    /\ \E n \in Pieces(order.want - order.filled) :
        /\ order' = [order EXCEPT !.filled = @ + n,
                                  !.state = IF order.filled + n < order.want
                                             THEN "open" ELSE "closed"]
        /\ IF order.qty > 0
           THEN /\ bot' = [bot EXCEPT ![order.tkr] = @ + n]
                /\ UNCHANGED unsettled
           ELSE /\ bot' = [bot EXCEPT ![order.tkr] = @ - n]
                /\ unsettled' = unsettled + n
    /\ UNCHANGED <<foreign, bp, restBuy, restPay, restSell, faults>>

CancelOrder ==
    /\ order # NoOrder
    /\ order.state = "open"
    /\ order' = [order EXCEPT !.state = "closed"]
    /\ bp' = bp + Unspent(order)
    /\ UNCHANGED <<foreign, bot, unsettled, restBuy, restPay, restSell, faults>>

FillResting(t) ==
    \/ \E n \in Pieces(restBuy[t]) :
        /\ restBuy' = [restBuy EXCEPT ![t] = @ - n]
        /\ restPay' = [restPay EXCEPT ![t] = (@ * (restBuy[t] - n)) \div restBuy[t]]
        /\ bot' = [bot EXCEPT ![t] = @ + n]
        /\ UNCHANGED <<foreign, bp, unsettled, order, restSell, faults>>
    \/ \E n \in Pieces(restSell[t]) :
        /\ restSell' = [restSell EXCEPT ![t] = @ - n]
        /\ bot' = [bot EXCEPT ![t] = @ - n]
        /\ unsettled' = unsettled + n
        /\ UNCHANGED <<foreign, bp, order, restBuy, restPay, faults>>

CancelResting(t) ==
    /\ restBuy[t] + restSell[t] > 0
    /\ bp' = bp + restPay[t]
    /\ restBuy' = [restBuy EXCEPT ![t] = 0]
    /\ restPay' = [restPay EXCEPT ![t] = 0]
    /\ restSell' = [restSell EXCEPT ![t] = 0]
    /\ UNCHANGED <<foreign, bot, unsettled, order, faults>>

\* T+1: the proceeds of the sells become spendable.
Settle ==
    /\ unsettled > 0
    /\ bp' = bp + unsettled
    /\ unsettled' = 0
    /\ UNCHANGED <<foreign, bot, order, restBuy, restPay, restSell, faults>>

\* The owner buys shares of their own from the same buying power, or sells
\* some, never ones an open sell of truleo's has claimed.
OwnerTrade(t) ==
    /\ Fault("owner")
    /\ \E n \in (0 .. MaxForeign) \ {foreign[t]} :
        /\ foreign' = [foreign EXCEPT ![t] = n]
        /\ \/ /\ n > foreign[t]
              /\ n - foreign[t] <= bp
              /\ bp' = bp - (n - foreign[t])
              /\ UNCHANGED unsettled
           \/ /\ n < foreign[t]
              /\ restSell[t] = 0 /\ order = NoOrder
              /\ unsettled' = unsettled + (foreign[t] - n)
              /\ UNCHANGED bp
    /\ UNCHANGED <<bot, order, restBuy, restPay, restSell>>

\* The broker working the watched order; it may not be slower than this.
BrokerWorks == FillOrder \/ CancelOrder

BrokerElse ==
    \/ Settle
    \/ \E t \in Ticker : FillResting(t) \/ CancelResting(t) \/ OwnerTrade(t)
=============================================================================
