------------------------------ MODULE Tracking ------------------------------
(***************************************************************************)
(* What the program as a whole promises its owner: truleo's book follows   *)
(* the last 13F it has adopted, in proportion to what of its NAV had a     *)
(* quote when the plan was made.  Every trade moves a name towards its     *)
(* target and never past it; truleo sells on the authority of its own      *)
(* records only, and has no authority over more than it holds.  The        *)
(* authority may lag behind the book (a buy nobody could confirm), never   *)
(* run ahead of it.                                                        *)
(***************************************************************************)
EXTENDS Integers

CONSTANTS
    Ticker,
    Goals,      \* the books a 13F may ask for, of a NAV of Nav
    Nav,        \* the NAV when everything has a quote
    NavOf(_, _) \* the NAV with these records when these names have none

VARIABLES
    goal,       \* the book the last adopted 13F asks for
    priced,     \* the NAV that had a quote when it was adopted
    book,       \* the shares truleo holds
    authority   \* the shares it may sell

vars == <<goal, priced, book, authority>>

Books == [Ticker -> Nat]

Empty == [t \in Ticker |-> 0]

Init ==
    /\ goal \in Goals \cup {Empty}
    /\ priced = Nav
    /\ book \in Books
    /\ authority \in {book, Empty}

\* The names in U have no quote.
Adopt ==
    /\ goal' \in Goals \cup {Empty}
    /\ \/ priced' = Nav
       \/ \E U \in SUBSET Ticker : priced' = NavOf(authority, U)
    /\ UNCHANGED <<book, authority>>

\* What the plan makes of the goal.
Sized(t) == (goal[t] * priced) \div Nav

Buy(t) ==
    /\ \E n \in 1 .. Sized(t) - book[t] : book' = [book EXCEPT ![t] = @ + n]
    /\ UNCHANGED <<goal, priced, authority>>

Sell(t) ==
    /\ \E n \in 1 .. book[t] - Sized(t) :
        /\ n <= authority[t]
        /\ book' = [book EXCEPT ![t] = @ - n]
        /\ authority' = [authority EXCEPT ![t] = @ - n]
    /\ UNCHANGED <<goal, priced>>

\* A buy is confirmed, or the whole book taken over at the start.
Confirm ==
    /\ authority' \in Books
    /\ \A t \in Ticker : authority[t] <= authority'[t] /\ authority'[t] <= book[t]
    /\ UNCHANGED <<goal, priced, book>>

Next == Adopt \/ Confirm \/ \E t \in Ticker : Buy(t) \/ Sell(t)

Spec == Init /\ [][Next]_vars

\* Nothing is left to do that truleo has the authority to do.
Settled ==
    \A t \in Ticker :
        book[t] = goal[t] \/ (book[t] > goal[t] /\ authority[t] = 0)
=============================================================================
