------------------------- MODULE OwnershipLedger -------------------------
(***************************************************************************)
(* The ownership ledger (src/src/ownership_ledger.py) as operators on its  *)
(* one value.  The file either does not exist ("absent"), cannot be parsed *)
(* ("torn": the write is not atomic, so a crash inside it leaves a         *)
(* truncated file) or holds a seeded ledger.  The code treats an absent    *)
(* and an unparsable file alike: is_seeded() is FALSE and every ticker has *)
(* zero owned shares.  Shares are counted in units of the ledger's grid.   *)
(***************************************************************************)
EXTENDS Integers

CONSTANT Ticker     \* the symbols that plans and positions may name

Shares == [Ticker -> Nat]

NoShares == [t \in Ticker |-> 0]

Ledgers == [file : {"absent", "torn", "seeded"}, owned : Shares]

Absent == [file |-> "absent", owned |-> NoShares]

\* What is left on disk when a write is cut short.
Torn == [file |-> "torn", owned |-> NoShares]

IsSeeded(l) == l.file = "seeded"

\* get_owned_shares: a ticker without a record, or any ticker of a ledger
\* that is not seeded, has none.
Owned(l, t) == l.owned[t]

\* seed: adopt every position the broker reports; a no-op once seeded.
Seed(l, positions) ==
    IF IsSeeded(l) THEN l ELSE [file |-> "seeded", owned |-> positions]

RecordBuy(l, t, n) == [l EXCEPT !.owned[t] = @ + n]

\* record_sell never lets a position go below zero.
RecordSell(l, t, n) ==
    [l EXCEPT !.owned[t] = IF n <= @ THEN @ - n ELSE 0]
=============================================================================
