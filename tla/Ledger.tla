------------------------------- MODULE Ledger -------------------------------
(***************************************************************************)
(* What the position ledger promises of an account that nobody but its     *)
(* sync loop books for: the trades are applied one at a time, in the order *)
(* the account made them, each in one step: the position shown, and the    *)
(* closes whose PnL is booked, are those of a prefix of the account's      *)
(* trades.  FillSync does it in eight statements per trade and implements  *)
(* this module when no statement fails and nothing is swept.               *)
(***************************************************************************)
EXTENDS Integers, Sequences

CONSTANTS Keys, MaxQty, MaxTime

VARIABLES
  trades, \* what the account has done, oldest first
  done,   \* how many of them the ledger has applied
  shown,  \* lots of the open position per key
  booked  \* close trades whose PnL is booked

ledger == <<trades, done, shown, booked>>

LedgerInit ==
  /\ trades = <<>> /\ done = 0
  /\ shown = [k \in Keys |-> 0]
  /\ booked = {}

\* The account trades; the ledger follows later.
Deal ==
  /\ \E t \in [key : Keys, open : BOOLEAN, qty : 1..MaxQty, time : 1..MaxTime] :
       trades' = Append(trades, t)
  /\ UNCHANGED <<done, shown, booked>>

\* ProcessTrade, as if it were one transaction.
ApplyNext ==
  /\ done < Len(trades)
  /\ done' = done + 1
  /\ LET t == trades[done']
     IN IF t.open THEN /\ shown' = [shown EXCEPT ![t.key] = @ + t.qty]
                       /\ UNCHANGED booked
                  ELSE /\ t.qty <= shown[t.key]
                       /\ shown' = [shown EXCEPT ![t.key] = @ - t.qty]
                       /\ booked' = booked \cup {done'}
  /\ UNCHANGED trades

LedgerSpec == LedgerInit /\ [][Deal \/ ApplyNext]_ledger
=============================================================================
