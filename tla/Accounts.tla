------------------------------ MODULE Accounts ------------------------------
(* The parts that count money: the paper book of a session (PaperBook), the *)
(* payouts (Transfers) and the account of a backtest (Backtest).  They     *)
(* share no state; here are their parameters, what is assumed of those,    *)
(* and their properties.                                                   *)
EXTENDS Integers, FiniteSets

CONSTANTS
  Instrument, Thread, Quantity, Price, MaxFills, MaxResets,         \* of the book
  Request, Amount, Infinity, MaxTransfer, MaxChanges,               \* of the payouts
  TestPrice, Capital, BuyQuantity, TargetPct, StopPct, Cap, Segments, MaxBars

VARIABLES
  positions, realized, ledger, lock, fill, resetting, fills, resets,
  cash, forgotten, torn,
  account, changes, call, wire, reply, taken, audit,
  initial, capital, position, pending, trades, equity, close, done

Book == INSTANCE PaperBook WITH Symbol <- Instrument
Payouts == INSTANCE Transfers WITH MaxSwitches <- MaxChanges,
  mode <- account, switches <- changes, req <- call
Test == INSTANCE Backtest WITH Price <- TestPrice, Quantity <- BuyQuantity

bookVars == <<positions, realized, ledger, lock, fill, resetting, fills, resets,
              cash, forgotten, torn>>
moneyVars == <<account, changes, call, wire, reply, taken, audit>>
testVars == <<initial, capital, position, pending, trades, equity, close, done>>

\* Finitely many instruments, quantities and prices that are integers, and a
\* free lock that is no thread.
LawfulBook ==
  /\ IsFiniteSet(Instrument) /\ "free" \notin Thread
  /\ Quantity \subseteq Int /\ Price \subseteq Int
ASSUME BookAssumption == LawfulBook

\* Amounts are counted.
ASSUME PayoutsAssumption == Amount \subseteq Int

\* Whole prices, capitals and quantities, a cap that is no negative charge and
\* a period at least to report the result in.
LawfulTest ==
  /\ TestPrice \subseteq Int /\ Capital \subseteq Int /\ BuyQuantity \in Int
  /\ Cap \in Nat /\ Segments \in Nat \ {0}
ASSUME TestAssumption == LawfulTest

(* Stated and explained in the modules of the parts.                       *)
BookBalances == Book!BookBalances
PayoutsLeaveARecord == Payouts!PayoutsLeaveARecord
MoneyConserved == Test!MoneyConserved
=============================================================================
