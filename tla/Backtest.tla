------------------------------ MODULE Backtest ------------------------------
(***************************************************************************)
(* A backtest (engine/app/strategy_engine/backtest_runner.py,              *)
(* run_backtest, _metrics and _period_consistency; costs from              *)
(* engine/app/costs.py).  One step is one bar.  What the conditions of the *)
(* strategy say of a bar is a choice; the costs are any slippage, any      *)
(* capped brokerage and a duty on the buy side, in whole units.            *)
(***************************************************************************)
EXTENDS Integers, SequencesExt

CONSTANTS
  Price,      \* opens and closes
  Capital,    \* initial capitals
  Quantity,   \* buy_qty
  TargetPct,  \* target_pct
  StopPct,    \* stop_loss_pct
  Cap,        \* brokerage_cap
  Segments,   \* periods the result is reported in
  MaxBars     \* bound of the model: bars of the history

VARIABLES
  initial,   \* initial_capital
  capital,   \* cash
  position,  \* position_qty with its entry_price and entry bar
  pending,   \* pending_signal
  trades,    \* closed trades
  equity,    \* one figure per bar
  close,     \* the close of the last bar
  done       \* the run is completed

vars == <<initial, capital, position, pending, trades, equity, close, done>>

NoPosition == [quantity |-> 0, price |-> 0, bar |-> 0]

Init ==
  /\ initial \in Capital /\ capital = initial
  /\ position = NoPosition /\ pending = "none"
  /\ trades = <<>> /\ equity = <<>> /\ close = 0 /\ done = FALSE

-----------------------------------------------------------------------------
(* Costs: five per cent of slippage, a tenth of brokerage up to a cap, a   *)
(* twentieth of duty on the buy side.                                      *)
Least(x, y) == IF x < y THEN x ELSE y
FillPrice(price, side) ==
  IF side = "BUY" THEN price + price \div 20 ELSE price - price \div 20
Charges(turnover, side) ==
  Least(turnover \div 10, Cap) + (IF side = "BUY" THEN turnover \div 20 ELSE 0)

\* Mutant: the charge of the entry is forgotten in the trade.
Trade_oneLeg(bar, price) ==
  [entry |-> position.bar, exit |-> bar,
   pnl |-> (price - position.price) * position.quantity
             - Charges(price * position.quantity, "SELL")]

(* A trade closed at a fill price: both legs' charges come out of it.      *)
Trade(bar, price) ==
  [entry |-> position.bar, exit |-> bar,
   pnl |-> (price - position.price) * position.quantity
             - Charges(price * position.quantity, "SELL")
             - Charges(position.price * position.quantity, "BUY")]

Proceeds(price) ==
  price * position.quantity - Charges(price * position.quantity, "SELL")

(* The signal of the bar before, at this bar's open: bought when it can be *)
(* paid, sold whole, or nothing.                                           *)
Execute(bar, open) ==
  LET buy == FillPrice(open, "BUY")
      sell == FillPrice(open, "SELL")
      cost == buy * Quantity + Charges(buy * Quantity, "BUY")
  IN  \/ /\ pending = "ENTER" /\ cost <= capital
         /\ capital' = capital - cost
         /\ position' = [quantity |-> Quantity, price |-> buy, bar |-> bar]
         /\ UNCHANGED trades
      \/ /\ pending = "EXIT"
         /\ capital' = capital + Proceeds(sell)
         /\ trades' = Append(trades, Trade(bar, sell))
         /\ position' = NoPosition
      \/ /\ pending = "none" \/ (pending = "ENTER" /\ cost > capital)
         /\ UNCHANGED <<capital, position, trades>>

(* Targets and stops are measured on the close, against the entry fill.    *)
Forced(p, price) ==
  \/ price * 100 >= p.price * (100 + TargetPct)
  \/ price * 100 <= p.price * (100 - StopPct)

Signals(p, price) ==
  IF p.quantity = 0 THEN {"none", "ENTER"}
  ELSE IF Forced(p, price) THEN {"EXIT"} ELSE {"none", "EXIT"}

Bar(open, price) ==
  /\ ~done /\ Len(equity) < MaxBars
  /\ Execute(Len(equity) + 1, open)
  /\ close' = price
  /\ pending' \in Signals(position', price)
  /\ equity' = Append(equity, capital' + position'.quantity * price)
  /\ UNCHANGED <<initial, done>>

(* The last close, from the last equity figure: what is open is sold there.*)
Finish ==
  /\ ~done /\ equity # <<>>
  /\ done' = TRUE
  /\ IF position.quantity = 0 THEN UNCHANGED <<capital, position, trades, equity>>
     ELSE LET sell == FillPrice(close, "SELL")
          IN  /\ capital' = capital + Proceeds(sell)
              /\ trades' = Append(trades, Trade(Len(equity), sell))
              /\ equity' = Append(Front(equity), capital')
              /\ position' = NoPosition
  /\ UNCHANGED <<initial, pending, close>>

Next ==
  \/ \E open, price \in Price : Bar(open, price)
  \/ Finish

Spec == Init /\ [][Next]_vars

-----------------------------------------------------------------------------
(* _metrics and _period_consistency.                                       *)
Sum(s) == FoldLeft(LAMBDA x, y : x + y, 0, s)
TotalPnl == Last(equity) - initial
Pnls == [n \in 1 .. Len(trades) |-> trades[n].pnl]

Size == Len(equity) \div Segments
(* The bars of period n, counted from one; the last takes the remainder.   *)
PeriodOf(n) == (n - 1) * Size + 1 .. IF n = Segments THEN Len(equity) ELSE n * Size
TradesIn(n) == {t \in 1 .. Len(trades) : trades[t].exit \in PeriodOf(n)}

(* The money adds up: what the trades claim, charges of both legs taken    *)
(* out, is what the account gained, bar by bar and at the end, and each    *)
(* trade is counted in one period.                                         *)
MoneyConserved ==
  /\ ~done => capital + position.quantity * position.price
                + Charges(position.price * position.quantity, "BUY")
              = initial + Sum(Pnls)
  /\ done => TotalPnl = Sum(Pnls)
  /\ done /\ Len(equity) >= 2 * Segments =>
       \A t \in 1 .. Len(trades) : \E n \in 1 .. Segments :
         \A m \in 1 .. Segments : t \in TradesIn(m) <=> m = n

=============================================================================
