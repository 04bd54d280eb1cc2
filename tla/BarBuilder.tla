----------------------------- MODULE BarBuilder -----------------------------
(***************************************************************************)
(* How the polling thread of a paper run turns prices into bars            *)
(* (engine/app/strategy_engine/scheduler.py, _BarBuilder).  Bars close on  *)
(* wall-clock boundaries; polls may fail for any time, and the wall clock  *)
(* may be set back.                                                        *)
(***************************************************************************)
EXTENDS Integers, Sequences, FiniteSetsExt

CONSTANTS
  Seconds,   \* length of a bar
  Price,     \* prices a poll may return
  LastTime,  \* bound of the model: wall-clock times
  MaxTicks   \* bound of the model: polls that return a price

VARIABLES
  current,  \* _current: the bar in progress, NoBar before the first price
  bucket,   \* _bucket, -1 for None
  closed,   \* the bars handed to on_bar
  ticks     \* history: the prices fed, with their times

vars == <<current, bucket, closed, ticks>>

NoBar == [timestamp |-> -1, open |-> -1, high |-> -1, low |-> -1, close |-> -1]

Init == current = NoBar /\ bucket = -1 /\ closed = <<>> /\ ticks = <<>>

Opened(price, b) ==
  [timestamp |-> b * Seconds, open |-> price, high |-> price, low |-> price,
   close |-> price]
\* Mutant: the high of the bar is compared with its close.
Extended_close(bar, price) ==
  [bar EXCEPT !.high = Max({bar.close, price}), !.low = Min({@, price}), !.close = price]
Extended(bar, price) ==
  [bar EXCEPT !.high = Max({@, price}), !.low = Min({@, price}), !.close = price]

Add(price, at) ==
  LET b == at \div Seconds IN
  /\ ticks' = Append(ticks, [price |-> price, at |-> at])
  /\ bucket' = b
  /\ \/ /\ bucket = b
        /\ current' = Extended(current, price)
        /\ UNCHANGED closed
     \/ /\ bucket # b
        /\ current' = Opened(price, b)
        /\ closed' = IF bucket = -1 THEN closed ELSE Append(closed, current)

Next ==
  /\ Len(ticks) < MaxTicks
  /\ \E p \in Price, at \in 0 .. LastTime : Add(p, at)

Spec == Init /\ [][Next]_vars

-----------------------------------------------------------------------------
(* The reference: the prices cut where two neighbours lie in different     *)
(* buckets, each piece summed up as a bar.                                 *)
In(i) == ticks[i].at \div Seconds
Starts == {i \in 1 .. Len(ticks) : i = 1 \/ In(i) # In(i - 1)}
Piece(i) ==
  i .. Max({j \in i .. Len(ticks) : \A k \in i .. j : In(k) = In(i)})
BarOf(i) ==
  LET prices == {ticks[k].price : k \in Piece(i)}
  IN  [timestamp |-> In(i) * Seconds, open |-> ticks[i].price, high |-> Max(prices),
       low |-> Min(prices), close |-> ticks[Max(Piece(i))].price]
Nth(n) == CHOOSE i \in Starts : Cardinality({j \in Starts : j <= i}) = n

(* The bars a strategy sees are those of the prices polled: none is lost,  *)
(* none is counted twice, across gaps of several bars and clocks set back, *)
(* and while the clock only goes forward each bar is later than the last.  *)
BarsAreTrue ==
  /\ Len(closed) = Max({Cardinality(Starts) - 1, 0})
  /\ \A n \in 1 .. Len(closed) : closed[n] = BarOf(Nth(n))
  /\ ticks # <<>> => current = BarOf(Nth(Cardinality(Starts)))
  /\ (\A i \in 2 .. Len(ticks) : ticks[i].at >= ticks[i - 1].at)
       => \A n \in 2 .. Len(closed) : closed[n - 1].timestamp < closed[n].timestamp

=============================================================================
