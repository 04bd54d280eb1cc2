----------------------------- MODULE OrderGate ------------------------------
(***************************************************************************)
(* The two things between a validated live order and the wire: the rate    *)
(* limiter of the session (engine/app/choice_gateway/client_manager.py,    *)
(* _RateLimiter) and the number the order gets (choice_gateway/orders.py,  *)
(* next_client_order_no).  The number comes from the wall clock, cut to a  *)
(* modulus, and from memory a restart loses; the limiter from a monotonic  *)
(* clock and memory of its own.                                            *)
(*                                                                         *)
(* A tick of the model stands for a millisecond; the code has 2 * 10^9 of  *)
(* them in a cycle of order numbers, a thousand in a second and ten orders *)
(* a second.  The allowance is counted in parts of an order.               *)
(***************************************************************************)
EXTENDS Integers, Sequences

CONSTANTS
  Rate,     \* ORDER_RATE_LIMIT_PER_SEC
  Second,   \* ticks of a second
  Modulus,  \* ticks after which order numbers start over
  Down,     \* ticks a restart takes at least
  Start,    \* wall-clock times at which the first process may start
  Horizon,  \* bound of the model: ticks
  MaxRestarts \* bound of the model: restarts

VARIABLES
  clock,      \* ticks since the first process started
  offset,     \* the wall clock less `clock`
  allowance,  \* _allowance, in parts of an order: Second make one
  refilled,   \* _last, of the limiter
  last,       \* _order_no_last
  restarts,   \* restarts so far
  issued      \* history: the numbers given, with their times

vars == <<clock, offset, allowance, refilled, last, restarts, issued>>

Init ==
  /\ clock = 0 /\ offset \in Start
  /\ allowance = Rate * Second /\ refilled = 0 /\ last = 0
  /\ restarts = 0 /\ issued = <<>>

Least(x, y) == IF x < y THEN x ELSE y
Greatest(x, y) == IF x > y THEN x ELSE y

Refill == Least(Rate * Second, allowance + (clock - refilled) * Rate)

\* Mutant: two orders of a tick share a number.
NextOrderNo_clock == (clock + offset) % Modulus
NextOrderNo == Greatest((clock + offset) % Modulus, last + 1)

Acquire ==
  /\ refilled' = clock
  /\ IF Refill < Second
     THEN /\ allowance' = Refill
          /\ UNCHANGED <<last, issued>>
     ELSE /\ allowance' = Refill - Second
          /\ last' = NextOrderNo
          /\ issued' = Append(issued, [number |-> NextOrderNo, at |-> clock])
  /\ UNCHANGED <<clock, offset, restarts>>

Tick ==
  /\ clock < Horizon
  /\ clock' = clock + 1
  /\ UNCHANGED <<offset, allowance, refilled, last, restarts, issued>>

Restart ==
  /\ restarts < MaxRestarts /\ clock + Down <= Horizon
  /\ restarts' = restarts + 1
  /\ clock' = clock + Down
  /\ allowance' = Rate * Second /\ refilled' = clock' /\ last' = 0
  /\ UNCHANGED <<offset, issued>>

Next == Acquire \/ Tick \/ Restart

Spec == Init /\ [][Next]_vars

-----------------------------------------------------------------------------
(* Amendments, cancellations and reconciliation find an order by its       *)
(* number alone: within a cycle of the clock, less a burst, no two orders  *)
(* share one, with bursts in one millisecond, restarts between two orders  *)
(* and the cycle starting over in between.  It is the limiter that keeps   *)
(* the numbers from running ahead of the clock further than a restart      *)
(* takes, and it takes a clock that is not set back.                       *)
NoNumberTwice ==
  \A i, j \in 1 .. Len(issued) :
    i < j /\ issued[j].at + Rate < Modulus => issued[i].number # issued[j].number

(* "Token bucket enforcing the SEBI/NSE 10-orders-per-second ceiling": no  *)
(* second has more than Rate orders.  A full bucket and a second's refill  *)
(* together let nearly twice as many through.                              *)
RateCeiling ==
  \A i, j \in 1 .. Len(issued) :
    i < j /\ issued[j].at - issued[i].at < Second => j - i < Rate

=============================================================================
