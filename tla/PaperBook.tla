----------------------------- MODULE PaperBook -----------------------------
(***************************************************************************)
(* The paper position book of a session (engine/app/choice_gateway/        *)
(* client_manager.py, record_simulated_fill, paper_pnl and the resets of   *)
(* start_demo and login_totp).  Every paper run of a user has its thread   *)
(* and all of them share this book, with the order ticket on top.          *)
(*                                                                         *)
(* A fill holds book_lock; a reset and a query do not.  Positions are      *)
(* signed, at an average price.  Money is counted in units small enough    *)
(* for the averages of MaxFills fills to be whole numbers.                 *)
(***************************************************************************)
EXTENDS Integers, FiniteSetsExt

CONSTANTS
  Symbol,    \* instruments
  Thread,    \* threads that fill orders
  Quantity,  \* quantities of an order
  Price,     \* prices of a fill
  MaxFills,  \* bound of the model: fills
  MaxResets  \* bound of the model: resets of the book

VARIABLES
  positions,  \* paper_positions[s]; quantity 0 stands for no entry
  realized,   \* paper_realized_pnl
  ledger,     \* the risk manager's simulated ledger of the day
  lock,       \* book_lock: the thread that holds it, or "free"
  fill,       \* fill[t]: the fill thread t applies
  resetting,  \* a reset has emptied the positions, not yet the result
  fills,      \* fills so far
  resets,     \* resets so far
  cash,       \* history: what the fills since the last reset brought in
  forgotten,  \* history: results the resets have dropped
  torn        \* history: a fill and a reset have overlapped in this book

vars == <<positions, realized, ledger, lock, fill, resetting, fills, resets,
          cash, forgotten, torn>>

Flat == [quantity |-> 0, average |-> 0, last |-> 0]
NoFill(s) == [pc |-> "idle", symbol |-> s, signed |-> 0, price |-> 0, position |-> Flat]
Abs(x) == IF x < 0 THEN -x ELSE x
Least(x, y) == IF x < y THEN x ELSE y
Total(f) == MapThenSumSet(LAMBDA s : f[s], Symbol)

TypeOK ==
  LET Position == [quantity : Int, average : Nat, last : Nat]
  IN  /\ positions \in [Symbol -> Position]
      /\ realized \in Int /\ ledger \in Int /\ forgotten \in Int
      /\ lock \in Thread \cup {"free"}
      /\ fill \in [Thread -> [pc : {"idle", "book", "store"}, symbol : Symbol,
                              signed : Int, price : Nat, position : Position]]
      /\ resetting \in BOOLEAN /\ torn \in BOOLEAN
      /\ fills \in 0 .. MaxFills /\ resets \in 0 .. MaxResets
      /\ cash \in [Symbol -> Int]

Init ==
  /\ positions = [s \in Symbol |-> Flat]
  /\ realized = 0 /\ ledger = 0 /\ lock = "free"
  /\ \E s \in Symbol : fill = [t \in Thread |-> NoFill(s)]
  /\ resetting = FALSE /\ fills = 0 /\ resets = 0
  /\ cash = [s \in Symbol |-> 0] /\ forgotten = 0 /\ torn = FALSE

-----------------------------------------------------------------------------
(* _apply_fill                                                             *)

(* The part of a fill that reduces the position it meets.                  *)
Closing(held, signed) ==
  IF held # 0 /\ (held > 0) # (signed > 0) THEN Least(Abs(signed), Abs(held)) ELSE 0

Booked(f) ==
  LET held == f.position.quantity
  IN  (f.price - f.position.average) * Closing(held, f.signed)
        * (IF held > 0 THEN 1 ELSE -1)

(* A mutant of Averaged: a flip is averaged over the whole fill.           *)
Averaged_whole(f) ==
  LET p == f.position
      held == p.quantity + f.signed
  IN  IF held = 0 THEN 0
      ELSE (p.average * Abs(p.quantity) + f.price * Abs(f.signed))
             \div (Abs(p.quantity) + Abs(f.signed))

(* The average over what survives of the old side and what the fill opens; *)
(* a partial close leaves it where it was.                                 *)
Averaged(f) ==
  LET p == f.position
      closing == Closing(p.quantity, f.signed)
      opening == Abs(f.signed) - closing
      remaining == Abs(p.quantity) - closing
  IN  IF opening > 0
      THEN (p.average * remaining + f.price * opening) \div (remaining + opening)
      ELSE IF p.quantity + f.signed = 0 THEN 0 ELSE p.average

(* The lock is taken and the position read.                                *)
TakeLock(t, s, signed, price) ==
  /\ lock = "free" /\ fill[t].pc = "idle" /\ fills < MaxFills
  /\ lock' = t
  /\ fill' = [fill EXCEPT ![t] = [pc |-> "book", symbol |-> s, signed |-> signed,
                                  price |-> price, position |-> positions[s]]]
  /\ fills' = fills + 1
  /\ torn' = (torn \/ resetting)
  /\ UNCHANGED <<positions, realized, ledger, resetting, resets, cash, forgotten>>

(* What the fill realises goes into the book and into the simulated ledger.*)
Book(t) ==
  /\ fill[t].pc = "book"
  /\ realized' = realized + Booked(fill[t])
  /\ ledger' = ledger + Booked(fill[t])
  /\ fill' = [fill EXCEPT ![t].pc = "store"]
  /\ UNCHANGED <<positions, lock, resetting, fills, resets, cash, forgotten, torn>>

(* The position goes into the dictionary the session has by now.           *)
Store(t) ==
  LET f == fill[t]
      held == f.position.quantity + f.signed
  IN  /\ f.pc = "store"
      /\ positions' = [positions EXCEPT ![f.symbol] =
           IF held = 0 THEN Flat
           ELSE [quantity |-> held, average |-> Averaged(f), last |-> f.price]]
      /\ cash' = [cash EXCEPT ![f.symbol] = @ - f.signed * f.price]
      /\ fill' = [fill EXCEPT ![t] = NoFill(f.symbol)]
      /\ lock' = "free"
      /\ UNCHANGED <<realized, ledger, resetting, fills, resets, forgotten, torn>>

(* A new sandbox or a new paper login starts an empty book: two            *)
(* assignments, without the lock.                                          *)
ResetPositions ==
  /\ ~resetting /\ resets < MaxResets
  /\ positions' = [s \in Symbol |-> Flat]
  /\ resetting' = TRUE
  /\ torn' = (lock # "free")
  /\ UNCHANGED <<realized, ledger, lock, fill, fills, resets, cash, forgotten>>

ResetRealized ==
  /\ resetting
  /\ realized' = 0
  /\ resetting' = FALSE
  /\ resets' = resets + 1
  /\ cash' = [s \in Symbol |-> 0]
  /\ forgotten' = forgotten + realized
  /\ torn' = (torn \/ lock # "free")
  /\ UNCHANGED <<positions, ledger, lock, fill, fills>>

Next ==
  \/ \E t \in Thread :
       \/ \E s \in Symbol, q \in Quantity, p \in Price :
            TakeLock(t, s, q, p) \/ TakeLock(t, s, -q, p)
       \/ Book(t)
       \/ Store(t)
  \/ ResetPositions
  \/ ResetRealized

Spec == Init /\ [][Next]_vars

-----------------------------------------------------------------------------
(* paper_pnl, marked to the last price of each position.                   *)
Unrealized ==
  Total([s \in Symbol |->
    (positions[s].last - positions[s].average) * positions[s].quantity])

(* Between two fills, what the account panel calls profit is money: the    *)
(* cash the fills since the reset brought in and what the open positions   *)
(* would bring at their last price, through any sequence of openings,      *)
(* extensions, partial closes and flips on either side.  And the ledger    *)
(* the daily loss cap reads has every result booked, those a reset took    *)
(* out of the panel included.  It takes that no reset overlapped a fill.   *)
BookBalances ==
  lock = "free" /\ ~resetting /\ ~torn =>
    /\ realized + Unrealized
         = Total(cash) + Total([s \in Symbol |-> positions[s].last * positions[s].quantity])
    /\ ledger = forgotten + realized

=============================================================================
