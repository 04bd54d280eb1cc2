---------------------------- MODULE RiskManager ----------------------------
(***************************************************************************)
(* The pre-trade risk manager of the engine                                *)
(* (engine/app/strategy_engine/risk_manager.py): two daily ledgers per     *)
(* account, a halt with a scope, and the validation every order passes.    *)
(*                                                                         *)
(* One RiskManager object serves every thread of the process: the request  *)
(* threads of the API and one thread per paper run.  Its lock covers one   *)
(* dictionary access at a time, so validate_order is a sequence of steps   *)
(* between which other threads run: is_halted, the read of the scope, the  *)
(* read of the ledger, and the halt that trips the breaker.                *)
(*                                                                         *)
(* Money is an integer number of units; the code's floats are abstracted.  *)
(***************************************************************************)
EXTENDS Integers

CONSTANTS
  Owner,         \* accounts (owner_key)
  Thread,        \* threads that validate orders
  Quantity,      \* order quantities a caller may pass
  Price,         \* sizing prices a caller may pass
  Pnl,           \* realised results a caller may report
  MaxQuantity,   \* max_order_quantity
  MaxValue,      \* max_order_value
  MaxDailyLoss,  \* max_daily_loss
  LedgerBound,   \* bound of the model: a ledger stays in -LedgerBound..LedgerBound
  LastDay        \* bound of the model: the last day

ASSUME RiskAssumption ==
  /\ Quantity \subseteq Int /\ Price \subseteq Nat /\ Pnl \subseteq Int
  /\ MaxQuantity \in Int /\ MaxValue \in Int /\ MaxDailyLoss \in Int
  /\ LedgerBound \in Nat /\ LastDay \in Nat \ {0}

VARIABLES
  realized,   \* realized[o]: the broker's realised result of the day
  simulated,  \* simulated[o]: the paper result of the day
  halted,     \* halted[o]: "no", or what asked for the halt
  scope,      \* scope[o]: what the halt stops ("all" when the key is absent)
  asOf,       \* the day the four dictionaries belong to
  today,      \* date.today()
  pc,         \* pc[t]: next step of the validation thread t runs
  order,      \* order[t]: the order thread t validates or validated last
  seen,       \* seen[t]: what is_halted answered to thread t
  verdict,    \* verdict[t]: how the last validation of thread t ended
  sealed,     \* history: last day a kill switch found no straggler (see Halt)
  breached    \* history: last day the real ledger stood at the loss cap

dicts == <<realized, simulated, halted, scope, asOf>>
threads == <<pc, order, seen, verdict>>
vars == <<realized, simulated, halted, scope, asOf, today,
          pc, order, seen, verdict, sealed, breached>>

Reason == {"no", "kill", "loss"}
Scope == {"all", "real"}
Verdict == {"none", "accepted", "halted", "size", "paperLoss", "realLoss"}
Day == 0 .. LastDay

(* An order as validate_order receives it, with the two facts the          *)
(* properties need about the moment of the call: the day on which its      *)
(* owner stood halted, and the day on which that halt was a sealed one.    *)
Order == [owner : Owner, quantity : Quantity, price : Price,
          simulated : BOOLEAN, haltedOn : Day, sealedOn : Day]

Abs(x) == IF x < 0 THEN -x ELSE x
Neg(x) == IF x < 0 THEN x ELSE 0
Cap == Abs(MaxDailyLoss)

TypeOK ==
  /\ realized \in [Owner -> Int] /\ simulated \in [Owner -> Int]
  /\ halted \in [Owner -> Reason] /\ scope \in [Owner -> Scope]
  /\ asOf \in Day /\ today \in Day
  /\ pc \in [Thread -> {"idle", "isHalted", "scope", "loss", "trip"}]
  /\ order \in [Thread -> Order]
  /\ seen \in [Thread -> Reason]
  /\ verdict \in [Thread -> Verdict]
  /\ sealed \in [Owner -> Day] /\ breached \in [Owner -> Day]

Init ==
  /\ realized = [o \in Owner |-> 0] /\ simulated = [o \in Owner |-> 0]
  /\ halted = [o \in Owner |-> "no"] /\ scope = [o \in Owner |-> "all"]
  /\ asOf = 1 /\ today = 1
  /\ pc = [t \in Thread |-> "idle"]
  /\ \E o \in Owner, q \in Quantity, p \in Price :
       order = [t \in Thread |-> [owner |-> o, quantity |-> q, price |-> p,
                  simulated |-> FALSE, haltedOn |-> 0, sealedOn |-> 0]]
  /\ seen = [t \in Thread |-> "no"]
  /\ verdict = [t \in Thread |-> "none"]
  /\ sealed = [o \in Owner |-> 0]
  /\ breached = [o \in Owner |-> IF 0 <= -Cap THEN 1 ELSE 0]

-----------------------------------------------------------------------------
(* _roll_day: every access under the lock, except the read of the scope,   *)
(* first empties the four dictionaries when the date has changed.          *)
Today(dict, empty) == IF today # asOf THEN [o \in Owner |-> empty] ELSE dict
RollDay ==
  /\ realized' = Today(realized, 0) /\ simulated' = Today(simulated, 0)
  /\ halted' = Today(halted, "no") /\ scope' = Today(scope, "all")
  /\ asOf' = today

(* The days on which each account's real ledger is at the cap after a step. *)
Breaches(ledger) ==
  [o \in Owner |-> IF ledger[o] <= -Cap THEN today ELSE breached[o]]

Midnight ==
  /\ today < LastDay
  /\ today' = today + 1
  /\ UNCHANGED <<dicts, threads, sealed, breached>>

-----------------------------------------------------------------------------
(* validate_order                                                          *)

Call(t, o, q, p, s) ==
  /\ pc[t] = "idle"
  /\ pc' = [pc EXCEPT ![t] = "isHalted"]
  /\ order' = [order EXCEPT ![t] =
       [owner |-> o, quantity |-> q, price |-> p, simulated |-> s,
        haltedOn |-> IF halted[o] # "no" /\ asOf = today THEN today ELSE 0,
        sealedOn |-> IF sealed[o] = today THEN today ELSE 0]]
  /\ verdict' = [verdict EXCEPT ![t] = "none"]
  /\ UNCHANGED <<dicts, today, seen, sealed, breached>>

Finish(t, v) ==
  /\ pc' = [pc EXCEPT ![t] = "idle"]
  /\ verdict' = [verdict EXCEPT ![t] = v]

IsHalted(t) ==
  /\ pc[t] = "isHalted"
  /\ RollDay
  /\ seen' = [seen EXCEPT ![t] = Today(halted, "no")[order[t].owner]]
  /\ pc' = [pc EXCEPT ![t] = "scope"]
  /\ breached' = Breaches(Today(realized, 0))
  /\ UNCHANGED <<today, order, verdict, sealed>>

(* Mutants of Blocks: one scope for every halt, and a loss halt that is    *)
(* forgotten.                                                              *)
Blocks_realOnly(t) == seen[t] # "no" /\ ~order[t].simulated
Blocks_allOnly(t) == seen[t] # "no" /\ scope[order[t].owner] = "all"

Blocks(t) ==
  /\ seen[t] # "no"
  /\ scope[order[t].owner] = "all" \/ ~order[t].simulated

LegalSize(q, p) == q > 0 /\ q <= MaxQuantity /\ q * p <= MaxValue

ReadScope(t) ==
  /\ pc[t] = "scope"
  /\ \/ /\ Blocks(t)
        /\ Finish(t, "halted")
     \/ /\ ~Blocks(t)
        /\ ~LegalSize(order[t].quantity, order[t].price)
        /\ Finish(t, "size")
     \/ /\ ~Blocks(t)
        /\ LegalSize(order[t].quantity, order[t].price)
        /\ pc' = [pc EXCEPT ![t] = "loss"]
        /\ UNCHANGED verdict
  /\ UNCHANGED <<dicts, today, order, seen, sealed, breached>>

(* Mutant of LedgerOf: one ledger for paper and real results.              *)
LedgerOf_shared(t) ==
  [o \in Owner |-> Today(simulated, 0)[o] + Today(realized, 0)[o]]

LedgerOf(t) ==
  IF order[t].simulated THEN Today(simulated, 0) ELSE Today(realized, 0)
LossReached(t) == LedgerOf(t)[order[t].owner] <= -Cap

ReadLoss(t) ==
  /\ pc[t] = "loss"
  /\ RollDay
  /\ \/ /\ ~LossReached(t)
        /\ Finish(t, "accepted")
     \/ /\ LossReached(t) /\ order[t].simulated
        /\ Finish(t, "paperLoss")
     \/ /\ LossReached(t) /\ ~order[t].simulated
        /\ pc' = [pc EXCEPT ![t] = "trip"]
        /\ UNCHANGED verdict
  /\ breached' = Breaches(Today(realized, 0))
  /\ UNCHANGED <<today, order, seen, sealed>>

-----------------------------------------------------------------------------
(* Mutant of SetHalt: every halt stops real orders only.                  *)
SetHalt_realOnly(o, reason, s) ==
  /\ realized' = Today(realized, 0) /\ simulated' = Today(simulated, 0)
  /\ halted' = [Today(halted, "no") EXCEPT ![o] = reason]
  /\ scope' = [Today(scope, "all") EXCEPT ![o] = "real"]
  /\ asOf' = today
  /\ breached' = Breaches(Today(realized, 0))

(* halt(owner_key, reason, scope)                                          *)
SetHalt(o, reason, s) ==
  /\ realized' = Today(realized, 0) /\ simulated' = Today(simulated, 0)
  /\ halted' = [Today(halted, "no") EXCEPT ![o] = reason]
  /\ scope' = [Today(scope, "all") EXCEPT ![o] = s]
  /\ asOf' = today
  /\ breached' = Breaches(Today(realized, 0))

(* The breaker of validate_order: it halts real orders, then refuses.      *)
Trip(t) ==
  /\ pc[t] = "trip"
  /\ SetHalt(order[t].owner, "loss", "real")
  /\ Finish(t, "realLoss")
  /\ UNCHANGED <<today, order, seen, sealed>>

(* A straggler validates a real order of o and read "not halted" before:   *)
(* it may still trip the breaker.  Its halt replaces whatever stands.      *)
Straggler(t, o) ==
  /\ order[t].owner = o
  /\ ~order[t].simulated
  /\ pc[t] \in {"scope", "loss", "trip"}
  /\ seen[t] = "no"

(* The kill switch of the user (orders.py, halt) or of an administrator    *)
(* (admin.py, halt_tenant): the default scope, everything.                 *)
Halt(o) ==
  /\ SetHalt(o, "kill", "all")
  /\ sealed' = IF \E t \in Thread : Straggler(t, o)
               THEN sealed ELSE [sealed EXCEPT ![o] = today]
  /\ UNCHANGED <<today, threads>>

-----------------------------------------------------------------------------
(* record_realized_pnl and set_realized_pnl                                *)
RecordRealizedPnl(o, pnl, s) ==
  /\ Today(IF s THEN simulated ELSE realized, 0)[o] + pnl
       \in -LedgerBound .. LedgerBound
  /\ IF s
     THEN /\ simulated' = [Today(simulated, 0) EXCEPT ![o] = @ + pnl]
          /\ realized' = Today(realized, 0)
     ELSE /\ realized' = [Today(realized, 0) EXCEPT ![o] = @ + pnl]
          /\ simulated' = Today(simulated, 0)
  /\ halted' = Today(halted, "no") /\ scope' = Today(scope, "all")
  /\ asOf' = today
  /\ breached' = Breaches(realized')
  /\ UNCHANGED <<today, threads, sealed>>

(* Mutant of SetRealizedPnl: a figure above the cap lifts the halt.        *)
SetRealizedPnl_lifts(o, pnl) ==
  /\ realized' = [Today(realized, 0) EXCEPT ![o] = pnl]
  /\ simulated' = Today(simulated, 0)
  /\ halted' = [Today(halted, "no") EXCEPT ![o] = IF pnl > -Cap THEN "no" ELSE @]
  /\ scope' = Today(scope, "all")
  /\ asOf' = today
  /\ breached' = Breaches(realized')
  /\ UNCHANGED <<today, threads, sealed>>

SetRealizedPnl(o, pnl) ==
  /\ realized' = [Today(realized, 0) EXCEPT ![o] = pnl]
  /\ simulated' = Today(simulated, 0)
  /\ halted' = Today(halted, "no") /\ scope' = Today(scope, "all")
  /\ asOf' = today
  /\ breached' = Breaches(realized')
  /\ UNCHANGED <<today, threads, sealed>>

(* Mutant of Budget: the paper figure folded into the real one.            *)
Budget_folded(o) ==
  LET loss == Abs(Neg(realized[o] + simulated[o]))
  IN [remaining |-> IF Cap - loss > 0 THEN Cap - loss ELSE 0,
      used |-> loss, halted |-> halted[o] # "no"]

(* budget, realized_pnl and is_halted asked from outside: they roll the    *)
(* day and answer.  Budget is what budget() shows.                         *)
Budget(o) ==
  LET loss == Abs(Neg(realized[o]))
  IN [remaining |-> IF Cap - loss > 0 THEN Cap - loss ELSE 0,
      used |-> loss, halted |-> halted[o] # "no"]

AskBudget ==
  /\ RollDay
  /\ breached' = Breaches(Today(realized, 0))
  /\ UNCHANGED <<today, threads, sealed>>

-----------------------------------------------------------------------------
Validation(t) == IsHalted(t) \/ ReadScope(t) \/ ReadLoss(t) \/ Trip(t)

Next ==
  \/ Midnight
  \/ AskBudget
  \/ \E t \in Thread :
       \/ \E o \in Owner, q \in Quantity, p \in Price, s \in BOOLEAN :
            Call(t, o, q, p, s)
       \/ IsHalted(t)
       \/ ReadScope(t)
       \/ ReadLoss(t)
       \/ Trip(t)
  \/ \E o \in Owner :
       \/ Halt(o)
       \* Every caller of the program records simulated results.
       \/ \E x \in Pnl : RecordRealizedPnl(o, x, TRUE)
       \/ \E x \in Pnl : SetRealizedPnl(o, x)

Spec == Init /\ [][Next]_vars

-----------------------------------------------------------------------------
(* What the budget panel shows foretells what the validation of a real     *)
(* order decides when nothing else runs: it is refused for the loss cap    *)
(* exactly when no allowance is left.  The one exception is a cap of zero, *)
(* which leaves no allowance to show after a profit either, though the     *)
(* validation lets orders through until the profit is gone.                *)
BudgetForetells ==
  \A o \in Owner :
    (Budget(o).remaining = 0) <=> (Cap = 0 \/ realized[o] <= -Cap)

(* A halt is "deliberately not clearable": nothing but the change of day   *)
(* removes one, whatever results are recorded and whatever else halts.     *)
HaltLatches ==
  [][\A o \in Owner :
       halted[o] # "no" /\ asOf' = asOf => halted'[o] # "no"]_vars

(* No real order whose validation was called while its owner stood halted  *)
(* is accepted on that day, even when a profit lifts the ledger back above *)
(* the cap: a strategy "cannot keep probing the limit".                    *)
HaltedRefusesReal ==
  \A t \in Thread :
    verdict[t] = "accepted" /\ ~order[t].simulated /\ order[t].haltedOn # 0
      => order[t].haltedOn < today

(* A kill switch pressed while no straggler was between its halt check and *)
(* its breaker keeps its scope for the day: "a kill switch stops           *)
(* everything".                                                            *)
KillSwitchSeals ==
  \A o \in Owner :
    sealed[o] = asOf => halted[o] # "no" /\ scope[o] = "all"

(* After such a kill switch no order called later on that day is accepted, *)
(* simulated ones included.                                                *)
SealedRefusesAll ==
  \A t \in Thread :
    verdict[t] = "accepted" /\ order[t].sealedOn # 0
      => order[t].sealedOn < today

(* Simulated losses never trip the breaker of real trading: a halt for     *)
(* loss is one the real ledger reached the cap for.                        *)
PaperLossSparesReal ==
  \A o \in Owner : halted[o] = "loss" => breached[o] # 0

(* The kill switch as the code documents it: what it set for everything is *)
(* not narrowed to real orders before the day ends.                        *)
KillSwitchStopsEverything ==
  [][\A o \in Owner :
       halted[o] = "kill" /\ asOf' = asOf => scope'[o] = "all"]_vars

(* A halt holds "until the day rolls over": one for loss is for a loss of  *)
(* the day it stands in.                                                   *)
LossHaltIsOfItsDay ==
  \A o \in Owner : halted[o] = "loss" => breached[o] = asOf
=============================================================================
