------------------------------ MODULE Services ------------------------------
(* The parts around the trading session: the numbers orders carry and the  *)
(* limiter they wait at (OrderGate), the redirect that attaches a session  *)
(* to a user (PartnerLogin), and the desktop program's update (Updater).   *)
(* They share no state; here are their parameters, what is assumed of      *)
(* those, and their properties.                                            *)
EXTENDS Integers

CONSTANTS
  Rate, Second, Modulus, Down, StartTimes, Horizon, MaxRestarts,    \* of the order numbers
  User, State, Redirected, LinkTtl,                                 \* of the redirect
  Copy, Update, Asset                                               \* of the update

VARIABLES
  clock, offset, allowance, refilled, last, restarts, issued,
  configured, store, bound, age, active, callback, attached, punctual,
  launcher, backend, offer, exe, old, new, update, orderly

Gate == INSTANCE OrderGate WITH Start <- StartTimes
Login == INSTANCE PartnerLogin WITH Thread <- Redirected, Ttl <- LinkTtl
Desktop == INSTANCE Updater

gateVars == <<clock, offset, allowance, refilled, last, restarts, issued>>
loginVars == <<configured, store, bound, age, active, callback, attached, punctual>>
desktopVars == <<launcher, backend, offer, exe, old, new, update, orderly>>

\* A tick brings no more than one order's allowance, a restart takes longer than
\* a full bucket lets the numbers run ahead, and time is counted from a cycle's start.
LawfulGate ==
  /\ Rate \in Nat \ {0} /\ Second \in Nat \ {0} /\ Modulus \in Nat \ {0} /\ Down \in Nat
  /\ Rate <= Second
  /\ Rate < Down
  /\ StartTimes \subseteq 0 .. Modulus - 1
ASSUME GateAssumption == LawfulGate

\* "no" is no user, and a release has an executable or else its page.
ASSUME LoginAssumption == "no" \notin User
ASSUME UpdateAssumption == Asset \subseteq {"program", "page"}

(* Stated and explained in the modules of the parts.                       *)
NoNumberTwice == Gate!NoNumberTwice
OneSessionPerLink == Login!OneSessionPerLink
ProgramSurvives == Desktop!ProgramSurvives
=============================================================================
