------------------------------ MODULE Transfers ------------------------------
(***************************************************************************)
(* Money in and out of the account and the conversion of positions: the    *)
(* second half of engine/app/choice_gateway/funds.py, convert_position of  *)
(* portfolio.py, and their endpoints in backend/app/api/v1/portfolio.py    *)
(* with the audit rows they leave.  A request or its answer may be lost on *)
(* the way to Choice, and it may arrive after its sender gave up.          *)
(***************************************************************************)
EXTENDS Integers

CONSTANTS
  Request,     \* calls of the three endpoints
  Amount,      \* amounts typed in, in tenths of a paisa; none of them ends in 5
  Infinity,    \* the one that is no finite number
  MaxTransfer, \* MAX_TRANSFER
  MaxSwitches  \* bound of the model: changes of the session

VARIABLES
  mode,      \* the session's mode
  switches,  \* changes of the mode so far
  req,       \* req[r]: the thread that serves r
  wire,      \* wire[r]: copies of its POST on their way
  reply,     \* reply[r]: Choice's answer on its way back
  taken,     \* taken[r]: how often Choice did what r asks for
  audit      \* audit[r]: the rows r left in the audit log

vars == <<mode, switches, req, wire, reply, taken, audit>>

(* A request converts a position or moves the amount, in paise once it was *)
(* validated.  kept (history): the session kept its mode so far.           *)
New == [pc |-> "new", kind |-> "none", amount |-> 0, result |-> "none", kept |-> TRUE]

TypeOK ==
  /\ mode \in {"DISCONNECTED", "DEMO", "PAPER", "LIVE"} /\ switches \in 0 .. MaxSwitches
  /\ req \in [Request ->
       [pc : {"new", "check", "client", "post", "await", "answered", "done", "dead"},
        kind : {"none", "withdraw", "add", "convert"}, amount : Int,
        result : {"none", "done", "refused"}, kept : BOOLEAN]]
  /\ wire \in [Request -> Nat] /\ reply \in [Request -> {"none", "ok", "fail"}]
  /\ taken \in [Request -> Nat]
  /\ audit \in [Request -> {"nothing", "done", "refused"}]

Init ==
  /\ mode \in {"PAPER", "LIVE"} /\ switches = 0
  /\ req = [r \in Request |-> New]
  /\ wire = [r \in Request |-> 0] /\ reply = [r \in Request |-> "none"]
  /\ taken = [r \in Request |-> 0] /\ audit = [r \in Request |-> "nothing"]

Simulates == mode \in {"DEMO", "PAPER"}
Underway(r) == req[r].pc \notin {"new", "done", "dead"}

\* Signing in, the sandbox, the paper/live switch and signing out.
SetMode(m) ==
  /\ m # mode /\ switches < MaxSwitches
  /\ mode' = m /\ switches' = switches + 1
  /\ req' = [r \in Request |-> IF Underway(r) THEN [req[r] EXCEPT !.kept = FALSE] ELSE req[r]]
  /\ UNCHANGED <<wire, reply, taken, audit>>

-----------------------------------------------------------------------------
(* One request.                                                             *)

Goes(r, to) == req' = [req EXCEPT ![r] = to]
Elsewhere == UNCHANGED <<mode, switches, audit>>
Choice == UNCHANGED <<wire, reply, taken>>
Refused(r) == [req[r] EXCEPT !.pc = "answered", !.result = "refused"]

\* The endpoint: an amount above zero, and for a withdrawal the confirmation,
\* without which nothing starts.
Call(r, kind, amount) ==
  /\ req[r].pc = "new" /\ amount > 0
  /\ Goes(r, [New EXCEPT !.pc = "check", !.kind = kind, !.amount = amount])
  /\ Elsewhere /\ Choice

\* _validate_amount: the check comes before the rounding.
ValidAmount(amount) == amount # Infinity /\ amount > 0 /\ amount <= MaxTransfer
Rounded(amount) == (amount + 5) \div 10

\* withdraw and add_funds, up to the client: a session that simulates is
\* refused, and then the arguments are looked at.
CheckTransfer(r) ==
  LET it == req[r]
  IN  /\ it.pc = "check"
      /\ \/ /\ ~Simulates /\ ValidAmount(it.amount)
            /\ Goes(r, [it EXCEPT !.pc = "client", !.amount = Rounded(it.amount)])
         \/ Goes(r, Refused(r))
      /\ Elsewhere /\ Choice

\* convert_position, up to the client: a side, and two different products.
CheckConversion(r) ==
  /\ req[r].pc = "check"
  /\ \/ ~Simulates /\ Goes(r, [req[r] EXCEPT !.pc = "client"])
     \/ Goes(r, Refused(r))
  /\ Elsewhere /\ Choice

RequireClient(r) ==
  /\ req[r].pc = "client"
  /\ Goes(r, IF mode \in {"PAPER", "LIVE"} THEN [req[r] EXCEPT !.pc = "post"] ELSE Refused(r))
  /\ Elsewhere /\ Choice

Post(r) ==
  /\ req[r].pc = "post" /\ Goes(r, [req[r] EXCEPT !.pc = "await"])
  /\ wire' = [wire EXCEPT ![r] = @ + 1]
  /\ Elsewhere /\ UNCHANGED <<reply, taken>>

\* The method of a deposit is looked at last: it may be unknown, or lack what
\* it needs.
WrongMethod(r) ==
  /\ req[r].pc = "post" /\ Goes(r, Refused(r))
  /\ Elsewhere /\ Choice

\* Mutant: what Choice says is not looked at.
Answer_unchecked(r) ==
  /\ req[r].pc = "await" /\ reply[r] # "none"
  /\ Goes(r, [req[r] EXCEPT !.pc = "answered", !.result = "done"])
  /\ reply' = [reply EXCEPT ![r] = "none"]
  /\ Elsewhere /\ UNCHANGED <<wire, taken>>
Answer(r) ==
  /\ req[r].pc = "await" /\ reply[r] # "none"
  /\ Goes(r, IF reply[r] = "ok" THEN [req[r] EXCEPT !.pc = "answered", !.result = "done"]
             ELSE Refused(r))
  /\ reply' = [reply EXCEPT ![r] = "none"]
  /\ Elsewhere /\ UNCHANGED <<wire, taken>>

\* A POST is not sent again.
Timeout(r) ==
  /\ req[r].pc = "await" /\ Goes(r, Refused(r))
  /\ reply' = [reply EXCEPT ![r] = "none"]
  /\ Elsewhere /\ UNCHANGED <<wire, taken>>

\* The three calls of the engine.
Sent(r) == Answer(r) \/ Timeout(r)
Withdraw(r) ==
  /\ req[r].kind = "withdraw"
  /\ CheckTransfer(r) \/ RequireClient(r) \/ Post(r) \/ Sent(r)
AddFunds(r) ==
  /\ req[r].kind = "add"
  /\ CheckTransfer(r) \/ RequireClient(r) \/ Post(r) \/ WrongMethod(r) \/ Sent(r)
ConvertPosition(r) ==
  /\ req[r].kind = "convert"
  /\ CheckConversion(r) \/ RequireClient(r) \/ Post(r) \/ Sent(r)

\* The endpoints' audit rows: of a withdrawal either way, of the others when
\* they are done.
Recorded(r, result) ==
  /\ req[r].pc = "answered" /\ Goes(r, [req[r] EXCEPT !.pc = "done"])
  /\ audit' = [audit EXCEPT ![r] = result]
  /\ UNCHANGED <<mode, switches>> /\ Choice
RecordWithdrawal(r) == req[r].kind = "withdraw" /\ Recorded(r, req[r].result)
RecordDone(r) ==
  /\ req[r].kind \in {"add", "convert"}
  /\ Recorded(r, IF req[r].result = "done" THEN "done" ELSE "nothing")

\* The process ends under a request, or the database refuses the row.
Dies(r) ==
  /\ Underway(r) /\ Goes(r, [req[r] EXCEPT !.pc = "dead"])
  /\ reply' = [reply EXCEPT ![r] = "none"]
  /\ Elsewhere /\ UNCHANGED <<wire, taken>>

-----------------------------------------------------------------------------
\* Choice does what a POST asks or refuses it, and its answer may be lost.
Arrives(r) ==
  /\ wire[r] > 0 /\ wire' = [wire EXCEPT ![r] = @ - 1]
  /\ \E answer \in {"ok", "fail", "none"} :
       /\ reply' = [reply EXCEPT ![r] = IF req[r].pc = "await" THEN answer ELSE @]
       /\ taken' \in {[taken EXCEPT ![r] = @ + done] :
                        done \in CASE answer = "ok" -> {1} [] answer = "fail" -> {0}
                                   [] OTHER -> {0, 1}}
  /\ Elsewhere /\ UNCHANGED req

Next ==
  \/ \E m \in {"DISCONNECTED", "DEMO", "PAPER", "LIVE"} : SetMode(m)
  \/ \E r \in Request :
       \/ \E kind \in {"withdraw", "add", "convert"}, amount \in Amount : Call(r, kind, amount)
       \/ Withdraw(r) \/ AddFunds(r) \/ ConvertPosition(r)
       \/ RecordWithdrawal(r) \/ RecordDone(r) \/ Dies(r) \/ Arrives(r)

Spec == Init /\ [][Next]_vars

-----------------------------------------------------------------------------
(* Money that left the account has a record: a payout Choice made, and be  *)
(* it for a request whose answer never came or that arrived late, has the  *)
(* audit row of its request, unless the process or the database failed     *)
(* under it.  A row that says it was done stands for one payout, deposit   *)
(* or conversion at Choice, nothing is done twice, and nothing at all is   *)
(* for a session that kept simulating during the call.                     *)
PayoutsLeaveARecord ==
  \A r \in Request :
    LET it == req[r]
    IN  /\ it.kind = "withdraw" /\ taken[r] > 0 /\ it.pc = "done" => audit[r] # "nothing"
        /\ audit[r] = "done" => taken[r] = 1
        /\ taken[r] <= 1
        /\ taken[r] > 0 /\ Underway(r) /\ it.kept => mode = "LIVE"

(* "A simulated session must never reach them."  It does not hold, a       *)
(* switch to paper between the check and the POST is not seen.             *)
PaperMovesNoMoney == [][\A r \in Request : wire'[r] > wire[r] => ~Simulates]_vars

(* "Amount must be greater than zero."  It does not hold, four tenths of a *)
(* paisa are more than zero and rounded to it.                             *)
NothingIsNoAmount ==
  \A r \in Request : wire[r] > 0 /\ req[r].kind # "convert" => req[r].amount > 0
=============================================================================
