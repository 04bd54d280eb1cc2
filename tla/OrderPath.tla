----------------------------- MODULE OrderPath -----------------------------
(***************************************************************************)
(* The path of an order from POST /orders to Choice and back               *)
(* (backend/app/services/order_service.py, backend/app/api/v1/orders.py,   *)
(* engine/app/choice_gateway/orders.py), with what runs beside it: other   *)
(* orders, the paper/live switch, amendments and cancellations, the kill   *)
(* switch of a user or of an administrator, and a restart of the process.  *)
(*                                                                         *)
(* A request thread keeps the session object it was given, so the mode it  *)
(* reads is the mode of that moment.  Choice is an external party that     *)
(* books, refuses, fills and cancels in its own time; a request or its     *)
(* answer may be lost, and a request may arrive after its sender gave up.  *)
(* Each Request places one order: its local row, its number and its record *)
(* at Choice share its name.  The risk check is one step here; RiskManager *)
(* opens it.                                                               *)
(***************************************************************************)
EXTENDS Integers, FiniteSets

CONSTANTS
  Account,     \* users with a Choice session
  Request,     \* calls of POST /orders, each with its own order number
  AccountOf,   \* AccountOf[r]: the account that places r
  Killer,      \* calls of POST /orders/halt and POST /admin/tenants/{id}/halt
  Desk,        \* threads that amend or cancel a booked order
  MaxRestart   \* bound of the model: restarts of the process

ASSUME OrderPathAssumption ==
  /\ AccountOf \in [Request -> Account]
  /\ MaxRestart \in Nat

VARIABLES
  mode,       \* mode[a]: the session's mode, "NONE" without a session
  halt,       \* halt[a]: the risk manager's halt, by scope
  ledger,     \* ledger[a]: the risk manager's real ledger is at the loss cap
  req,        \* req[r]: the thread that places r; steady (history): the mode
              \* has not been switched under it
  row,        \* row[r]: status of the Order row, "none" before it exists
  sim,        \* sim[r]: status in session.simulated_orders
  wire,       \* wire[r]: copies of the NewOrder request on their way
  reply,      \* reply[r]: Choice's answer on its way back
  book,       \* book[r]: the order in Choice's order book
  bookings,   \* bookings[r]: how often Choice booked it
  amended,    \* amended[r]: Choice has amended it
  figure,     \* figure[a]: the realised loss Choice reports is at the cap
  kill,       \* kill[k]: the thread that handles the kill switch
  desk,       \* desk[d]: the thread that amends or cancels
  restarts,   \* restarts so far
  newest,     \* history: figure[a] as the latest funds call read it
  pressed,    \* history: accounts a kill switch has halted
  late        \* history: r was called after a kill switch had halted it

process == <<mode, halt, ledger>>
records == <<row, sim>>
choice == <<wire, reply, book, bookings, amended, figure>>
history == <<newest, pressed, late>>
vars == <<mode, halt, ledger, req, row, sim, wire, reply, book, bookings,
          amended, figure, kill, desk, restarts, newest, pressed, late>>

Running == {"mode", "validate", "dispatch", "post", "await", "simulated",
            "refresh", "setPnl"}
Booked == {"working", "filled", "cancelled"}
Recorded == {"ACCEPTED", "SIMULATED", "MODIFIED", "CANCELLED"}

NoKill == [pc |-> "idle", targets |-> {}, toHalt |-> {}, toSweep |-> {},
           todo |-> {}, swept |-> {}, inPaper |-> {}, failed |-> {},
           inflight |-> {}]
NoDesk(r) == [pc |-> "idle", of |-> r]

TypeOK ==
  /\ mode \in [Account -> {"NONE", "PAPER", "LIVE"}]
  /\ halt \in [Account -> {"no", "all", "real"}]
  /\ ledger \in [Account -> BOOLEAN] /\ figure \in [Account -> BOOLEAN]
  /\ req \in [Request -> [pc : Running \cup {"new", "done", "dead"},
                          asPaper : BOOLEAN, fetched : BOOLEAN, steady : BOOLEAN]]
  /\ row \in [Request -> Recorded \cup {"none", "SUBMITTED", "REJECTED"}]
  /\ sim \in [Request -> {"none", "SIMULATED", "CANCELLED"}]
  /\ wire \in [Request -> Nat] /\ bookings \in [Request -> Nat]
  /\ reply \in [Request -> {"none", "ok", "fail"}]
  /\ book \in [Request -> Booked \cup {"absent"}]
  /\ amended \in [Request -> BOOLEAN]
  /\ kill \in [Killer ->
       [pc : {"idle", "halt", "sweep", "cancel", "done"},
        targets : SUBSET Account, toHalt : SUBSET Account,
        toSweep : SUBSET Account, todo : SUBSET Request,
        swept : SUBSET Account, inPaper : SUBSET Account,
        failed : SUBSET Request, inflight : SUBSET Request]]
  /\ desk \in [Desk ->
       [pc : {"idle", "amend", "cancel", "amended", "cancelled"}, of : Request]]
  /\ restarts \in 0 .. MaxRestart
  /\ newest \in [Account -> BOOLEAN] /\ pressed \subseteq Account
  /\ late \in [Request -> BOOLEAN]

Init ==
  /\ mode \in [Account -> {"NONE", "PAPER", "LIVE"}]
  /\ halt = [a \in Account |-> "no"]
  /\ ledger = [a \in Account |-> FALSE] /\ figure = [a \in Account |-> FALSE]
  /\ req = [r \in Request |-> [pc |-> "new", asPaper |-> FALSE, fetched |-> FALSE,
                              steady |-> TRUE]]
  /\ row = [r \in Request |-> "none"] /\ sim = [r \in Request |-> "none"]
  /\ wire = [r \in Request |-> 0] /\ reply = [r \in Request |-> "none"]
  /\ book = [r \in Request |-> "absent"]
  /\ bookings = [r \in Request |-> 0]
  /\ amended = [r \in Request |-> FALSE]
  /\ kill = [k \in Killer |-> NoKill]
  /\ \E r \in Request : desk = [d \in Desk |-> NoDesk(r)]
  /\ restarts = 0
  /\ newest = [a \in Account |-> FALSE] /\ pressed = {}
  /\ late = [r \in Request |-> FALSE]

Acct(r) == AccountOf[r]
At(r, label) == req[r].pc = label
Goto(r, label) == req' = [req EXCEPT ![r].pc = label]

-----------------------------------------------------------------------------
(* The session: set_mode writes the mode of the shared session object and  *)
(* checks nothing that is in flight; connecting puts a session in place.   *)

Connect(a, m) ==
  /\ mode[a] = "NONE"
  /\ mode' = [mode EXCEPT ![a] = m]
  /\ UNCHANGED <<halt, ledger, req, records, choice, kill, desk, restarts, history>>

SetMode(a, m) ==
  /\ mode[a] \notin {"NONE", m}
  /\ mode' = [mode EXCEPT ![a] = m]
  /\ req' = [r \in Request |-> IF Acct(r) = a /\ req[r].pc \in Running
                               THEN [req[r] EXCEPT !.steady = FALSE] ELSE req[r]]
  /\ UNCHANGED <<halt, ledger, records, choice, kill, desk, restarts, history>>

-----------------------------------------------------------------------------
(* Placing an order                                                        *)

(* A mutant of Submit: the row is left to be written with the outcome.     *)
Submit_unrecorded(r) ==
  /\ At(r, "new") /\ mode[Acct(r)] # "NONE"
  /\ Goto(r, "mode")
  /\ late' = [late EXCEPT ![r] = Acct(r) \in pressed]
  /\ UNCHANGED <<process, records, choice, kill, desk, restarts, newest, pressed>>

(* The row is committed before anything else, with status SUBMITTED.       *)
Submit(r) ==
  /\ At(r, "new") /\ mode[Acct(r)] # "NONE"
  /\ row' = [row EXCEPT ![r] = "SUBMITTED"]
  /\ Goto(r, "mode")
  /\ late' = [late EXCEPT ![r] = Acct(r) \in pressed]
  /\ UNCHANGED <<process, sim, choice, kill, desk, restarts, newest, pressed>>

(* The arguments of validate_order: the mode first, then the reference     *)
(* price, a network call.                                                  *)
ReadMode(r) ==
  /\ At(r, "mode")
  /\ req' = [req EXCEPT ![r].pc = "validate",
                        ![r].asPaper = mode[Acct(r)] = "PAPER"]
  /\ UNCHANGED <<process, records, choice, kill, desk, restarts, history>>

(* Every ChoiceGatewayError ends in the same place.                        *)
RecordRejected(r) ==
  /\ row' = [row EXCEPT ![r] = "REJECTED"]
  /\ Goto(r, "done")

(* A mutant of Blocked: every halt stops real orders only.                 *)
Blocked_realOnly(a, paper) == halt[a] # "no" /\ ~paper

Blocked(a, paper) == halt[a] = "all" \/ (halt[a] = "real" /\ ~paper)
Trips(a, paper) == ~Blocked(a, paper) /\ ~paper /\ ledger[a]

TripBreaker(a) == halt' = [halt EXCEPT ![a] = "real"]

Validate(r) ==
  LET a == Acct(r)  paper == req[r].asPaper IN
  /\ At(r, "validate")
  /\ \/ /\ Blocked(a, paper)
        /\ RecordRejected(r)
        /\ UNCHANGED halt
     \/ /\ Trips(a, paper)
        /\ TripBreaker(a)
        /\ RecordRejected(r)
     \/ /\ ~Blocked(a, paper) /\ ~Trips(a, paper)
        /\ Goto(r, "dispatch")
        /\ UNCHANGED <<halt, row>>
  /\ UNCHANGED <<mode, ledger, sim, choice, kill, desk, restarts, history>>

(* Malformed, oversized, over the paper budget, over the order rate, no    *)
(* price to fill at, no client: the other refusals before anything leaves. *)
Refuse(r) ==
  /\ req[r].pc \in {"validate", "dispatch"}
  /\ RecordRejected(r)
  /\ UNCHANGED <<process, sim, choice, kill, desk, restarts, history>>

(* A mutant of Dispatch: what sends an order is a client, in whatever mode.*)
Dispatch_client(r) ==
  /\ At(r, "dispatch") /\ mode[Acct(r)] # "NONE"
  /\ Goto(r, "post")
  /\ UNCHANGED <<process, records, choice, kill, desk, restarts, history>>

(* session.simulates_orders is read again here, after the network call.    *)
Dispatch(r) ==
  /\ At(r, "dispatch")
  /\ \/ /\ mode[Acct(r)] = "PAPER"
        /\ sim' = [sim EXCEPT ![r] = "SIMULATED"]
        /\ Goto(r, "simulated")
     \/ /\ mode[Acct(r)] = "LIVE"
        /\ Goto(r, "post")
        /\ UNCHANGED sim
  /\ UNCHANGED <<process, row, choice, kill, desk, restarts, history>>

RecordSimulated(r) ==
  /\ At(r, "simulated")
  /\ row' = [row EXCEPT ![r] = "SIMULATED"]
  /\ Goto(r, "refresh")
  /\ UNCHANGED <<process, sim, choice, kill, desk, restarts, history>>

Post(r) ==
  /\ At(r, "post")
  /\ wire' = [wire EXCEPT ![r] = @ + 1]
  /\ Goto(r, "await")
  /\ UNCHANGED <<process, records, reply, book, bookings, amended, figure,
                 kill, desk, restarts, history>>

(* A mutant of Answer: an unknown status reads as success.                 *)
Answer_optimistic(r) ==
  /\ At(r, "await") /\ reply[r] # "none"
  /\ row' = [row EXCEPT ![r] = "ACCEPTED"]
  /\ Goto(r, "refresh")
  /\ reply' = [reply EXCEPT ![r] = "none"]
  /\ UNCHANGED <<process, sim, wire, book, bookings, amended, figure, kill,
                 desk, restarts, history>>

Answer(r) ==
  /\ At(r, "await") /\ reply[r] # "none"
  /\ \/ /\ reply[r] = "ok"
        /\ row' = [row EXCEPT ![r] = "ACCEPTED"]
        /\ Goto(r, "refresh")
     \/ /\ reply[r] = "fail"
        /\ RecordRejected(r)
  /\ reply' = [reply EXCEPT ![r] = "none"]
  /\ UNCHANGED <<process, sim, wire, book, bookings, amended, figure, kill,
                 desk, restarts, history>>

(* Mutants of Timeout: a POST that is sent again, and a client that waits  *)
(* for ever.                                                               *)
Timeout_resends(r) ==
  /\ At(r, "await")
  /\ wire' = [wire EXCEPT ![r] = IF @ + bookings[r] < 2 THEN @ + 1 ELSE @]
  /\ UNCHANGED <<process, req, records, reply, book, bookings, amended, figure,
                 kill, desk, restarts, history>>
Timeout_never(r) == FALSE /\ UNCHANGED vars

(* No answer within CHOICE_HTTP_TIMEOUT: the one attempt a POST gets is    *)
(* over, and the row says REJECTED whatever Choice did or is about to do.  *)
Timeout(r) ==
  /\ At(r, "await")
  /\ RecordRejected(r)
  /\ reply' = [reply EXCEPT ![r] = "none"]
  /\ UNCHANGED <<process, sim, wire, book, bookings, amended, figure, kill,
                 desk, restarts, history>>

(* refresh_realized_pnl, after a recorded order: the figure is read from   *)
(* Choice in one step and written to the ledger in another, best effort.   *)
ReadFigure(r) ==
  LET a == Acct(r) IN
  /\ At(r, "refresh")
  /\ \/ /\ mode[a] = "LIVE"
        /\ req' = [req EXCEPT ![r].pc = "setPnl", ![r].fetched = figure[a]]
        /\ newest' = [newest EXCEPT ![a] = figure[a]]
     \/ /\ Goto(r, "done")
        /\ UNCHANGED newest
  /\ UNCHANGED <<process, records, choice, kill, desk, restarts, pressed, late>>

SetRealizedPnl(r) ==
  LET a == Acct(r) IN
  /\ At(r, "setPnl")
  /\ ledger' = IF mode[a] = "LIVE" THEN [ledger EXCEPT ![a] = req[r].fetched]
                                   ELSE ledger
  /\ Goto(r, "done")
  /\ UNCHANGED <<mode, halt, records, choice, kill, desk, restarts, history>>

PlaceStep(r) ==
  \/ Submit(r) \/ ReadMode(r) \/ Validate(r) \/ Refuse(r) \/ Dispatch(r)
  \/ RecordSimulated(r) \/ Post(r) \/ Answer(r) \/ Timeout(r)
  \/ ReadFigure(r) \/ SetRealizedPnl(r)

-----------------------------------------------------------------------------
(* Choice: a request is booked or refused, or never arrives; a working     *)
(* order fills, for a loss or a profit.  An answer finds its caller only   *)
(* while the caller still waits.                                           *)

Reply(r, answer) ==
  reply' = [reply EXCEPT ![r] = IF At(r, "await") THEN answer ELSE @]

Book(r) ==
  /\ wire[r] > 0
  /\ wire' = [wire EXCEPT ![r] = @ - 1]
  /\ \/ /\ bookings' = [bookings EXCEPT ![r] = @ + 1]
        /\ book' = [book EXCEPT ![r] = "working"]
        /\ Reply(r, "ok")
     \/ /\ Reply(r, "fail")
        /\ UNCHANGED <<book, bookings>>
     \/ UNCHANGED <<reply, book, bookings>>
  /\ UNCHANGED <<process, req, records, amended, figure, kill, desk, restarts, history>>

Fill(r, loss) ==
  /\ book[r] = "working"
  /\ book' = [book EXCEPT ![r] = "filled"]
  /\ figure' = [figure EXCEPT ![Acct(r)] = loss]
  /\ UNCHANGED <<process, req, records, wire, reply, bookings, amended,
                 kill, desk, restarts, history>>

(* is_open_status, on the wording Choice gives each state.                 *)
IsOpen(r) == book[r] = "working"

(* A cancellation reaches Choice or not, and finds the order open or not.  *)
CancelAtChoice(r) == book' = [book EXCEPT ![r] = "cancelled"]

-----------------------------------------------------------------------------
(* The kill switch: halt every target, then sweep each one's open orders.  *)

(* A user halts his own connected account, an administrator a tenant.      *)
Press(k, T) ==
  /\ kill[k].pc = "idle"
  /\ T = Account \/ (\E a \in Account : T = {a} /\ mode[a] # "NONE")
  /\ kill' = [kill EXCEPT ![k] = [NoKill EXCEPT !.pc = "halt", !.targets = T,
                                  !.toHalt = T, !.toSweep = T]]
  /\ UNCHANGED <<process, req, records, choice, desk, restarts, history>>

(* Orders that have passed the halt check and are not at Choice yet.       *)
InFlight(a) ==
  {r \in Request : /\ Acct(r) = a /\ book[r] = "absent"
                   /\ wire[r] > 0 \/ req[r].pc \in {"dispatch", "post", "await"}}

(* A mutant of Halt: only connected accounts are halted.                   *)
Halt_connected(k, a) ==
  /\ kill[k].pc = "halt" /\ a \in kill[k].toHalt
  /\ halt' = IF mode[a] = "NONE" THEN halt ELSE [halt EXCEPT ![a] = "all"]
  /\ kill' = [kill EXCEPT ![k].toHalt = @ \ {a},
        ![k].inflight = @ \cup InFlight(a),
        ![k].pc = IF kill[k].toHalt = {a} THEN "sweep" ELSE @]
  /\ pressed' = pressed \cup {a}
  /\ UNCHANGED <<mode, ledger, req, records, choice, desk, restarts, newest, late>>

Halt(k, a) ==
  /\ kill[k].pc = "halt" /\ a \in kill[k].toHalt
  /\ halt' = [halt EXCEPT ![a] = "all"]
  /\ kill' = [kill EXCEPT ![k].toHalt = @ \ {a},
        ![k].inflight = @ \cup InFlight(a),
        ![k].pc = IF kill[k].toHalt = {a} THEN "sweep" ELSE @]
  /\ pressed' = pressed \cup {a}
  /\ UNCHANGED <<mode, ledger, req, records, choice, desk, restarts, newest, late>>

(* Done with account a: the next one, or the end.                          *)
Swept(k, a) ==
  [kill[k] EXCEPT !.toSweep = @ \ {a},
                  !.pc = IF kill[k].toSweep = {a} THEN "done" ELSE "sweep"]

(* No session, or a book that cannot be read: the halt still stands.       *)
SkipAccount(k, a) ==
  /\ kill[k].pc = "sweep" /\ a \in kill[k].toSweep
  /\ mode[a] # "PAPER"
  /\ kill' = [kill EXCEPT ![k] = Swept(k, a)]
  /\ UNCHANGED <<process, req, records, choice, desk, restarts, history>>

(* A simulating session cancels what its own list shows as open, and       *)
(* "SIMULATED" is no terminal status.                                      *)
SweepPaper(k, a) ==
  /\ kill[k].pc = "sweep" /\ a \in kill[k].toSweep
  /\ mode[a] = "PAPER"
  /\ sim' = [r \in Request |-> IF Acct(r) = a /\ sim[r] = "SIMULATED"
                               THEN "CANCELLED" ELSE sim[r]]
  /\ kill' = [kill EXCEPT ![k] = [Swept(k, a) EXCEPT !.inPaper = @ \cup {a}]]
  /\ UNCHANGED <<process, req, row, choice, desk, restarts, history>>

(* A mutant of ReadBook: a refused fetch reads as an empty book.           *)
ReadBook_refused(k, a) ==
  LET open == {r \in Request : Acct(r) = a /\ IsOpen(r)} IN
  /\ kill[k].pc = "sweep" /\ a \in kill[k].toSweep
  /\ mode[a] = "LIVE"
  /\ kill' \in {[kill EXCEPT ![k] = [Swept(k, a) EXCEPT !.swept = @ \cup {a}]],
                [kill EXCEPT ![k].pc = "cancel", ![k].toSweep = @ \ {a},
                             ![k].swept = @ \cup {a}, ![k].todo = open]}
  /\ UNCHANGED <<process, req, records, choice, desk, restarts, history>>

ReadBook(k, a) ==
  LET open == {r \in Request : Acct(r) = a /\ IsOpen(r)} IN
  /\ kill[k].pc = "sweep" /\ a \in kill[k].toSweep
  /\ mode[a] = "LIVE"
  /\ kill' = [kill EXCEPT ![k].pc = "cancel", ![k].toSweep = @ \ {a},
                          ![k].swept = @ \cup {a}, ![k].todo = open]
  /\ UNCHANGED <<process, req, records, choice, desk, restarts, history>>

(* Mutants of CancelNext: the first refusal ends the sweep; a refused      *)
(* order is tried until it works.                                          *)
CancelNext_stops(k, r) ==
  /\ kill[k].pc = "cancel" /\ r \in kill[k].todo
  /\ \/ /\ IsOpen(r) /\ CancelAtChoice(r)
        /\ kill' = [kill EXCEPT ![k].todo = @ \ {r}]
     \/ /\ kill' = [kill EXCEPT ![k].todo = {}, ![k].failed = @ \cup {r}]
        /\ UNCHANGED book
  /\ UNCHANGED <<process, req, records, wire, reply, bookings, amended, figure,
                 desk, restarts, history>>
CancelNext_retries(k, r) ==
  /\ kill[k].pc = "cancel" /\ r \in kill[k].todo
  /\ \/ /\ IsOpen(r) /\ CancelAtChoice(r)
        /\ kill' = [kill EXCEPT ![k].todo = @ \ {r}]
     \/ UNCHANGED <<book, kill>>
  /\ UNCHANGED <<process, req, records, wire, reply, bookings, amended, figure,
                 desk, restarts, history>>

(* One order of the sweep: cancelled and confirmed, or a failure, which an *)
(* order cancelled by a request whose answer was lost is too.              *)
CancelNext(k, r) ==
  /\ kill[k].pc = "cancel" /\ r \in kill[k].todo
  /\ \/ /\ IsOpen(r) /\ CancelAtChoice(r)
        /\ kill' \in {[kill EXCEPT ![k].todo = @ \ {r}],
                      [kill EXCEPT ![k].todo = @ \ {r}, ![k].failed = @ \cup {r}]}
     \/ /\ kill' = [kill EXCEPT ![k].todo = @ \ {r}, ![k].failed = @ \cup {r}]
        /\ UNCHANGED book
  /\ UNCHANGED <<process, req, records, wire, reply, bookings, amended, figure,
                 desk, restarts, history>>

NextAccount(k) ==
  /\ kill[k].pc = "cancel" /\ kill[k].todo = {}
  /\ kill' = [kill EXCEPT ![k].pc = IF kill[k].toSweep = {} THEN "done" ELSE "sweep"]
  /\ UNCHANGED <<process, req, records, choice, desk, restarts, history>>

KillStep(k) ==
  \/ \E a \in Account : Halt(k, a) \/ SkipAccount(k, a) \/ SweepPaper(k, a)
                         \/ ReadBook(k, a)
  \/ \E r \in Request : CancelNext(k, r)
  \/ NextAccount(k)

-----------------------------------------------------------------------------
(* Amending and cancelling one order.  Only a live session gets past the   *)
(* first check: a simulated order is never working, and its identifier is  *)
(* no number the cancel route accepts.                                     *)

Set(d, label, r) == desk' = [desk EXCEPT ![d] = [pc |-> label, of |-> r]]

(* modify_order validates as place_order does, on the caller's own fields. *)
CheckAmend(d, r) ==
  LET a == Acct(r) IN
  /\ desk[d].pc = "idle" /\ mode[a] = "LIVE" /\ bookings[r] > 0
  /\ \/ /\ Trips(a, FALSE)
        /\ TripBreaker(a)
        /\ UNCHANGED desk
     \/ /\ ~Blocked(a, FALSE) /\ ~Trips(a, FALSE)
        /\ Set(d, "amend", r)
        /\ UNCHANGED halt
  /\ UNCHANGED <<mode, ledger, req, records, choice, kill, restarts, history>>

(* Choice amends the order or refuses; a lost answer ends the call too.    *)
SendAmend(d) ==
  LET r == desk[d].of IN
  /\ desk[d].pc = "amend"
  /\ \/ /\ IsOpen(r)
        /\ amended' = [amended EXCEPT ![r] = TRUE]
        /\ Set(d, "amended", r) \/ Set(d, "idle", r)
     \/ /\ Set(d, "idle", r)
        /\ UNCHANGED amended
  /\ UNCHANGED <<process, req, records, wire, reply, book, bookings, figure,
                 kill, restarts, history>>

(* cancel_one looks the order up in Choice's book before it cancels.       *)
FindOpen(d, r) ==
  /\ desk[d].pc = "idle" /\ mode[Acct(r)] = "LIVE"
  /\ IsOpen(r)
  /\ Set(d, "cancel", r)
  /\ UNCHANGED <<process, req, records, choice, kill, restarts, history>>

(* A mutant of SendCancel: a refused cancellation counts as one.           *)
SendCancel_unchecked(d) ==
  LET r == desk[d].of IN
  /\ desk[d].pc = "cancel"
  /\ Set(d, "cancelled", r)
  /\ book' = [book EXCEPT ![r] = IF IsOpen(r) THEN "cancelled" ELSE @]
  /\ UNCHANGED <<process, req, records, wire, reply, bookings, amended, figure,
                 kill, restarts, history>>

SendCancel(d) ==
  LET r == desk[d].of IN
  /\ desk[d].pc = "cancel"
  /\ \/ /\ IsOpen(r) /\ CancelAtChoice(r)
        /\ Set(d, "cancelled", r) \/ Set(d, "idle", r)
     \/ /\ Set(d, "idle", r)
        /\ UNCHANGED book
  /\ UNCHANGED <<process, req, records, wire, reply, bookings, amended, figure,
                 kill, restarts, history>>

(* The local row is found by its number, which it has once it is recorded. *)
RecordDesk(d) ==
  LET r == desk[d].of  done == desk[d].pc IN
  /\ done \in {"amended", "cancelled"}
  /\ row' = [row EXCEPT ![r] =
       IF @ \notin Recorded THEN @
       ELSE IF done = "amended" THEN "MODIFIED" ELSE "CANCELLED"]
  /\ Set(d, "idle", r)
  /\ UNCHANGED <<process, req, sim, choice, kill, restarts, history>>

DeskStep(d) ==
  \/ \E r \in Request : CheckAmend(d, r) \/ FindOpen(d, r)
  \/ SendAmend(d) \/ SendCancel(d) \/ RecordDesk(d)

-----------------------------------------------------------------------------
(* The process ends and starts again: the rows stay, what was on its way   *)
(* stays, and every thread, session, ledger and halt is gone.              *)
Restart ==
  /\ restarts < MaxRestart
  /\ restarts' = restarts + 1
  /\ mode' = [a \in Account |-> "NONE"]
  /\ halt' = [a \in Account |-> "no"]
  /\ ledger' = [a \in Account |-> FALSE]
  /\ req' = [r \in Request |-> IF req[r].pc \in Running
                               THEN [req[r] EXCEPT !.pc = "dead"] ELSE req[r]]
  /\ sim' = [r \in Request |-> "none"]
  /\ reply' = [r \in Request |-> "none"]
  /\ kill' = [k \in Killer |-> NoKill]
  /\ desk' = [d \in Desk |-> NoDesk(desk[d].of)]
  /\ newest' = [a \in Account |-> FALSE]
  /\ UNCHANGED <<row, wire, book, bookings, amended, figure, pressed, late>>

Next ==
  \/ \E a \in Account, m \in {"PAPER", "LIVE"} : Connect(a, m) \/ SetMode(a, m)
  \/ \E r \in Request : PlaceStep(r) \/ Book(r)
  \/ \E r \in Request, loss \in BOOLEAN : Fill(r, loss)
  \/ \E k \in Killer, T \in SUBSET Account : Press(k, T)
  \/ \E k \in Killer : KillStep(k)
  \/ \E d \in Desk : DeskStep(d)
  \/ Restart

Spec == Init /\ [][Next]_vars

(* A thread that can take a step takes one; waiting for Choice ends with   *)
(* an answer or at the HTTP timeout.  Nothing is asked of Choice, of the   *)
(* users, or of the calls that start a thread.                             *)
FairSpec ==
  /\ Spec
  /\ \A r \in Request : WF_vars(PlaceStep(r) /\ ~At(r, "new"))
  /\ \A k \in Killer : WF_vars(KillStep(k))

-----------------------------------------------------------------------------
(* Properties                                                              *)

(* Once a kill switch is through, with Choice's book read, the orders that *)
(* still work are those it reports as failed and those that had passed the *)
(* halt check before it and reached Choice after: none that was booked     *)
(* before is forgotten and none that was called after gets through.        *)
KillSwitchCovers ==
  \A k \in Killer : kill[k].pc = "done" =>
    \A r \in Request :
      Acct(r) \in kill[k].swept /\ book[r] = "working" =>
        r \in kill[k].failed \cup kill[k].inflight

(* No account of a tenant keeps trading while others are being swept: when *)
(* the first cancellation goes out every account is halted for everything, *)
(* connected or not, and it stays so after.                                *)
WholeDeskHalted ==
  \A k \in Killer : kill[k].pc \in {"sweep", "cancel", "done"} =>
    \A a \in kill[k].targets : halt[a] = "all"

(* Choice books an order at most once, whatever is lost, late or restarted:*)
(* a POST is sent once.                                                    *)
BookedOnce == \A r \in Request : bookings[r] <= 1

(* A row never claims more than Choice confirmed, across lost answers,     *)
(* restarts, fills and racing amendments and cancellations.                *)
RowsTellTheTruth ==
  \A r \in Request :
    /\ row[r] = "ACCEPTED" => book[r] \in Booked
    /\ row[r] = "MODIFIED" => amended[r]
    /\ row[r] = "CANCELLED" => book[r] = "cancelled"
    /\ row[r] = "SIMULATED" => bookings[r] = 0

(* An order during which the session keeps its mode goes where that mode   *)
(* says and was measured against that mode's budget: whatever is halted or *)
(* tripped on the way, and also if it reaches Choice after its sender gave *)
(* up or the process ended.                                                *)
SteadyOrders ==
  \A r \in Request : req[r].steady =>
    /\ wire[r] + bookings[r] > 0 => ~req[r].asPaper /\ sim[r] = "none"
    /\ sim[r] # "none" => req[r].asPaper

(* Every order at Choice that this platform placed has a row, which a      *)
(* reconciliation can find: one that says SUBMITTED after a restart, or    *)
(* REJECTED after a timeout, but none that says simulated or nothing.      *)
EveryBookingHasARow ==
  \A r \in Request : bookings[r] > 0 => row[r] \notin {"none", "SIMULATED"}

(* An order called after a kill switch was through with its account does   *)
(* not reach Choice, whatever mode the session is switched to.             *)
KilledStaysKilled ==
  \A r \in Request : late[r] => bookings[r] = 0

(* Every call of POST /orders ends, and leaves a row that is not SUBMITTED *)
(* unless the process went down under it.                                  *)
RequestEnds ==
  \A r \in Request :
    At(r, "mode") ~> (At(r, "dead") \/ (At(r, "done") /\ row[r] # "SUBMITTED"))

(* A kill switch ends even when Choice refuses every cancellation.         *)
KillSwitchEnds ==
  \A k \in Killer : kill[k].pc = "halt" ~> kill[k].pc \in {"done", "idle"}

(* What a user has started with Choice comes to an end, in both ways.      *)
CallsEnd == RequestEnds /\ KillSwitchEnds

-----------------------------------------------------------------------------
(* What the code or its documents say and the code does not keep           *)

(* Kill switch: cancel every working order and stop accepting new ones.    *)
KillSwitchCancelsAll ==
  \A k \in Killer : kill[k].pc = "done" =>
    \A r \in Request :
      Acct(r) \in kill[k].swept /\ book[r] = "working" => r \in kill[k].failed

(* A kill switch whose sweep Choice never saw, because the session was in  *)
(* paper mode by then, left no order working that Choice had before it.    *)
KillSwitchReachesChoice ==
  \A k \in Killer : kill[k].pc = "done" =>
    \A r \in Request : Acct(r) \in kill[k].inPaper /\ book[r] = "working"
                         => r \in kill[k].inflight

(* What PAPER does not do is submit orders.                                *)
PaperSendsNothing ==
  [][\A r \in Request : wire'[r] > wire[r] => mode[Acct(r)] = "LIVE"]_vars

(* Only an order that passed the halt and the loss cap of real orders is   *)
(* sent to Choice.                                                         *)
RealOrdersSpendRealBudget ==
  \A r \in Request : wire[r] > 0 => ~req[r].asPaper

(* A row that says REJECTED is an order Choice did not take.               *)
RejectedIsNotBooked ==
  \A r \in Request : row[r] = "REJECTED" => bookings[r] = 0

(* A simulated order is filled the moment it is placed: nothing cancels it.*)
PaperFillsStand ==
  [][\A r \in Request : sim[r] = "SIMULATED" => sim'[r] # "CANCELLED"]_vars

(* With no order under way, the ledger the loss cap is measured against is *)
(* the figure of the latest funds call.                                    *)
LedgerIsCurrent ==
  \A a \in Account :
    (\A r \in Request : Acct(r) = a => req[r].pc \notin Running)
      => ledger[a] = newest[a]

(* reconcile: the rows that claim to be at Choice and the orders Choice    *)
(* has.  in_sync looks at the missing ones only.                           *)
Submitted == {r \in Request : row[r] \notin {"none", "SIMULATED", "REJECTED"}}
Missing == {r \in Submitted : row[r] = "SUBMITTED" \/ bookings[r] = 0}
InSync == Missing = {}

(* A reconciliation that reports in_sync leaves no order working at Choice *)
(* that the local book calls rejected.                                     *)
InSyncHidesNothing ==
  InSync => \A r \in Request : ~(book[r] = "working" /\ row[r] = "REJECTED")
=============================================================================
