-------------------------- MODULE OrderPath_proofs --------------------------
(***************************************************************************)
(* The safety properties of OrderPath, for any accounts, orders, kill      *)
(* switches, desks and restarts.  Sent says where an order stands between  *)
(* its thread, its row and Choice, Told what a desk thread knows, Measured *)
(* which mode an order was measured against, Covered what a kill switch    *)
(* has halted and seen, Shut what no order called after it gets past.      *)
(***************************************************************************)
EXTENDS OrderPath, TLAPS

Unsent == {"new", "mode", "validate", "dispatch", "post", "simulated"}
Placing == {"mode", "validate", "dispatch", "post", "simulated", "await"}

\* One copy of an order at most is on its way or booked, none before its
\* POST; its row is SUBMITTED until the thread has an outcome, and what the
\* row says then is so.
Sent(r) ==
  /\ wire[r] + bookings[r] <= 1
  /\ req[r].pc \in Unsent => wire[r] = 0 /\ bookings[r] = 0
  /\ book[r] = "absent" <=> bookings[r] = 0
  /\ reply[r] = "ok" => bookings[r] > 0
  /\ req[r].pc = "new" <=> row[r] = "none"
  /\ req[r].pc \in Placing => row[r] = "SUBMITTED"
  /\ row[r] = "SIMULATED" => wire[r] = 0 /\ bookings[r] = 0
  /\ row[r] = "ACCEPTED" => bookings[r] > 0
  /\ row[r] = "MODIFIED" => amended[r]
  /\ row[r] = "CANCELLED" => book[r] = "cancelled"

\* What Choice has confirmed to a desk thread is so.
Told(d) ==
  /\ desk[d].pc = "amended" => amended[desk[d].of]
  /\ desk[d].pc = "cancelled" => book[desk[d].of] = "cancelled"

PathInv == TypeOK /\ (\A r \in Request : Sent(r)) /\ (\A d \in Desk : Told(d))

\* An order whose session keeps its mode is measured and sent by that mode.
Measured(r) ==
  /\ req[r].pc \in Running => mode[Acct(r)] # "NONE"
  /\ req[r].pc \in {"new", "mode", "validate", "dispatch", "post", "await"} => sim[r] = "none"
  /\ sim[r] # "none" => wire[r] = 0 /\ bookings[r] = 0
  /\ req[r].steady =>
       /\ req[r].pc \in {"validate", "dispatch"} => (req[r].asPaper <=> mode[Acct(r)] = "PAPER")
       /\ req[r].pc \in {"post", "await"} \/ wire[r] + bookings[r] > 0 => ~req[r].asPaper
       /\ sim[r] # "none" => req[r].asPaper

ModeInv == PathInv /\ \A r \in Request : Measured(r)

\* An order that has passed the halt check and that Choice may still book.
Flying(r) ==
  book[r] = "absent" /\ (wire[r] > 0 \/ req[r].pc \in {"dispatch", "post", "await"})

\* What a kill switch has halted stays halted; what may still be booked of it
\* passed the check before, and what works after the sweep of its account
\* is known to the kill switch.
Covered(k) ==
  LET done == kill[k].targets \ kill[k].toHalt IN
  /\ kill[k].pc \in {"sweep", "cancel", "done"} => kill[k].toHalt = {}
  /\ kill[k].pc # "cancel" => kill[k].todo = {}
  /\ kill[k].swept \subseteq done /\ kill[k].toSweep \subseteq kill[k].targets
  /\ kill[k].pc = "halt" => kill[k].swept = {}
  /\ \A a \in done : halt[a] = "all"
  /\ \A r \in Request :
       /\ Acct(r) \in done /\ Flying(r) => r \in kill[k].inflight
       /\ Acct(r) \in kill[k].swept /\ book[r] = "working" =>
            r \in kill[k].failed \cup kill[k].inflight \cup kill[k].todo

KillInv == PathInv /\ \A k \in Killer : Covered(k)

\* Until the process is restarted, a halted account stays halted, and what it
\* calls after ends before it is sent.
Shut ==
  restarts = 0 =>
    /\ \A a \in pressed : halt[a] = "all"
    /\ \A r \in Request : late[r] =>
         /\ Acct(r) \in pressed
         /\ req[r].pc \in {"mode", "validate", "done"}
         /\ wire[r] = 0 /\ bookings[r] = 0

LateInv == PathInv /\ Shut

-----------------------------------------------------------------------------
(* The records of the threads.                                             *)
Calls == [pc : Running \cup {"new", "done", "dead"}, asPaper : BOOLEAN, fetched : BOOLEAN,
          steady : BOOLEAN]
Kills == [pc : {"idle", "halt", "sweep", "cancel", "done"}, targets : SUBSET Account,
          toHalt : SUBSET Account, toSweep : SUBSET Account, todo : SUBSET Request,
          swept : SUBSET Account, inPaper : SUBSET Account, failed : SUBSET Request,
          inflight : SUBSET Request]
Desks == [pc : {"idle", "amend", "cancel", "amended", "cancelled"}, of : Request]

LEMMA CallTypes == TypeOK => req \in [Request -> Calls] /\ desk \in [Desk -> Desks]
  BY DEF TypeOK, Calls, Desks

LEMMA KillTypes == TypeOK => kill \in [Killer -> Kills]
  BY DEF TypeOK, Kills

(* What Goto does: one thread moves, nothing else of it changes.           *)
LEMMA GotoIs ==
  ASSUME TypeOK, NEW r \in Request, NEW label \in Running \cup {"done", "dead"}, Goto(r, label)
  PROVE  /\ req' \in [Request -> Calls]
         /\ req'[r].pc = label /\ req'[r].asPaper = req[r].asPaper
         /\ req'[r].fetched = req[r].fetched /\ req'[r].steady = req[r].steady
         /\ \A q \in Request \ {r} : req'[q] = req[q]
<1>1. req[r] \in Calls
  BY CallTypes
<1>2. [req[r] EXCEPT !.pc = label] \in Calls
  BY <1>1 DEF Calls
<1>3. req' = [req EXCEPT ![r] = [req[r] EXCEPT !.pc = label]]
  BY DEF Goto
<1>4. req'[r] = [req[r] EXCEPT !.pc = label] /\ \A q \in Request \ {r} : req'[q] = req[q]
  BY <1>3, CallTypes
<1> QED
  BY <1>1, <1>2, <1>3, <1>4, CallTypes DEF Calls

(* What ReadMode and ReadFigure read into their thread.                    *)
LEMMA ReadModeIs ==
  ASSUME TypeOK, NEW r \in Request, ReadMode(r)
  PROVE  /\ req' \in [Request -> Calls]
         /\ req'[r].pc = "validate" /\ req'[r].asPaper = (mode[Acct(r)] = "PAPER")
         /\ req'[r].steady = req[r].steady
         /\ \A q \in Request \ {r} : req'[q] = req[q]
<1>1. req[r] \in Calls
  BY CallTypes
<1>2. PICK c : c = [req[r] EXCEPT !.pc = "validate", !.asPaper = (mode[Acct(r)] = "PAPER")]
  OBVIOUS
<1>3. c \in Calls /\ c.pc = "validate" /\ c.asPaper = (mode[Acct(r)] = "PAPER") /\ c.steady = req[r].steady
  BY <1>1, <1>2 DEF Calls, Running
<1>4. req' = [req EXCEPT ![r] = c]
  BY <1>2, CallTypes DEF ReadMode
<1> QED
  BY <1>3, <1>4, CallTypes

LEMMA ReadFigureIs ==
  ASSUME TypeOK, NEW r \in Request, ReadFigure(r)
  PROVE  /\ req' \in [Request -> Calls]
         /\ req'[r].pc \in {"setPnl", "done"}
         /\ req'[r].pc = "setPnl" => mode[Acct(r)] # "NONE"
         /\ req'[r].asPaper = req[r].asPaper /\ req'[r].steady = req[r].steady
         /\ \A q \in Request \ {r} : req'[q] = req[q]
<1>0. req[r] \in Calls /\ figure[Acct(r)] \in BOOLEAN
  BY CallTypes, OrderPathAssumption DEF Acct, TypeOK
<1>1. CASE mode[Acct(r)] = "LIVE" /\ req' = [req EXCEPT ![r].pc = "setPnl", ![r].fetched = figure[Acct(r)]]
  <2>1. PICK c : c = [req[r] EXCEPT !.pc = "setPnl", !.fetched = figure[Acct(r)]]
    OBVIOUS
  <2>2. c \in Calls /\ c.pc = "setPnl" /\ c.asPaper = req[r].asPaper /\ c.steady = req[r].steady
    BY <1>0, <2>1 DEF Calls, Running
  <2>3. req' = [req EXCEPT ![r] = c]
    BY <1>1, <2>1, CallTypes
  <2> QED
    BY <1>1, <2>2, <2>3, CallTypes
<1>2. CASE Goto(r, "done")
  BY <1>2, GotoIs
<1> QED
  BY <1>1, <1>2 DEF ReadFigure

(* What a switch of mode and a restart do to the threads.                  *)
LEMMA SetModeIs ==
  ASSUME TypeOK, NEW a \in Account, NEW m \in {"PAPER", "LIVE"}, SetMode(a, m)
  PROVE  /\ req' \in [Request -> Calls]
         /\ \A r \in Request : /\ req'[r].pc = req[r].pc /\ req'[r].asPaper = req[r].asPaper
                               /\ req'[r].steady => req[r].steady
                               /\ Acct(r) = a /\ req[r].pc \in Running => ~req'[r].steady
<1>1. ASSUME NEW r \in Request
      PROVE  /\ req[r] \in Calls /\ [req[r] EXCEPT !.steady = FALSE] \in Calls
             /\ [req[r] EXCEPT !.steady = FALSE].pc = req[r].pc
             /\ [req[r] EXCEPT !.steady = FALSE].asPaper = req[r].asPaper
             /\ ~[req[r] EXCEPT !.steady = FALSE].steady
  <2>1. req[r] \in Calls
    BY CallTypes
  <2> QED
    BY <2>1 DEF Calls
<1>2. \A r \in Request : req'[r] = IF Acct(r) = a /\ req[r].pc \in Running
                                  THEN [req[r] EXCEPT !.steady = FALSE] ELSE req[r]
  BY DEF SetMode
<1>3. req' \in [Request -> Calls]
  BY <1>1 DEF SetMode
<1> QED
  BY <1>1, <1>2, <1>3

LEMMA RestartIs ==
  ASSUME TypeOK, Restart
  PROVE  /\ req' \in [Request -> Calls]
         /\ \A r \in Request : /\ req'[r].pc = IF req[r].pc \in Running THEN "dead" ELSE req[r].pc
                               /\ req'[r].asPaper = req[r].asPaper /\ req'[r].steady = req[r].steady
<1>1. ASSUME NEW r \in Request
      PROVE  /\ req[r] \in Calls /\ [req[r] EXCEPT !.pc = "dead"] \in Calls
             /\ [req[r] EXCEPT !.pc = "dead"].pc = "dead"
             /\ [req[r] EXCEPT !.pc = "dead"].asPaper = req[r].asPaper
             /\ [req[r] EXCEPT !.pc = "dead"].steady = req[r].steady
  <2>1. req[r] \in Calls
    BY CallTypes
  <2> QED
    BY <2>1 DEF Calls
<1>2. \A r \in Request : req'[r] = IF req[r].pc \in Running THEN [req[r] EXCEPT !.pc = "dead"] ELSE req[r]
  BY DEF Restart
<1>3. req' \in [Request -> Calls]
  BY <1>1 DEF Restart
<1> QED
  BY <1>1, <1>2, <1>3

(* What the kill switch writes, one record at a time.                      *)
LEMMA KillTo ==
  ASSUME TypeOK, NEW k \in Killer, NEW c \in Kills, kill' = [kill EXCEPT ![k] = c]
  PROVE  kill' \in [Killer -> Kills] /\ kill'[k] = c /\ \A j \in Killer \ {k} : kill'[j] = kill[j]
  BY KillTypes

LEMMA PressIs ==
  ASSUME TypeOK, NEW k \in Killer, NEW T \in SUBSET Account, Press(k, T)
  PROVE  /\ kill' \in [Killer -> Kills] /\ \A j \in Killer \ {k} : kill'[j] = kill[j]
         /\ kill'[k].pc = "halt" /\ kill'[k].targets = T /\ kill'[k].toHalt = T
         /\ kill'[k].toSweep = T /\ kill'[k].todo = {} /\ kill'[k].swept = {}
<1>1. PICK c : c = [NoKill EXCEPT !.pc = "halt", !.targets = T, !.toHalt = T, !.toSweep = T]
  OBVIOUS
<1>2. /\ c \in Kills /\ c.pc = "halt" /\ c.targets = T /\ c.toHalt = T
      /\ c.toSweep = T /\ c.todo = {} /\ c.swept = {}
  BY <1>1 DEF Kills, NoKill
<1>3. kill' = [kill EXCEPT ![k] = c]
  BY <1>1 DEF Press
<1> QED
  BY <1>2, <1>3, KillTo

LEMMA HaltIs ==
  ASSUME TypeOK, NEW k \in Killer, NEW a \in Account, Halt(k, a)
  PROVE  /\ kill' \in [Killer -> Kills] /\ \A j \in Killer \ {k} : kill'[j] = kill[j]
         /\ kill'[k].toHalt = kill[k].toHalt \ {a}
         /\ kill'[k].inflight = kill[k].inflight \cup InFlight(a)
         /\ kill'[k].pc = IF kill[k].toHalt = {a} THEN "sweep" ELSE "halt"
         /\ kill'[k].targets = kill[k].targets /\ kill'[k].toSweep = kill[k].toSweep
         /\ kill'[k].todo = kill[k].todo /\ kill'[k].swept = kill[k].swept
         /\ kill'[k].failed = kill[k].failed
<1>1. kill[k] \in Kills /\ kill[k].pc = "halt" /\ InFlight(a) \subseteq Request
  BY KillTypes DEF Halt, InFlight
<1>2. PICK c : c = [kill[k] EXCEPT !.toHalt = @ \ {a}, !.inflight = @ \cup InFlight(a),
                                  !.pc = IF kill[k].toHalt = {a} THEN "sweep" ELSE @]
  OBVIOUS
<1>3. /\ c \in Kills /\ c.toHalt = kill[k].toHalt \ {a}
      /\ c.inflight = kill[k].inflight \cup InFlight(a)
      /\ c.pc = IF kill[k].toHalt = {a} THEN "sweep" ELSE "halt"
      /\ c.targets = kill[k].targets /\ c.toSweep = kill[k].toSweep
      /\ c.todo = kill[k].todo /\ c.swept = kill[k].swept /\ c.failed = kill[k].failed
  BY <1>1, <1>2 DEF Kills
<1>4. kill' = [kill EXCEPT ![k] = c]
  BY <1>2, KillTypes DEF Halt
<1> QED
  BY <1>3, <1>4, KillTo

(* Going over to the next account, with or without a look at its book.     *)
LEMMA SweptIs ==
  ASSUME TypeOK, NEW k \in Killer, NEW a \in Account, SkipAccount(k, a) \/ SweepPaper(k, a)
  PROVE  /\ kill' \in [Killer -> Kills] /\ \A j \in Killer \ {k} : kill'[j] = kill[j]
         /\ kill'[k].pc \in {"sweep", "done"} /\ kill'[k].toSweep = kill[k].toSweep \ {a}
         /\ kill'[k].targets = kill[k].targets /\ kill'[k].toHalt = kill[k].toHalt
         /\ kill'[k].todo = kill[k].todo /\ kill'[k].swept = kill[k].swept
         /\ kill'[k].failed = kill[k].failed /\ kill'[k].inflight = kill[k].inflight
<1>1. kill[k] \in Kills
  BY KillTypes
<1>2. PICK c : c = Swept(k, a)
  OBVIOUS
<1>3. /\ c \in Kills /\ c.pc \in {"sweep", "done"} /\ c.toSweep = kill[k].toSweep \ {a}
      /\ c.targets = kill[k].targets /\ c.toHalt = kill[k].toHalt
      /\ c.todo = kill[k].todo /\ c.swept = kill[k].swept
      /\ c.failed = kill[k].failed /\ c.inflight = kill[k].inflight
  BY <1>1, <1>2 DEF Kills, Swept
<1>4. PICK e : e = [c EXCEPT !.inPaper = @ \cup {a}]
  OBVIOUS
<1>5. /\ e \in Kills /\ e.pc = c.pc /\ e.toSweep = c.toSweep
      /\ e.targets = c.targets /\ e.toHalt = c.toHalt /\ e.todo = c.todo
      /\ e.swept = c.swept /\ e.failed = c.failed /\ e.inflight = c.inflight
  BY <1>3, <1>4 DEF Kills
<1>6. kill' = [kill EXCEPT ![k] = c] \/ kill' = [kill EXCEPT ![k] = e]
  BY <1>2, <1>4 DEF SkipAccount, SweepPaper
<1>7. CASE kill' = [kill EXCEPT ![k] = c]
  BY <1>3, <1>7, KillTo
<1>8. CASE kill' = [kill EXCEPT ![k] = e]
  BY <1>3, <1>5, <1>8, KillTo
<1> QED
  BY <1>6, <1>7, <1>8

LEMMA ReadBookIs ==
  ASSUME TypeOK, NEW k \in Killer, NEW a \in Account, ReadBook(k, a)
  PROVE  /\ kill' \in [Killer -> Kills] /\ \A j \in Killer \ {k} : kill'[j] = kill[j]
         /\ kill'[k].pc = "cancel" /\ kill'[k].toSweep = kill[k].toSweep \ {a}
         /\ kill'[k].swept = kill[k].swept \cup {a}
         /\ kill'[k].todo = {r \in Request : Acct(r) = a /\ IsOpen(r)}
         /\ kill'[k].targets = kill[k].targets /\ kill'[k].toHalt = kill[k].toHalt
         /\ kill'[k].failed = kill[k].failed /\ kill'[k].inflight = kill[k].inflight
<1>1. kill[k] \in Kills
  BY KillTypes
<1>2. PICK c : c = [kill[k] EXCEPT !.pc = "cancel", !.toSweep = @ \ {a}, !.swept = @ \cup {a},
                                  !.todo = {r \in Request : Acct(r) = a /\ IsOpen(r)}]
  OBVIOUS
<1>3. /\ c \in Kills /\ c.pc = "cancel" /\ c.toSweep = kill[k].toSweep \ {a}
      /\ c.swept = kill[k].swept \cup {a}
      /\ c.todo = {r \in Request : Acct(r) = a /\ IsOpen(r)}
      /\ c.targets = kill[k].targets /\ c.toHalt = kill[k].toHalt
      /\ c.failed = kill[k].failed /\ c.inflight = kill[k].inflight
  BY <1>1, <1>2 DEF Kills
<1>4. kill' = [kill EXCEPT ![k] = c]
  BY <1>2, KillTypes DEF ReadBook
<1> QED
  BY <1>3, <1>4, KillTo

LEMMA CancelNextIs ==
  ASSUME TypeOK, NEW k \in Killer, NEW r \in Request, CancelNext(k, r)
  PROVE  /\ kill' \in [Killer -> Kills] /\ \A j \in Killer \ {k} : kill'[j] = kill[j]
         /\ kill'[k].todo = kill[k].todo \ {r}
         /\ kill'[k].failed \in {kill[k].failed, kill[k].failed \cup {r}}
         /\ kill'[k].failed = kill[k].failed => book' = [book EXCEPT ![r] = "cancelled"] \/ r \in kill[k].failed
         /\ book' = book \/ (book[r] = "working" /\ book' = [book EXCEPT ![r] = "cancelled"])
         /\ kill'[k].pc = kill[k].pc /\ kill'[k].toSweep = kill[k].toSweep
         /\ kill'[k].targets = kill[k].targets /\ kill'[k].toHalt = kill[k].toHalt
         /\ kill'[k].swept = kill[k].swept /\ kill'[k].inflight = kill[k].inflight
<1>1. kill[k] \in Kills
  BY KillTypes
<1>2. PICK c : c = [kill[k] EXCEPT !.todo = @ \ {r}]
  OBVIOUS
<1>3. PICK e : e = [kill[k] EXCEPT !.todo = @ \ {r}, !.failed = @ \cup {r}]
  OBVIOUS
<1>4. /\ c \in Kills /\ c.todo = kill[k].todo \ {r} /\ c.failed = kill[k].failed
      /\ c.pc = kill[k].pc /\ c.toSweep = kill[k].toSweep /\ c.targets = kill[k].targets
      /\ c.toHalt = kill[k].toHalt /\ c.swept = kill[k].swept /\ c.inflight = kill[k].inflight
  BY <1>1, <1>2 DEF Kills
<1>5. /\ e \in Kills /\ e.todo = kill[k].todo \ {r} /\ e.failed = kill[k].failed \cup {r}
      /\ e.pc = kill[k].pc /\ e.toSweep = kill[k].toSweep /\ e.targets = kill[k].targets
      /\ e.toHalt = kill[k].toHalt /\ e.swept = kill[k].swept /\ e.inflight = kill[k].inflight
  BY <1>1, <1>3 DEF Kills
<1>6. \/ /\ book[r] = "working" /\ book' = [book EXCEPT ![r] = "cancelled"]
         /\ kill' = [kill EXCEPT ![k] = c] \/ kill' = [kill EXCEPT ![k] = e]
      \/ kill' = [kill EXCEPT ![k] = e] /\ book' = book
  BY <1>2, <1>3, KillTypes DEF CancelNext, IsOpen, CancelAtChoice
<1>7. CASE book[r] = "working" /\ book' = [book EXCEPT ![r] = "cancelled"] /\ kill' = [kill EXCEPT ![k] = c]
  BY <1>4, <1>7, KillTo
<1>8. CASE kill' = [kill EXCEPT ![k] = e]
  BY <1>5, <1>6, <1>8, KillTo
<1> QED
  BY <1>6, <1>7, <1>8

LEMMA NextAccountIs ==
  ASSUME TypeOK, NEW k \in Killer, NextAccount(k)
  PROVE  /\ kill' \in [Killer -> Kills] /\ \A j \in Killer \ {k} : kill'[j] = kill[j]
         /\ kill'[k].pc \in {"sweep", "done"} /\ kill'[k].todo = {}
         /\ kill'[k].toSweep = kill[k].toSweep /\ kill'[k].targets = kill[k].targets
         /\ kill'[k].toHalt = kill[k].toHalt /\ kill'[k].swept = kill[k].swept
         /\ kill'[k].failed = kill[k].failed /\ kill'[k].inflight = kill[k].inflight
<1>1. kill[k] \in Kills
  BY KillTypes
<1>2. PICK c : c = [kill[k] EXCEPT !.pc = IF kill[k].toSweep = {} THEN "done" ELSE "sweep"]
  OBVIOUS
<1>3. /\ c \in Kills /\ c.pc \in {"sweep", "done"} /\ c.todo = kill[k].todo
      /\ c.toSweep = kill[k].toSweep /\ c.targets = kill[k].targets
      /\ c.toHalt = kill[k].toHalt /\ c.swept = kill[k].swept
      /\ c.failed = kill[k].failed /\ c.inflight = kill[k].inflight
  BY <1>1, <1>2 DEF Kills
<1>4. kill' = [kill EXCEPT ![k] = c] /\ kill[k].todo = {}
  BY <1>2 DEF NextAccount
<1> QED
  BY <1>3, <1>4, KillTo

(* What a desk thread writes.                                              *)
LEMMA SetIs ==
  ASSUME TypeOK, NEW d \in Desk, NEW r \in Request,
         NEW label \in {"idle", "amend", "cancel", "amended", "cancelled"}, Set(d, label, r)
  PROVE  /\ desk' \in [Desk -> Desks]
         /\ desk'[d].pc = label /\ desk'[d].of = r
         /\ \A e \in Desk \ {d} : desk'[e] = desk[e]
<1>1. PICK c : c = [pc |-> label, of |-> r]
  OBVIOUS
<1>2. c \in Desks /\ c.pc = label /\ c.of = r
  BY <1>1 DEF Desks
<1>3. desk' = [desk EXCEPT ![d] = c]
  BY <1>1 DEF Set
<1> QED
  BY <1>2, <1>3, CallTypes

-----------------------------------------------------------------------------
(* Types                                                                   *)

\* Everything but the threads.
Plain ==
  /\ mode \in [Account -> {"NONE", "PAPER", "LIVE"}]
  /\ halt \in [Account -> {"no", "all", "real"}]
  /\ ledger \in [Account -> BOOLEAN] /\ figure \in [Account -> BOOLEAN]
  /\ row \in [Request -> Recorded \cup {"none", "SUBMITTED", "REJECTED"}]
  /\ sim \in [Request -> {"none", "SIMULATED", "CANCELLED"}]
  /\ wire \in [Request -> Nat] /\ bookings \in [Request -> Nat]
  /\ reply \in [Request -> {"none", "ok", "fail"}]
  /\ book \in [Request -> Booked \cup {"absent"}]
  /\ amended \in [Request -> BOOLEAN]
  /\ restarts \in 0 .. MaxRestart
  /\ newest \in [Account -> BOOLEAN] /\ pressed \subseteq Account
  /\ late \in [Request -> BOOLEAN]

LEMMA TypesAre ==
  TypeOK <=> /\ Plain /\ req \in [Request -> Calls]
             /\ kill \in [Killer -> Kills] /\ desk \in [Desk -> Desks]
  BY DEF TypeOK, Plain, Calls, Kills, Desks

LEMMA AcctType == \A r \in Request : Acct(r) \in Account
  BY OrderPathAssumption DEF Acct

LEMMA TypesNext ==
  Plain' /\ req' \in [Request -> Calls] /\ kill' \in [Killer -> Kills] /\ desk' \in [Desk -> Desks]
    => TypeOK'
  BY DEF TypeOK, Plain, Calls, Kills, Desks

LEMMA InitTypes == Init => TypeOK
<1> SUFFICES ASSUME Init PROVE TypeOK
  OBVIOUS
<1>1. Plain
  BY OrderPathAssumption DEF Init, Plain
<1>2. req \in [Request -> Calls]
  BY DEF Init, Calls
<1>3. kill \in [Killer -> Kills]
  BY DEF Init, Kills, NoKill
<1>4. desk \in [Desk -> Desks]
  BY DEF Init, Desks, NoDesk
<1> QED
  BY <1>1, <1>2, <1>3, <1>4, TypesAre

(* A step of an order's thread.                                            *)
LEMMA PlaceTypes ==
  ASSUME TypeOK, NEW r \in Request, PlaceStep(r)
  PROVE  TypeOK'
<1> USE AcctType DEF process, records, choice, history, Recorded
<1>0. Plain /\ req \in [Request -> Calls] /\ kill \in [Killer -> Kills] /\ desk \in [Desk -> Desks]
  BY TypesAre
<1>1. kill' = kill /\ desk' = desk
  BY DEF PlaceStep, Submit, ReadMode, Validate, Refuse, Dispatch, RecordSimulated, Post, Answer,
         Timeout, ReadFigure, SetRealizedPnl
<1>2. req' \in [Request -> Calls]
  BY GotoIs, ReadModeIs, ReadFigureIs DEF PlaceStep, Submit, Validate, Refuse, Dispatch,
     RecordSimulated, Post, Answer, Timeout, SetRealizedPnl, RecordRejected, Running
<1>3. Plain'
  <2>1. CASE Submit(r)
    BY <1>0, <2>1 DEF Submit, Plain
  <2>2. CASE ReadMode(r)
    BY <1>0, <2>2 DEF ReadMode, Plain
  <2>3. CASE Validate(r)
    BY <1>0, <2>3 DEF Validate, RecordRejected, TripBreaker, Plain
  <2>4. CASE Refuse(r)
    BY <1>0, <2>4 DEF Refuse, RecordRejected, Plain
  <2>5. CASE Dispatch(r)
    BY <1>0, <2>5 DEF Dispatch, Plain
  <2>6. CASE RecordSimulated(r)
    BY <1>0, <2>6 DEF RecordSimulated, Plain
  <2>7. CASE Post(r)
    BY <1>0, <2>7 DEF Post, Plain
  <2>8. CASE Answer(r) \/ Timeout(r)
    BY <1>0, <2>8 DEF Answer, Timeout, RecordRejected, Plain
  <2>9. CASE ReadFigure(r)
    BY <1>0, <2>9 DEF ReadFigure, Plain
  <2>10. CASE SetRealizedPnl(r)
    <3>1. req[r].fetched \in BOOLEAN
      BY <1>0 DEF Calls
    <3> QED
      BY <1>0, <2>10, <3>1 DEF SetRealizedPnl, Plain
  <2> QED
    BY <2>1, <2>2, <2>3, <2>4, <2>5, <2>6, <2>7, <2>8, <2>9, <2>10 DEF PlaceStep
<1> QED
  BY <1>0, <1>1, <1>2, <1>3, TypesNext

(* A step of a kill switch.                                                *)
LEMMA KillStepTypes ==
  ASSUME TypeOK, NEW k \in Killer, KillStep(k) \/ \E T \in SUBSET Account : Press(k, T)
  PROVE  TypeOK'
<1> USE DEF process, records, choice, history
<1>0. Plain /\ req \in [Request -> Calls] /\ kill \in [Killer -> Kills] /\ desk \in [Desk -> Desks]
  BY TypesAre
<1>1. req' = req /\ desk' = desk
  BY DEF KillStep, Press, Halt, SkipAccount, SweepPaper, ReadBook, CancelNext, NextAccount
<1>2. kill' \in [Killer -> Kills]
  BY PressIs, HaltIs, SweptIs, ReadBookIs, CancelNextIs, NextAccountIs DEF KillStep
<1>3. Plain'
  <2>1. CASE \E T \in SUBSET Account : Press(k, T)
    <3>1. UNCHANGED <<process, records, choice, restarts, history>>
      BY <2>1 DEF Press
    <3> QED
      BY <1>0, <3>1 DEF choice, Plain
  <2>2. CASE \E a \in Account : Halt(k, a)
    BY <1>0, <2>2 DEF Halt, Plain
  <2>3. CASE \E a \in Account : SkipAccount(k, a) \/ ReadBook(k, a)
    BY <1>0, <2>3 DEF SkipAccount, ReadBook, Plain
  <2>4. CASE \E a \in Account : SweepPaper(k, a)
    BY <1>0, <2>4 DEF SweepPaper, Plain
  <2>5. CASE \E r \in Request : CancelNext(k, r)
    BY <1>0, <2>5, CancelNextIs DEF CancelNext, CancelAtChoice, Plain, Booked
  <2>6. CASE NextAccount(k)
    BY <1>0, <2>6 DEF NextAccount, Plain
  <2> QED
    BY <2>1, <2>2, <2>3, <2>4, <2>5, <2>6 DEF KillStep
<1> QED
  BY <1>0, <1>1, <1>2, <1>3, TypesNext

(* A step of a desk thread.                                                *)
LEMMA DeskTypes ==
  ASSUME TypeOK, NEW d \in Desk, DeskStep(d)
  PROVE  TypeOK'
<1> USE AcctType DEF process, records, choice, history, Recorded
<1>0. Plain /\ req \in [Request -> Calls] /\ kill \in [Killer -> Kills] /\ desk \in [Desk -> Desks]
  BY TypesAre
<1>1. req' = req /\ kill' = kill /\ desk[d].of \in Request
  BY <1>0 DEF DeskStep, CheckAmend, SendAmend, FindOpen, SendCancel, RecordDesk, Desks
<1>2. desk' \in [Desk -> Desks]
  BY <1>0, <1>1, SetIs DEF DeskStep, CheckAmend, SendAmend, FindOpen, SendCancel, RecordDesk
<1>3. Plain'
  <2>1. CASE \E r \in Request : CheckAmend(d, r)
    <3>1. PICK r \in Request : CheckAmend(d, r)
      BY <2>1
    <3>2. halt' = halt \/ halt' = [halt EXCEPT ![Acct(r)] = "real"]
      BY <3>1 DEF CheckAmend, TripBreaker
    <3>3. halt' \in [Account -> {"no", "all", "real"}]
      BY <1>0, <3>2 DEF Plain
    <3>4. UNCHANGED <<mode, ledger, records, choice, restarts, history>>
      BY <3>1 DEF CheckAmend
    <3> QED
      BY <1>0, <3>3, <3>4 DEF choice, Plain
  <2>5. CASE \E r \in Request : FindOpen(d, r)
    BY <1>0, <2>5 DEF FindOpen, Plain
  <2>2. CASE SendAmend(d)
    BY ZenonT(30), <1>0, <1>1, <2>2 DEF SendAmend, Plain
  <2>3. CASE SendCancel(d)
    BY <1>0, <1>1, <2>3 DEF SendCancel, CancelAtChoice, Plain, Booked
  <2>4. CASE RecordDesk(d)
    BY <1>0, <1>1, <2>4 DEF RecordDesk, Plain
  <2> QED
    BY <2>1, <2>2, <2>3, <2>4, <2>5 DEF DeskStep
<1> QED
  BY <1>0, <1>1, <1>2, <1>3, TypesNext

(* A step of Choice, of the session, or a restart.                         *)
LEMMA OtherTypes ==
  ASSUME TypeOK,
         \/ \E a \in Account, m \in {"PAPER", "LIVE"} : Connect(a, m) \/ SetMode(a, m)
         \/ \E r \in Request : Book(r) \/ \E loss \in BOOLEAN : Fill(r, loss)
         \/ Restart
  PROVE  TypeOK'
<1> USE AcctType DEF process, records, choice, history
<1>0. Plain /\ req \in [Request -> Calls] /\ kill \in [Killer -> Kills] /\ desk \in [Desk -> Desks]
  BY TypesAre
<1>1. CASE \E a \in Account, m \in {"PAPER", "LIVE"} : Connect(a, m)
  <2>1. Plain'
    BY <1>0, <1>1 DEF Connect, Plain
  <2> QED
    BY <1>0, <1>1, <2>1, TypesNext DEF Connect
<1>2. CASE \E a \in Account, m \in {"PAPER", "LIVE"} : SetMode(a, m)
  <2>1. Plain'
    BY <1>0, <1>2 DEF SetMode, Plain
  <2> QED
    BY ZenonT(30), <1>0, <1>2, <2>1, TypesNext, SetModeIs DEF SetMode
<1>3. CASE \E r \in Request : Book(r)
  <2>1. Plain'
    BY <1>0, <1>3 DEF Book, Reply, Plain, Booked
  <2> QED
    BY <1>0, <1>3, <2>1, TypesNext DEF Book
<1>4. CASE \E r \in Request, loss \in BOOLEAN : Fill(r, loss)
  <2>1. Plain'
    BY <1>0, <1>4 DEF Fill, Plain, Booked
  <2> QED
    BY <1>0, <1>4, <2>1, TypesNext DEF Fill
<1>5. CASE Restart
  <2>1. Plain'
    BY <1>0, <1>5, OrderPathAssumption DEF Restart, Plain
  <2>2. kill' \in [Killer -> Kills]
    BY <1>5 DEF Restart, Kills, NoKill
  <2>3. desk' \in [Desk -> Desks]
    BY <1>0, <1>5 DEF Restart, Desks, NoDesk
  <2> QED
    BY <1>5, <2>1, <2>2, <2>3, TypesNext, RestartIs
<1> QED
  BY <1>1, <1>2, <1>3, <1>4, <1>5

LEMMA StepTypes == TypeOK /\ [Next]_vars => TypeOK'
<1> SUFFICES ASSUME TypeOK, [Next]_vars PROVE TypeOK'
  OBVIOUS
<1>1. CASE UNCHANGED vars
  BY <1>1 DEF TypeOK, vars
<1>2. CASE Next
  BY <1>2, PlaceTypes, KillStepTypes, DeskTypes, OtherTypes DEF Next
<1> QED
  BY <1>1, <1>2

-----------------------------------------------------------------------------
(* One copy, one row: PathInv                                              *)

(* What a step may do beside an order without disturbing where it stands.  *)
LEMMA SentFrame ==
  ASSUME NEW q \in Request, Sent(q), req'[q].pc = req[q].pc,
         wire'[q] = wire[q], bookings'[q] = bookings[q], row'[q] = row[q],
         reply'[q] \in {reply[q], "none"},
         book'[q] = book[q] \/ (book[q] = "working" /\ book'[q] \in {"filled", "cancelled"}),
         amended[q] => amended'[q]
  PROVE  Sent(q)'
  BY DEF Sent

LEMMA ToldFrame ==
  ASSUME NEW d \in Desk, Told(d), desk'[d] = desk[d], desk[d] \in Desks,
         \A q \in Request : book'[q] = book[q] \/ book[q] # "cancelled",
         \A q \in Request : amended[q] => amended'[q]
  PROVE  Told(d)'
<1>1. desk[d].of \in Request
  BY DEF Desks
<1> QED
  BY <1>1 DEF Told

LEMMA PlacePath ==
  ASSUME PathInv, NEW r \in Request, PlaceStep(r)
  PROVE  (\A q \in Request : Sent(q)') /\ (\A d \in Desk : Told(d)')
<1> USE DEF process, records, choice, history
<1>0. /\ TypeOK /\ Plain /\ req[r] \in Calls /\ Sent(r)
      /\ desk \in [Desk -> Desks] /\ \A q \in Request : Sent(q)
  BY TypesAre DEF PathInv
<1>1. UNCHANGED <<book, bookings, amended, desk>>
  BY DEF PlaceStep, Submit, ReadMode, Validate, Refuse, Dispatch, RecordSimulated, Post, Answer,
         Timeout, ReadFigure, SetRealizedPnl
<1>2. \A d \in Desk : Told(d)'
  BY <1>0, <1>1, ToldFrame DEF PathInv
<1>3. ASSUME NEW q \in Request \ {r} PROVE Sent(q)'
  <2>1. req'[q] = req[q]
    BY <1>0, GotoIs, ReadModeIs, ReadFigureIs DEF PlaceStep, Submit, Validate, Refuse, Dispatch,
       RecordSimulated, Post, Answer, Timeout, SetRealizedPnl, RecordRejected, Running
  <2>2. row'[q] = row[q]
    BY <1>0 DEF PlaceStep, Submit, ReadMode, Validate, Refuse, Dispatch, RecordSimulated, Post,
       Answer, Timeout, ReadFigure, SetRealizedPnl, RecordRejected, Plain
  <2>3. wire'[q] = wire[q] /\ reply'[q] = reply[q]
    BY <1>0 DEF PlaceStep, Submit, ReadMode, Validate, Refuse, Dispatch, RecordSimulated, Post,
       Answer, Timeout, ReadFigure, SetRealizedPnl, Plain
  <2> QED
    BY <1>0, <1>1, <2>1, <2>2, <2>3, SentFrame
<1>4. Sent(r)'
  <2>1. CASE Submit(r)
    <3>1. At(r, "new") /\ req'[r].pc = "mode" /\ row'[r] = "SUBMITTED"
      BY <1>0, <2>1, GotoIs DEF Submit, Running, Plain
    <3>2. UNCHANGED <<wire, reply>>
      BY <2>1 DEF Submit
    <3> QED
      BY <1>0, <1>1, <3>1, <3>2 DEF Sent, At, Unsent, Placing
  <2>2. CASE ReadMode(r)
    <3>1. At(r, "mode") /\ req'[r].pc = "validate" /\ UNCHANGED <<row, wire, reply>>
      BY <1>0, <2>2, ReadModeIs DEF ReadMode
    <3> QED
      BY <1>0, <1>1, <3>1 DEF Sent, At, Unsent, Placing
  <2>3. CASE Validate(r) \/ Refuse(r)
    <3>1. req[r].pc \in {"validate", "dispatch"} /\ UNCHANGED <<wire, reply>>
      BY <2>3 DEF Validate, Refuse, At
    <3>2. CASE RecordRejected(r)
      <4>1. req'[r].pc = "done" /\ row'[r] = "REJECTED"
        BY <1>0, <3>2, GotoIs DEF RecordRejected, Plain
      <4> QED
        BY <1>0, <1>1, <3>1, <4>1 DEF Sent, Unsent, Placing
    <3>3. CASE Goto(r, "dispatch") /\ UNCHANGED row
      <4>1. req'[r].pc = "dispatch"
        BY <1>0, <3>3, GotoIs DEF Running
      <4> QED
        BY <1>0, <1>1, <3>1, <3>3, <4>1 DEF Sent, Unsent, Placing
    <3> QED
      BY <2>3, <3>2, <3>3 DEF Validate, Refuse
  <2>4. CASE Dispatch(r)
    <3>1. At(r, "dispatch") /\ req'[r].pc \in {"simulated", "post"} /\ UNCHANGED <<row, wire, reply>>
      BY <1>0, <2>4, GotoIs DEF Dispatch, Running
    <3> QED
      BY <1>0, <1>1, <3>1 DEF Sent, At, Unsent, Placing
  <2>5. CASE RecordSimulated(r)
    <3>1. At(r, "simulated") /\ req'[r].pc = "refresh" /\ row'[r] = "SIMULATED" /\ UNCHANGED <<wire, reply>>
      BY <1>0, <2>5, GotoIs DEF RecordSimulated, Running, Plain
    <3> QED
      BY <1>0, <1>1, <3>1 DEF Sent, At, Unsent, Placing
  <2>6. CASE Post(r)
    <3>1. At(r, "post") /\ req'[r].pc = "await" /\ wire'[r] = wire[r] + 1 /\ UNCHANGED <<row, reply>>
      BY <1>0, <2>6, GotoIs DEF Post, Running, Plain
    <3> QED
      BY <1>0, <1>1, <3>1 DEF Sent, At, Unsent, Placing
  <2>7. CASE Answer(r) \/ Timeout(r)
    <3>1. At(r, "await") /\ reply'[r] = "none" /\ UNCHANGED wire
      BY <1>0, <2>7 DEF Answer, Timeout, Plain
    <3>2. CASE reply[r] = "ok" /\ row' = [row EXCEPT ![r] = "ACCEPTED"] /\ Goto(r, "refresh")
      <4>1. req'[r].pc = "refresh" /\ row'[r] = "ACCEPTED"
        BY <1>0, <3>2, GotoIs DEF Running, Plain
      <4> QED
        BY <1>0, <1>1, <3>1, <3>2, <4>1 DEF Sent, At, Unsent, Placing
    <3>3. CASE RecordRejected(r)
      <4>1. req'[r].pc = "done" /\ row'[r] = "REJECTED"
        BY <1>0, <3>3, GotoIs DEF RecordRejected, Plain
      <4> QED
        BY <1>0, <1>1, <3>1, <4>1 DEF Sent, At, Unsent, Placing
    <3> QED
      BY <2>7, <3>2, <3>3 DEF Answer, Timeout
  <2>8. CASE ReadFigure(r) \/ SetRealizedPnl(r)
    <3>1. /\ req[r].pc \in {"refresh", "setPnl"} /\ req'[r].pc \in {"setPnl", "done"}
          /\ UNCHANGED <<row, wire, reply>>
      BY <1>0, <2>8, GotoIs, ReadFigureIs DEF ReadFigure, SetRealizedPnl, At
    <3> QED
      BY <1>0, <1>1, <3>1 DEF Sent, Unsent, Placing
  <2> QED
    BY <2>1, <2>2, <2>3, <2>4, <2>5, <2>6, <2>7, <2>8 DEF PlaceStep
<1> QED
  BY <1>2, <1>3, <1>4

(* Choice: a copy on its way is booked or dropped, a working order fills.  *)
LEMMA BookPath ==
  ASSUME PathInv, NEW r \in Request, Book(r) \/ \E loss \in BOOLEAN : Fill(r, loss)
  PROVE  (\A q \in Request : Sent(q)') /\ (\A d \in Desk : Told(d)')
<1> USE DEF process, records, choice, history
<1>0. /\ Plain /\ Sent(r) /\ desk \in [Desk -> Desks] /\ \A q \in Request : Sent(q)
  BY TypesAre DEF PathInv
<1>1. UNCHANGED <<req, row, amended, desk>>
  BY DEF Book, Fill
<1>2. \A q \in Request \ {r} : /\ wire'[q] = wire[q] /\ bookings'[q] = bookings[q]
                               /\ reply'[q] = reply[q] /\ book'[q] = book[q]
  BY <1>0 DEF Book, Fill, Reply, Plain
<1>3. \A q \in Request \ {r} : Sent(q)'
  BY <1>0, <1>1, <1>2, SentFrame
<1>4. CASE Fill(r, TRUE) \/ Fill(r, FALSE)
  <2>1. book[r] = "working" /\ book'[r] = "filled" /\ UNCHANGED <<wire, reply, bookings>>
    BY <1>0, <1>4 DEF Fill, Plain
  <2>2. Sent(r)'
    BY <1>0, <1>1, <2>1, SentFrame
  <2>3. \A q \in Request : book'[q] = book[q] \/ book[q] # "cancelled"
    BY <1>2, <2>1
  <2> QED
    BY <1>0, <1>1, <1>3, <2>2, <2>3, ToldFrame DEF PathInv
<1>5. CASE Book(r)
  <2>1. wire[r] > 0 /\ wire'[r] = wire[r] - 1 /\ wire[r] \in Nat /\ bookings[r] \in Nat
    BY <1>0, <1>5 DEF Book, Plain
  <2>2. bookings[r] = 0 /\ book[r] = "absent" /\ wire[r] = 1 /\ req[r].pc \notin Unsent
    BY <1>0, <2>1 DEF Sent
  <2>3. ASSUME bookings' = [bookings EXCEPT ![r] = @ + 1], book' = [book EXCEPT ![r] = "working"]
        PROVE  Sent(r)'
    <3>1. bookings'[r] = 1 /\ book'[r] = "working" /\ wire'[r] = 0
      BY <1>0, <2>1, <2>2, <2>3 DEF Plain
    <3>2. req'[r] = req[r] /\ row'[r] = row[r] /\ amended'[r] = amended[r] /\ wire[r] # 0
      BY <1>1, <2>2
    <3>3. row[r] \notin {"SIMULATED", "CANCELLED"}
      BY <1>0, <2>2 DEF Sent
    <3> QED
      BY <1>0, <2>2, <3>1, <3>2, <3>3 DEF Sent
  <2>4. ASSUME UNCHANGED <<book, bookings>>, Reply(r, "fail") \/ UNCHANGED reply
        PROVE  Sent(r)'
    <3>1. reply'[r] \in {reply[r], "fail"}
      BY <1>0, <2>4 DEF Reply, Plain
    <3>2. /\ req'[r] = req[r] /\ row'[r] = row[r] /\ amended'[r] = amended[r] /\ wire'[r] = 0
          /\ book'[r] = book[r] /\ bookings'[r] = 0
      BY <1>1, <2>1, <2>2, <2>4
    <3> QED
      BY <1>0, <2>2, <3>1, <3>2 DEF Sent
  <2>5. Sent(r)'
    BY <1>5, <2>3, <2>4 DEF Book
  <2>6. \A q \in Request : book'[q] = book[q] \/ book[q] # "cancelled"
    BY <1>2, <2>2
  <2> QED
    BY <1>0, <1>1, <1>3, <2>5, <2>6, ToldFrame DEF PathInv
<1> QED
  BY <1>4, <1>5

(* A kill switch cancels working orders, and writes no row.                *)
LEMMA KillPath ==
  ASSUME PathInv, NEW k \in Killer, KillStep(k) \/ \E T \in SUBSET Account : Press(k, T)
  PROVE  (\A q \in Request : Sent(q)') /\ (\A d \in Desk : Told(d)')
<1> USE DEF process, records, choice, history
<1>0. TypeOK /\ Plain /\ desk \in [Desk -> Desks] /\ \A q \in Request : Sent(q)
  BY TypesAre DEF PathInv
<1>1. UNCHANGED <<req, row, wire, reply, bookings, amended, desk>>
  BY DEF KillStep, Press, Halt, SkipAccount, SweepPaper, ReadBook, CancelNext, NextAccount
<1>2. book' = book \/ \E r \in Request : book[r] = "working" /\ book' = [book EXCEPT ![r] = "cancelled"]
  BY <1>0, CancelNextIs DEF KillStep, Press, Halt, SkipAccount, SweepPaper, ReadBook, NextAccount
<1>3. \A q \in Request : book'[q] = book[q] \/ (book[q] = "working" /\ book'[q] = "cancelled")
  BY <1>0, <1>2 DEF Plain
<1>4. \A q \in Request : Sent(q)'
  BY <1>0, <1>1, <1>3, SentFrame
<1> QED
  BY <1>0, <1>1, <1>3, <1>4, ToldFrame DEF PathInv

(* A desk thread writes the row of the order Choice told it of.            *)
LEMMA DeskPath ==
  ASSUME PathInv, NEW d \in Desk, DeskStep(d)
  PROVE  (\A q \in Request : Sent(q)') /\ (\A e \in Desk : Told(e)')
<1> USE DEF process, records, choice, history
<1>0. /\ TypeOK /\ Plain /\ desk \in [Desk -> Desks] /\ Told(d)
      /\ \A q \in Request : Sent(q)
  BY TypesAre DEF PathInv
<1>1. UNCHANGED <<req, wire, reply, bookings>> /\ desk[d].of \in Request
  BY <1>0 DEF DeskStep, CheckAmend, SendAmend, FindOpen, SendCancel, RecordDesk, Desks
<1>2. ASSUME \A q \in Request : book'[q] = book[q] \/ (book[q] = "working" /\ book'[q] = "cancelled"),
             \A q \in Request : amended[q] => amended'[q],
             \A e \in Desk \ {d} : desk'[e] = desk[e],
             Told(d)', row' = row
      PROVE  (\A q \in Request : Sent(q)') /\ (\A e \in Desk : Told(e)')
  <2>1. \A q \in Request : Sent(q)'
    BY <1>0, <1>1, <1>2, SentFrame
  <2> QED
    BY <1>0, <1>2, <2>1, ToldFrame DEF PathInv
<1>3. CASE \E r \in Request : CheckAmend(d, r) \/ FindOpen(d, r)
  <2>1. PICK r \in Request : CheckAmend(d, r) \/ FindOpen(d, r)
    BY <1>3
  <2>2. desk' = desk \/ Set(d, "amend", r) \/ Set(d, "cancel", r)
    BY <2>1 DEF CheckAmend, FindOpen
  <2>3. UNCHANGED <<book, amended, row>>
    BY <2>1 DEF CheckAmend, FindOpen
  <2>4. (\A e \in Desk \ {d} : desk'[e] = desk[e]) /\ (desk'[d] = desk[d] \/ desk'[d].pc \in {"amend", "cancel"})
    BY <1>0, <2>2, SetIs
  <2>5. Told(d)'
    BY <1>0, <2>3, <2>4 DEF Told
  <2> QED
    BY <1>2, <2>3, <2>4, <2>5
<1>4. CASE SendAmend(d)
  <2>1. UNCHANGED <<book, row>>
    BY <1>4 DEF SendAmend
  <2>2. amended' = amended \/ amended' = [amended EXCEPT ![desk[d].of] = TRUE]
    BY <1>4 DEF SendAmend
  <2>3. \A q \in Request : amended[q] => amended'[q]
    BY <1>0, <2>2 DEF Plain
  <2>4. \/ Set(d, "idle", desk[d].of)
        \/ Set(d, "amended", desk[d].of) /\ amended' = [amended EXCEPT ![desk[d].of] = TRUE]
    BY <1>4 DEF SendAmend
  <2>5. /\ \A e \in Desk \ {d} : desk'[e] = desk[e]
        /\ desk'[d].of = desk[d].of /\ desk'[d].pc \in {"idle", "amended"}
        /\ desk'[d].pc = "amended" => amended'[desk[d].of]
    BY <1>0, <1>1, <2>4, SetIs DEF Plain
  <2> QED
    BY <1>2, <2>1, <2>3, <2>5 DEF Told
<1>5. CASE SendCancel(d)
  <2>1. UNCHANGED <<amended, row>>
    BY <1>5 DEF SendCancel
  <2>2. \/ book[desk[d].of] = "working" /\ book' = [book EXCEPT ![desk[d].of] = "cancelled"]
        \/ book' = book /\ Set(d, "idle", desk[d].of)
    BY <1>5 DEF SendCancel, IsOpen, CancelAtChoice
  <2>3. \A q \in Request : book'[q] = book[q] \/ (book[q] = "working" /\ book'[q] = "cancelled")
    BY <1>0, <2>2 DEF Plain
  <2>4. Set(d, "idle", desk[d].of) \/ Set(d, "cancelled", desk[d].of)
    BY <1>5 DEF SendCancel
  <2>5. /\ \A e \in Desk \ {d} : desk'[e] = desk[e]
        /\ desk'[d].of = desk[d].of /\ desk'[d].pc \in {"idle", "cancelled"}
        /\ Set(d, "idle", desk[d].of) => desk'[d].pc = "idle"
    BY <1>0, <1>1, <2>4, SetIs
  <2>6. desk'[d].pc = "cancelled" => book'[desk[d].of] = "cancelled"
    BY <1>0, <1>1, <2>2, <2>5 DEF Plain
  <2> QED
    BY <1>2, <2>1, <2>3, <2>5, <2>6 DEF Told
<1>6. CASE RecordDesk(d)
  <2>0. PICK o \in Request : o = desk[d].of
    BY <1>1
  <2>1. Set(d, "idle", o) /\ UNCHANGED <<book, amended>> /\ desk[d].pc \in {"amended", "cancelled"}
    BY <1>6, <2>0 DEF RecordDesk
  <2>2. desk'[d].pc = "idle" /\ \A e \in Desk \ {d} : desk'[e] = desk[e]
    BY <1>0, <1>1, <2>1, SetIs
  <2>3. row'[o] = IF row[o] \notin Recorded THEN row[o]
                  ELSE IF desk[d].pc = "amended" THEN "MODIFIED" ELSE "CANCELLED"
    BY <1>0, <1>1, <1>6, <2>0 DEF RecordDesk, Plain
  <2>4. \A q \in Request \ {o} : row'[q] = row[q]
    BY <1>0, <1>1, <1>6, <2>0 DEF RecordDesk, Plain
  <2>5. \A q \in Request \ {o} : Sent(q)'
    BY <1>0, <1>1, <2>1, <2>4, SentFrame
  <2>6. Sent(o)'
    <3>1. CASE row'[o] = row[o]
      BY <1>0, <1>1, <2>1, <3>1, SentFrame
    <3>2. CASE row[o] \in Recorded /\ desk[d].pc = "amended"
      BY <1>0, <1>1, <2>0, <2>1, <2>3, <3>2 DEF Sent, Told, Recorded
    <3>3. CASE row[o] \in Recorded /\ desk[d].pc = "cancelled"
      BY <1>0, <1>1, <2>0, <2>1, <2>3, <3>3 DEF Sent, Told, Recorded
    <3> QED
      BY <2>1, <2>3, <3>1, <3>2, <3>3
  <2>7. \A e \in Desk : Told(e)'
    BY <1>0, <2>1, <2>2, ToldFrame DEF PathInv, Told
  <2> QED
    BY <2>5, <2>6, <2>7
<1> QED
  BY <1>3, <1>4, <1>5, <1>6 DEF DeskStep

LEMMA RestartPath ==
  ASSUME PathInv, Restart
  PROVE  (\A q \in Request : Sent(q)') /\ (\A d \in Desk : Told(d)')
<1>0. TypeOK /\ Plain /\ req \in [Request -> Calls]
  BY TypesAre DEF PathInv
<1>1. ASSUME NEW q \in Request PROVE Sent(q)'
  <2>1. Sent(q) /\ req'[q].pc = IF req[q].pc \in Running THEN "dead" ELSE req[q].pc
    BY <1>0, RestartIs DEF PathInv
  <2>2. /\ reply'[q] = "none" /\ wire'[q] = wire[q] /\ bookings'[q] = bookings[q]
        /\ row'[q] = row[q] /\ book'[q] = book[q] /\ amended'[q] = amended[q]
    BY DEF Restart
  <2> QED
    BY <2>1, <2>2 DEF Sent, Unsent, Placing, Running
<1>2. ASSUME NEW d \in Desk PROVE Told(d)'
  <2>1. desk'[d].pc = "idle"
    BY DEF Restart, NoDesk
  <2> QED
    BY <2>1 DEF Told
<1> QED
  BY <1>1, <1>2

LEMMA StepPath == PathInv /\ [Next]_vars => PathInv'
<1> SUFFICES ASSUME PathInv, [Next]_vars PROVE PathInv'
  OBVIOUS
<1>1. TypeOK'
  BY StepTypes DEF PathInv
<1>2. CASE UNCHANGED vars
  BY <1>1, <1>2 DEF PathInv, Sent, Told, vars
<1>3. CASE \E a \in Account, m \in {"PAPER", "LIVE"} : Connect(a, m) \/ SetMode(a, m)
  <2>1. UNCHANGED <<records, choice, desk>>
    BY <1>3 DEF Connect, SetMode
  <2>2. \A q \in Request : req'[q].pc = req[q].pc
    BY <1>3, SetModeIs DEF Connect, PathInv
  <2>3. \A q \in Request : Sent(q)'
    BY <2>1, <2>2, SentFrame DEF PathInv, records, choice
  <2>4. \A d \in Desk : Told(d)'
    BY <2>1 DEF PathInv, choice, Told
  <2> QED
    BY <1>1, <2>3, <2>4 DEF PathInv
<1>4. CASE \E r \in Request : PlaceStep(r)
  BY <1>1, <1>4, PlacePath DEF PathInv
<1>5. CASE \E r \in Request : Book(r) \/ \E loss \in BOOLEAN : Fill(r, loss)
  BY <1>1, <1>5, BookPath DEF PathInv
<1>6. CASE \E k \in Killer : KillStep(k) \/ \E T \in SUBSET Account : Press(k, T)
  BY <1>1, <1>6, KillPath DEF PathInv
<1>7. CASE \E d \in Desk : DeskStep(d)
  BY <1>1, <1>7, DeskPath DEF PathInv
<1>8. CASE Restart
  BY <1>1, <1>8, RestartPath DEF PathInv
<1> QED
  BY <1>2, <1>3, <1>4, <1>5, <1>6, <1>7, <1>8 DEF Next

LEMMA InitPath == Init => PathInv
<1> SUFFICES ASSUME Init PROVE PathInv
  OBVIOUS
<1>1. \A r \in Request : Sent(r)
  BY DEF Init, Sent, Unsent, Placing
<1>2. \A d \in Desk : Told(d)
  BY DEF Init, Told, NoDesk
<1> QED
  BY <1>1, <1>2, InitTypes DEF PathInv

-----------------------------------------------------------------------------
(* The mode of an order: ModeInv                                           *)

LEMMA MeasuredFrame ==
  ASSUME NEW q \in Request, Measured(q), req'[q] = req[q], mode'[Acct(q)] = mode[Acct(q)],
         sim'[q] = sim[q] \/ (sim[q] # "none" /\ sim'[q] # "none"),
         wire'[q] = wire[q], bookings'[q] = bookings[q]
  PROVE  Measured(q)'
  BY DEF Measured, Acct

LEMMA PlaceMode ==
  ASSUME ModeInv, NEW r \in Request, PlaceStep(r)
  PROVE  \A q \in Request : Measured(q)'
<1> USE DEF process, records, choice, history
<1>0. /\ TypeOK /\ Plain /\ req[r] \in Calls /\ Sent(r) /\ Measured(r)
      /\ mode[Acct(r)] \in {"NONE", "PAPER", "LIVE"} /\ \A q \in Request : Measured(q)
  BY TypesAre, AcctType DEF ModeInv, PathInv, Plain
<1>1. UNCHANGED <<mode, bookings>>
  BY DEF PlaceStep, Submit, ReadMode, Validate, Refuse, Dispatch, RecordSimulated, Post, Answer,
         Timeout, ReadFigure, SetRealizedPnl
<1>2. ASSUME NEW q \in Request \ {r} PROVE Measured(q)'
  <2>1. req'[q] = req[q]
    BY <1>0, GotoIs, ReadModeIs, ReadFigureIs DEF PlaceStep, Submit, Validate, Refuse, Dispatch,
       RecordSimulated, Post, Answer, Timeout, SetRealizedPnl, RecordRejected, Running
  <2>2. sim'[q] = sim[q] /\ wire'[q] = wire[q]
    BY <1>0 DEF PlaceStep, Submit, ReadMode, Validate, Refuse, Dispatch, RecordSimulated, Post,
       Answer, Timeout, ReadFigure, SetRealizedPnl, Plain
  <2> QED
    BY <1>0, <1>1, <2>1, <2>2, MeasuredFrame
<1>3. mode'[Acct(r)] = mode[Acct(r)] /\ Acct(r)' = Acct(r) /\ bookings'[r] = bookings[r]
  BY <1>1 DEF Acct
<1>4. ASSUME req[r].pc \in Running, req'[r].asPaper = req[r].asPaper, req'[r].steady = req[r].steady,
             req'[r].pc \in {"refresh", "setPnl", "done"},
             UNCHANGED <<sim, wire>>
      PROVE  Measured(r)'
  BY <1>0, <1>3, <1>4 DEF Measured
<1>5. Measured(r)'
  <2>1. CASE Submit(r)
    <3>1. /\ req[r].pc = "new" /\ req'[r].pc = "mode" /\ mode[Acct(r)] # "NONE"
          /\ req'[r].asPaper = req[r].asPaper /\ req'[r].steady = req[r].steady
          /\ UNCHANGED <<sim, wire>>
      BY <1>0, <2>1, GotoIs DEF Submit, At, Running
    <3> QED
      BY <1>0, <1>3, <3>1 DEF Measured
  <2>2. CASE ReadMode(r)
    <3>1. /\ req[r].pc = "mode" /\ req'[r].pc = "validate" /\ UNCHANGED <<sim, wire>>
          /\ req'[r].asPaper = (mode[Acct(r)] = "PAPER") /\ req'[r].steady = req[r].steady
      BY <1>0, <2>2, ReadModeIs DEF ReadMode, At
    <3>2. wire'[r] = 0 /\ bookings'[r] = 0
      BY <1>0, <1>3, <3>1 DEF Sent, Unsent
    <3>3. sim'[r] = "none" /\ mode'[Acct(r)] # "NONE"
      BY <1>0, <1>3, <3>1 DEF Measured, Running
    <3>4. req'[r].asPaper <=> mode'[Acct(r)] = "PAPER"
      BY <1>3, <3>1
    <3> QED
      BY <1>3, <3>1, <3>2, <3>3, <3>4 DEF Measured
  <2>3. CASE Validate(r) \/ Refuse(r)
    <3>1. req[r].pc \in {"validate", "dispatch"} /\ UNCHANGED <<sim, wire>>
      BY <2>3 DEF Validate, Refuse, At
    <3>2. CASE RecordRejected(r)
      BY <1>0, <1>4, <3>1, <3>2, GotoIs DEF RecordRejected, Running
    <3>3. CASE Goto(r, "dispatch") /\ At(r, "validate")
      <4>1. /\ req'[r].pc = "dispatch" /\ req'[r].asPaper = req[r].asPaper /\ req'[r].steady = req[r].steady
        BY <1>0, <3>3, GotoIs DEF Running
      <4> QED
        BY <1>0, <1>3, <3>1, <3>3, <4>1 DEF Measured, At, Running
    <3> QED
      BY <2>3, <3>2, <3>3 DEF Validate, Refuse
  <2>4. CASE Dispatch(r)
    <3>1. req[r].pc = "dispatch" /\ wire'[r] = wire[r]
      BY <2>4 DEF Dispatch, At
    <3>2. wire[r] = 0 /\ bookings[r] = 0
      BY <1>0, <3>1 DEF Sent, Unsent
    <3>3. CASE mode[Acct(r)] = "PAPER" /\ sim' = [sim EXCEPT ![r] = "SIMULATED"] /\ Goto(r, "simulated")
      <4>1. /\ req'[r].pc = "simulated" /\ req'[r].asPaper = req[r].asPaper
            /\ req'[r].steady = req[r].steady /\ sim'[r] = "SIMULATED"
        BY <1>0, <3>3, GotoIs DEF Running, Plain
      <4> QED
        BY <1>0, <1>3, <3>1, <3>2, <3>3, <4>1 DEF Measured
    <3>4. CASE mode[Acct(r)] = "LIVE" /\ Goto(r, "post") /\ UNCHANGED sim
      <4>1. /\ req'[r].pc = "post" /\ req'[r].asPaper = req[r].asPaper
            /\ req'[r].steady = req[r].steady /\ sim'[r] = sim[r]
        BY <1>0, <3>4, GotoIs DEF Running
      <4> QED
        BY <1>0, <1>3, <3>1, <3>2, <3>4, <4>1 DEF Measured
    <3> QED
      BY <2>4, <3>3, <3>4 DEF Dispatch
  <2>5. CASE RecordSimulated(r) \/ Answer(r) \/ Timeout(r) \/ SetRealizedPnl(r)
    <3>1. req[r].pc \in Running /\ UNCHANGED <<sim, wire>>
      BY <2>5 DEF RecordSimulated, Answer, Timeout, SetRealizedPnl, At, Running
    <3>2. /\ req'[r].asPaper = req[r].asPaper /\ req'[r].steady = req[r].steady
          /\ req'[r].pc \in {"refresh", "setPnl", "done"}
      BY <1>0, <2>5, GotoIs
         DEF RecordSimulated, Answer, Timeout, SetRealizedPnl, RecordRejected, Running
    <3> QED
      BY <1>4, <3>1, <3>2
  <2>6. CASE ReadFigure(r)
    <3>1. req[r].pc \in Running /\ UNCHANGED <<sim, wire>>
      BY <2>6 DEF ReadFigure, At, Running
    <3> QED
      BY <1>0, <1>4, <2>6, <3>1, ReadFigureIs
  <2>7. CASE Post(r)
    <3>1. /\ req[r].pc = "post" /\ req'[r].pc = "await" /\ wire'[r] = wire[r] + 1 /\ UNCHANGED sim
          /\ req'[r].asPaper = req[r].asPaper /\ req'[r].steady = req[r].steady
      BY <1>0, <2>7, GotoIs DEF Post, At, Running, Plain
    <3> QED
      BY <1>0, <1>3, <3>1 DEF Measured, Running
  <2> QED
    BY <2>1, <2>2, <2>3, <2>4, <2>5, <2>6, <2>7 DEF PlaceStep
<1> QED
  BY <1>2, <1>5

LEMMA StepMode == ModeInv /\ [Next]_vars => ModeInv'
<1> SUFFICES ASSUME ModeInv, [Next]_vars PROVE \A q \in Request : Measured(q)'
  BY StepPath DEF ModeInv
<1> USE DEF process, records, choice, history
<1>0. TypeOK /\ Plain /\ req \in [Request -> Calls] /\ \A q \in Request : Measured(q) /\ Sent(q)
  BY TypesAre DEF ModeInv, PathInv
<1>1. CASE UNCHANGED vars
  BY <1>0, <1>1 DEF Measured, Acct, vars
<1>2. CASE \E a \in Account, m \in {"PAPER", "LIVE"} : Connect(a, m)
  <2>1. PICK a \in Account, m \in {"PAPER", "LIVE"} : Connect(a, m)
    BY <1>2
  <2>2. /\ UNCHANGED <<req, sim, wire, bookings>> /\ mode[a] = "NONE" /\ mode'[a] # "NONE"
        /\ \A b \in Account \ {a} : mode'[b] = mode[b]
    BY <1>0, <2>1 DEF Connect, Plain
  <2>3. ASSUME NEW q \in Request, Acct(q) = a PROVE Measured(q)'
    <3>1. req[q].pc \notin Running /\ Measured(q)
      BY <1>0, <2>2, <2>3 DEF Measured
    <3> QED
      BY <2>2, <3>1 DEF Measured, Running
  <2> QED
    BY <1>0, <2>2, <2>3, MeasuredFrame, AcctType
<1>3. CASE \E a \in Account, m \in {"PAPER", "LIVE"} : SetMode(a, m)
  <2>1. PICK a \in Account, m \in {"PAPER", "LIVE"} : SetMode(a, m)
    BY <1>3
  <2>2. /\ UNCHANGED <<sim, wire, bookings>> /\ mode'[a] # "NONE"
        /\ \A b \in Account \ {a} : mode'[b] = mode[b]
    BY <1>0, <2>1 DEF SetMode, Plain
  <2>3. ASSUME NEW q \in Request PROVE Measured(q)'
    <3>1. /\ Measured(q) /\ req'[q].pc = req[q].pc /\ req'[q].asPaper = req[q].asPaper
          /\ req'[q].steady => req[q].steady
          /\ Acct(q) = a /\ req[q].pc \in Running => ~req'[q].steady
      BY <1>0, <2>1, SetModeIs
    <3>2. CASE Acct(q) = a
      BY <2>2, <3>1, <3>2 DEF Measured, Running, Acct
    <3>3. CASE Acct(q) # a
      BY <2>2, <3>1, <3>3, AcctType DEF Measured, Acct
    <3> QED
      BY <3>2, <3>3
  <2> QED
    BY <2>3
<1>4. CASE \E r \in Request : PlaceStep(r)
  BY <1>4, PlaceMode
<1>5. CASE \E r \in Request : Book(r)
  <2>1. PICK r \in Request : Book(r)
    BY <1>5
  <2>2. UNCHANGED <<mode, req, sim>> /\ wire[r] > 0
    BY <2>1 DEF Book
  <2>3. \A q \in Request \ {r} : wire'[q] = wire[q] /\ bookings'[q] = bookings[q]
    BY <1>0, <2>1 DEF Book, Plain
  <2>4. Measured(r) /\ sim[r] = "none" /\ wire[r] + bookings[r] > 0
    BY <1>0, <2>2 DEF Measured, Plain
  <2>5. Measured(r)'
    BY <2>2, <2>4 DEF Measured, Acct
  <2> QED
    BY <1>0, <2>2, <2>3, <2>5, MeasuredFrame
<1>6. CASE \E r \in Request, loss \in BOOLEAN : Fill(r, loss)
  <2>1. UNCHANGED <<mode, req, sim, wire, bookings>>
    BY <1>6 DEF Fill
  <2> QED
    BY <1>0, <2>1, MeasuredFrame
<1>7. CASE \E k \in Killer : KillStep(k) \/ \E T \in SUBSET Account : Press(k, T)
  <2>0. PICK k \in Killer : KillStep(k) \/ \E T \in SUBSET Account : Press(k, T)
    BY <1>7
  <2>1. UNCHANGED <<mode, req, wire, bookings>>
    BY <2>0 DEF KillStep, Press, Halt, SkipAccount, SweepPaper, ReadBook, CancelNext, NextAccount
  <2>2. sim' = sim \/ \E a \in Account : SweepPaper(k, a)
    BY <2>0 DEF KillStep, Press, Halt, SkipAccount, ReadBook, CancelNext, NextAccount
  <2>3. \A q \in Request : sim'[q] = sim[q] \/ (sim[q] # "none" /\ sim'[q] # "none")
    BY <2>2 DEF SweepPaper
  <2> QED
    BY <1>0, <2>1, <2>3, MeasuredFrame
<1>8. CASE \E d \in Desk : DeskStep(d)
  <2>1. UNCHANGED <<mode, req, sim, wire, bookings>>
    BY <1>8 DEF DeskStep, CheckAmend, SendAmend, FindOpen, SendCancel, RecordDesk
  <2> QED
    BY <1>0, <2>1, MeasuredFrame
<1>9. CASE Restart
  <2>1. ASSUME NEW q \in Request PROVE Measured(q)'
    <3>1. /\ Measured(q) /\ req'[q].pc \notin Running /\ req'[q].asPaper = req[q].asPaper
          /\ req'[q].steady = req[q].steady
      BY <1>0, <1>9, RestartIs DEF Running
    <3>2. sim'[q] = "none" /\ wire'[q] = wire[q] /\ bookings'[q] = bookings[q]
      BY <1>9 DEF Restart
    <3> QED
      BY <3>1, <3>2 DEF Measured, Running
  <2> QED
    BY <2>1
<1> QED
  BY <1>1, <1>2, <1>3, <1>4, <1>5, <1>6, <1>7, <1>8, <1>9 DEF Next

LEMMA InitMode == Init => ModeInv
<1> SUFFICES ASSUME Init PROVE \A r \in Request : Measured(r)
  BY InitPath DEF ModeInv
<1> QED
  BY DEF Init, Measured, Running

-----------------------------------------------------------------------------
(* What a kill switch has halted and seen: KillInv                         *)

(* A step that leaves kill switches alone, takes back no halt, lets no     *)
(* order of a halted account past the check, and books none but those      *)
(* that had passed it.                                                     *)
Quiet ==
  /\ \A a \in Account : halt[a] = "all" => halt'[a] = "all"
  /\ \A r \in Request : halt[Acct(r)] = "all" /\ Flying(r)' => Flying(r)
  /\ \A r \in Request : book'[r] = "working" => book[r] = "working" \/ Flying(r)

LEMMA CoveredFrame ==
  ASSUME TypeOK, NEW k \in Killer, Covered(k), kill'[k] = kill[k], Quiet
  PROVE  Covered(k)'
<1>1. kill[k] \in Kills
  BY KillTypes
<1>2. kill[k].targets \subseteq Account
  BY <1>1 DEF Kills
<1>3. \A a \in kill[k].targets \ kill[k].toHalt : halt[a] = "all" /\ halt'[a] = "all"
  BY <1>2 DEF Covered, Quiet
<1>4. ASSUME NEW r \in Request, Acct(r) \in kill[k].targets \ kill[k].toHalt
      PROVE  /\ Flying(r)' => r \in kill[k].inflight
             /\ Acct(r) \in kill[k].swept /\ book'[r] = "working" =>
                  r \in kill[k].failed \cup kill[k].inflight \cup kill[k].todo
  <2>1. halt[Acct(r)] = "all"
    BY <1>3, <1>4
  <2>2. Flying(r) => r \in kill[k].inflight
    BY <1>4 DEF Covered
  <2>3. Acct(r) \in kill[k].swept /\ book[r] = "working" =>
          r \in kill[k].failed \cup kill[k].inflight \cup kill[k].todo
    BY DEF Covered
  <2> QED
    BY <2>1, <2>2, <2>3 DEF Quiet
<1>5. \A r \in Request : Acct(r)' = Acct(r)
  BY DEF Acct
<1>6. kill[k].swept \subseteq kill[k].targets \ kill[k].toHalt
  BY DEF Covered
<1> QED
  BY <1>3, <1>4, <1>5, <1>6 DEF Covered

LEMMA PlaceQuiet ==
  ASSUME PathInv, NEW r \in Request, PlaceStep(r)
  PROVE  Quiet
<1> USE DEF process, records, choice, history
<1>0. /\ TypeOK /\ Plain /\ req[r] \in Calls /\ Acct(r) \in Account /\ Sent(r)
  BY TypesAre, AcctType DEF PathInv
<1>1. UNCHANGED book
  BY DEF PlaceStep, Submit, ReadMode, Validate, Refuse, Dispatch, RecordSimulated, Post, Answer,
         Timeout, ReadFigure, SetRealizedPnl
<1>2. halt' = halt \/ (halt' = [halt EXCEPT ![Acct(r)] = "real"] /\ halt[Acct(r)] # "all")
  BY DEF PlaceStep, Submit, ReadMode, Validate, Refuse, Dispatch, RecordSimulated, Post, Answer,
         Timeout, ReadFigure, SetRealizedPnl, TripBreaker, Trips, Blocked
<1>3. ASSUME NEW q \in Request, halt[Acct(q)] = "all", Flying(q)' PROVE Flying(q)
  <2>1. CASE q # r
    <3>1. req'[q] = req[q]
      BY <1>0, <2>1, GotoIs, ReadModeIs, ReadFigureIs
         DEF PlaceStep, Submit, Validate, Refuse, Dispatch,
         RecordSimulated, Post, Answer, Timeout, SetRealizedPnl, RecordRejected, Running
    <3>2. wire'[q] = wire[q]
      BY <1>0, <2>1
         DEF PlaceStep, Submit, ReadMode, Validate, Refuse, Dispatch, RecordSimulated, Post,
         Answer, Timeout, ReadFigure, SetRealizedPnl, Plain
    <3> QED
      BY <1>1, <1>3, <3>1, <3>2 DEF Flying
  <2>2. CASE q = r
    <3>1. CASE Dispatch(r) \/ Post(r) \/ Answer(r) \/ Timeout(r)
      BY <1>1, <1>3, <2>2, <3>1 DEF Dispatch, Post, Answer, Timeout, At, Flying
    <3>2. CASE Submit(r) \/ ReadMode(r) \/ RecordSimulated(r) \/ ReadFigure(r) \/ SetRealizedPnl(r)
      <4>1. req'[r].pc \in {"mode", "validate", "refresh", "setPnl", "done"} /\ UNCHANGED wire
        BY <1>0, <3>2, GotoIs, ReadModeIs, ReadFigureIs, SMTT(30)
           DEF Submit, ReadMode, RecordSimulated, ReadFigure, SetRealizedPnl, Running
      <4> QED
        BY <1>1, <1>3, <2>2, <4>1 DEF Flying
    <3>3. CASE Validate(r) \/ Refuse(r)
      <4>1. RecordRejected(r) /\ UNCHANGED wire
        BY <1>3, <2>2, <3>3 DEF Validate, Refuse, Blocked
      <4>2. req'[r].pc = "done"
        BY <1>0, <4>1, GotoIs DEF RecordRejected
      <4> QED
        BY <1>1, <1>3, <2>2, <4>1, <4>2 DEF Flying
    <3> QED
      BY <3>1, <3>2, <3>3 DEF PlaceStep
  <2> QED
    BY <2>1, <2>2
<1>4. \A a \in Account : halt[a] = "all" => halt'[a] = "all"
  BY <1>0, <1>2 DEF Plain
<1> QED
  BY <1>1, <1>3, <1>4 DEF Quiet

LEMMA OtherQuiet ==
  ASSUME PathInv,
         \/ \E a \in Account, m \in {"PAPER", "LIVE"} : Connect(a, m) \/ SetMode(a, m)
         \/ \E r \in Request : Book(r) \/ \E loss \in BOOLEAN : Fill(r, loss)
         \/ \E d \in Desk : DeskStep(d)
  PROVE  Quiet /\ kill' = kill
<1> USE DEF process, records, choice, history
<1>0. TypeOK /\ Plain /\ \A r \in Request : Sent(r) /\ Acct(r) \in Account
  BY TypesAre, AcctType DEF PathInv
<1>1. CASE \E a \in Account, m \in {"PAPER", "LIVE"} : Connect(a, m) \/ SetMode(a, m)
  <2>1. UNCHANGED <<kill, halt, book, wire>> /\ \A r \in Request : req'[r].pc = req[r].pc
    BY <1>0, <1>1, SetModeIs DEF Connect, SetMode
  <2> QED
    BY <2>1 DEF Quiet, Flying
<1>2. CASE \E r \in Request : Book(r)
  <2>1. PICK r \in Request : Book(r)
    BY <1>2
  <2>2. UNCHANGED <<kill, halt, req>> /\ wire[r] > 0 /\ book[r] = "absent"
    BY <1>0, <2>1 DEF Book, Sent, Plain
  <2>3. \A q \in Request \ {r} : wire'[q] = wire[q] /\ book'[q] = book[q]
    BY <1>0, <2>1 DEF Book, Plain
  <2>4. Flying(r)
    BY <2>2 DEF Flying
  <2> QED
    BY <2>2, <2>3, <2>4 DEF Quiet, Flying
<1>3. CASE \E r \in Request, loss \in BOOLEAN : Fill(r, loss)
  <2>1. UNCHANGED <<kill, halt, req, wire>> /\ \A q \in Request : book'[q] = book[q] \/ book'[q] = "filled"
    BY <1>0, <1>3 DEF Fill, Plain
  <2> QED
    BY <2>1 DEF Quiet, Flying
<1>4. CASE \E d \in Desk : DeskStep(d)
  <2>0. PICK d \in Desk : DeskStep(d)
    BY <1>4
  <2>1. UNCHANGED <<kill, req, wire>>
    BY <2>0 DEF DeskStep, CheckAmend, SendAmend, FindOpen, SendCancel, RecordDesk
  <2>2. book' = book \/ \E q \in Request : book' = [book EXCEPT ![q] = "cancelled"]
    <3>1. desk[d].of \in Request
      BY <1>0, TypesAre DEF Desks
    <3> QED
      BY <2>0, <3>1
         DEF DeskStep, CheckAmend, SendAmend, FindOpen, SendCancel, RecordDesk, CancelAtChoice
  <2>3. \A q \in Request : book'[q] = book[q] \/ book'[q] = "cancelled"
    BY <1>0, <2>2 DEF Plain
  <2>4. \A a \in Account : halt[a] = "all" => halt'[a] = "all"
    <3>1. halt' = halt \/ \E a \in Account : halt[a] # "all" /\ halt' = [halt EXCEPT ![a] = "real"]
      BY <1>0, <2>0
         DEF DeskStep, CheckAmend, SendAmend, FindOpen, SendCancel, RecordDesk, TripBreaker,
         Trips, Blocked
    <3> QED
      BY <1>0, <3>1 DEF Plain
  <2> QED
    BY <2>1, <2>3, <2>4 DEF Quiet, Flying
<1> QED
  BY <1>1, <1>2, <1>3, <1>4

LEMMA KillQuiet ==
  ASSUME PathInv, NEW k \in Killer, KillStep(k) \/ \E T \in SUBSET Account : Press(k, T)
  PROVE  Quiet
<1> USE DEF process, records, choice, history
<1>0. TypeOK /\ Plain
  BY TypesAre DEF PathInv
<1>1. UNCHANGED <<req, wire>>
  BY DEF KillStep, Press, Halt, SkipAccount, SweepPaper, ReadBook, CancelNext, NextAccount
<1>2. halt' = halt \/ \E a \in Account : halt' = [halt EXCEPT ![a] = "all"]
  BY DEF KillStep, Press, Halt, SkipAccount, SweepPaper, ReadBook, CancelNext, NextAccount
<1>3. book' = book \/ \E r \in Request : book' = [book EXCEPT ![r] = "cancelled"]
  BY <1>0, CancelNextIs DEF KillStep, Press, Halt, SkipAccount, SweepPaper, ReadBook, NextAccount
<1>4. \A q \in Request : book'[q] = book[q] \/ book'[q] = "cancelled"
  BY <1>0, <1>3 DEF Plain
<1>5. \A a \in Account : halt[a] = "all" => halt'[a] = "all"
  BY <1>0, <1>2 DEF Plain
<1> QED
  BY <1>1, <1>4, <1>5 DEF Quiet, Flying

(* The kill switch that takes the step.                                    *)
LEMMA KillCovered ==
  ASSUME KillInv, NEW k \in Killer, KillStep(k) \/ \E T \in SUBSET Account : Press(k, T)
  PROVE  Covered(k)'
<1> USE DEF process, records, choice, history
<1>0. /\ TypeOK /\ Plain /\ kill[k] \in Kills /\ Covered(k)
      /\ \A r \in Request : Acct(r) \in Account /\ Acct(r)' = Acct(r)
  BY TypesAre, AcctType DEF KillInv, PathInv, Acct
<1>1. CASE \E T \in SUBSET Account : Press(k, T)
  <2>1. PICK T \in SUBSET Account : Press(k, T)
    BY <1>1
  <2>2. /\ kill'[k].pc = "halt" /\ kill'[k].targets = T /\ kill'[k].toHalt = T
        /\ kill'[k].toSweep = T /\ kill'[k].todo = {} /\ kill'[k].swept = {}
    BY <1>0, <2>1, PressIs
  <2> QED
    BY <2>2 DEF Covered
<1>2. CASE \E a \in Account : Halt(k, a)
  <2>1. PICK a \in Account : Halt(k, a)
    BY <1>2
  <2>2. /\ kill'[k].toHalt = kill[k].toHalt \ {a}
        /\ kill'[k].inflight = kill[k].inflight \cup InFlight(a)
        /\ kill'[k].pc = IF kill[k].toHalt = {a} THEN "sweep" ELSE "halt"
        /\ kill'[k].targets = kill[k].targets /\ kill'[k].toSweep = kill[k].toSweep
        /\ kill'[k].todo = kill[k].todo /\ kill'[k].swept = kill[k].swept
    BY <1>0, <2>1, HaltIs
  <2>3. /\ kill[k].pc = "halt" /\ kill'[k].swept = {} /\ kill'[k].todo = {}
        /\ UNCHANGED <<req, wire, book>>
    BY <1>0, <2>1, <2>2 DEF Halt, Covered
  <2>4. halt'[a] = "all" /\ \A b \in Account \ {a} : halt'[b] = halt[b]
    BY <1>0, <2>1 DEF Halt, Plain
  <2>5. ASSUME NEW b \in kill'[k].targets \ kill'[k].toHalt PROVE halt'[b] = "all"
    <3>1. b \in Account /\ (b = a \/ b \in kill[k].targets \ kill[k].toHalt)
      BY <1>0, <2>2 DEF Kills
    <3> QED
      BY <1>0, <2>4, <3>1 DEF Covered
  <2>6. ASSUME NEW r \in Request, Acct(r) \in kill'[k].targets \ kill'[k].toHalt, Flying(r)'
        PROVE  r \in kill'[k].inflight
    <3>1. Flying(r)
      BY <2>3, <2>6 DEF Flying
    <3>2. CASE Acct(r) = a
      BY <2>2, <3>1, <3>2 DEF Flying, InFlight
    <3>3. CASE Acct(r) # a
      BY <1>0, <2>2, <2>6, <3>1, <3>3 DEF Covered
    <3> QED
      BY <3>2, <3>3
  <2>7. kill'[k].pc \in {"sweep", "cancel", "done"} => kill'[k].toHalt = {}
    BY <2>2
  <2>8. kill'[k].toSweep \subseteq kill'[k].targets
    BY <1>0, <2>2 DEF Covered
  <2> QED
    BY <1>0, <2>3, <2>5, <2>6, <2>7, <2>8 DEF Covered
<1>3. CASE \E a \in Account : SkipAccount(k, a) \/ SweepPaper(k, a)
  <2>1. PICK a \in Account : SkipAccount(k, a) \/ SweepPaper(k, a)
    BY <1>3
  <2>2. /\ kill'[k].pc \in {"sweep", "done"} /\ kill'[k].toSweep = kill[k].toSweep \ {a}
        /\ kill'[k].targets = kill[k].targets /\ kill'[k].toHalt = kill[k].toHalt
        /\ kill'[k].todo = kill[k].todo /\ kill'[k].swept = kill[k].swept
        /\ kill'[k].failed = kill[k].failed /\ kill'[k].inflight = kill[k].inflight
    BY <1>0, <2>1, SweptIs
  <2>3. kill[k].pc = "sweep" /\ UNCHANGED <<req, wire, book, halt>>
    BY <2>1 DEF SkipAccount, SweepPaper
  <2> QED
    BY <1>0, <2>2, <2>3 DEF Covered, Flying
<1>4. CASE \E a \in Account : ReadBook(k, a)
  <2>1. PICK a \in Account : ReadBook(k, a)
    BY <1>4
  <2>2. /\ kill'[k].pc = "cancel" /\ kill'[k].toSweep = kill[k].toSweep \ {a}
        /\ kill'[k].swept = kill[k].swept \cup {a}
        /\ kill'[k].todo = {r \in Request : Acct(r) = a /\ IsOpen(r)}
        /\ kill'[k].targets = kill[k].targets /\ kill'[k].toHalt = kill[k].toHalt
        /\ kill'[k].failed = kill[k].failed /\ kill'[k].inflight = kill[k].inflight
    BY <1>0, <2>1, ReadBookIs
  <2>3. /\ kill[k].pc = "sweep" /\ a \in kill[k].toSweep /\ UNCHANGED <<req, wire, book, halt>>
        /\ kill[k].toHalt = {} /\ kill[k].todo = {} /\ a \in kill[k].targets
    BY <1>0, <2>1 DEF ReadBook, Covered
  <2>4. ASSUME NEW r \in Request, Acct(r) \in kill'[k].swept, book'[r] = "working"
        PROVE  r \in kill'[k].failed \cup kill'[k].inflight \cup kill'[k].todo
    <3>1. CASE Acct(r) = a
      BY <2>2, <2>3, <2>4, <3>1 DEF IsOpen
    <3>2. CASE Acct(r) # a
      BY <1>0, <2>2, <2>3, <2>4, <3>2 DEF Covered
    <3> QED
      BY <3>1, <3>2
  <2>5. \A b \in kill'[k].targets \ kill'[k].toHalt : halt'[b] = "all"
    BY <1>0, <2>2, <2>3 DEF Covered
  <2>6. \A r \in Request : Acct(r) \in kill'[k].targets \ kill'[k].toHalt /\ Flying(r)' =>
          r \in kill'[k].inflight
    BY <1>0, <2>2, <2>3 DEF Covered, Flying
  <2>7. /\ kill'[k].swept \subseteq kill'[k].targets \ kill'[k].toHalt
        /\ kill'[k].toSweep \subseteq kill'[k].targets /\ kill'[k].toHalt = {}
    BY <1>0, <2>2, <2>3 DEF Covered
  <2> QED
    BY <1>0, <2>2, <2>4, <2>5, <2>6, <2>7 DEF Covered
<1>5. CASE \E r \in Request : CancelNext(k, r)
  <2>1. PICK r \in Request : CancelNext(k, r)
    BY <1>5
  <2>2. /\ kill'[k].todo = kill[k].todo \ {r}
        /\ kill'[k].failed \in {kill[k].failed, kill[k].failed \cup {r}}
        /\ kill'[k].failed = kill[k].failed => book' = [book EXCEPT ![r] = "cancelled"] \/ r \in kill[k].failed
        /\ book' = book \/ (book[r] = "working" /\ book' = [book EXCEPT ![r] = "cancelled"])
        /\ kill'[k].pc = kill[k].pc /\ kill'[k].toSweep = kill[k].toSweep
        /\ kill'[k].targets = kill[k].targets /\ kill'[k].toHalt = kill[k].toHalt
        /\ kill'[k].swept = kill[k].swept /\ kill'[k].inflight = kill[k].inflight
    BY <1>0, <2>1, CancelNextIs
  <2>3. kill[k].pc = "cancel" /\ UNCHANGED <<req, wire, halt>>
    BY <2>1 DEF CancelNext
  <2>4. \A q \in Request : book'[q] = book[q] \/ book'[q] = "cancelled"
    BY <1>0, <2>2 DEF Plain
  <2>5. r \in kill'[k].failed \/ book'[r] = "cancelled"
    BY <1>0, <2>2 DEF Plain
  <2>6. ASSUME NEW q \in Request, Acct(q) \in kill'[k].swept, book'[q] = "working"
        PROVE  q \in kill'[k].failed \cup kill'[k].inflight \cup kill'[k].todo
    <3>1. q \in kill[k].failed \cup kill[k].inflight \cup kill[k].todo
      BY <1>0, <2>2, <2>4, <2>6 DEF Covered
    <3> QED
      BY <2>2, <2>5, <2>6, <3>1
  <2>7. \A b \in kill'[k].targets \ kill'[k].toHalt : halt'[b] = "all"
    BY <1>0, <2>2, <2>3 DEF Covered
  <2>8. \A q \in Request : Acct(q) \in kill'[k].targets \ kill'[k].toHalt /\ Flying(q)' =>
          q \in kill'[k].inflight
    BY <1>0, <2>2, <2>3, <2>4 DEF Covered, Flying
  <2>9. /\ kill'[k].swept \subseteq kill'[k].targets \ kill'[k].toHalt
        /\ kill'[k].toSweep \subseteq kill'[k].targets /\ kill'[k].toHalt = {}
    BY <1>0, <2>2, <2>3 DEF Covered
  <2> QED
    BY <1>0, <2>2, <2>3, <2>6, <2>7, <2>8, <2>9 DEF Covered
<1>6. CASE NextAccount(k)
  <2>1. /\ kill'[k].pc \in {"sweep", "done"} /\ kill'[k].todo = {}
        /\ kill'[k].toSweep = kill[k].toSweep /\ kill'[k].targets = kill[k].targets
        /\ kill'[k].toHalt = kill[k].toHalt /\ kill'[k].swept = kill[k].swept
        /\ kill'[k].failed = kill[k].failed /\ kill'[k].inflight = kill[k].inflight
    BY <1>0, <1>6, NextAccountIs
  <2>2. kill[k].pc = "cancel" /\ kill[k].todo = {} /\ UNCHANGED <<req, wire, book, halt>>
    BY <1>6 DEF NextAccount
  <2> QED
    BY <1>0, <2>1, <2>2 DEF Covered, Flying
<1> QED
  BY <1>1, <1>2, <1>3, <1>4, <1>5, <1>6 DEF KillStep

LEMMA StepKill == KillInv /\ [Next]_vars => KillInv'
<1> SUFFICES ASSUME KillInv, [Next]_vars, NEW k \in Killer PROVE Covered(k)'
  BY StepPath DEF KillInv
<1>0. PathInv /\ TypeOK /\ Covered(k)
  BY DEF KillInv, PathInv
<1>1. CASE UNCHANGED vars
  BY <1>0, <1>1 DEF Covered, Flying, Acct, vars
<1>2. CASE \E r \in Request : PlaceStep(r)
  <2>1. Quiet /\ kill' = kill
    BY <1>0, <1>2, PlaceQuiet DEF PlaceStep, Submit, ReadMode, Validate, Refuse, Dispatch,
       RecordSimulated, Post, Answer, Timeout, ReadFigure, SetRealizedPnl
  <2> QED
    BY <1>0, <2>1, CoveredFrame
<1>3. CASE \/ \E a \in Account, m \in {"PAPER", "LIVE"} : Connect(a, m) \/ SetMode(a, m)
           \/ \E r \in Request : Book(r) \/ \E loss \in BOOLEAN : Fill(r, loss)
           \/ \E d \in Desk : DeskStep(d)
  BY <1>0, <1>3, OtherQuiet, CoveredFrame
<1>4. CASE \E j \in Killer : KillStep(j) \/ \E T \in SUBSET Account : Press(j, T)
  <2>1. PICK j \in Killer : KillStep(j) \/ \E T \in SUBSET Account : Press(j, T)
    BY <1>4
  <2>2. CASE j = k
    BY <2>1, <2>2, KillCovered
  <2>3. CASE j # k
    <3>1. kill'[k] = kill[k]
      BY <1>0, <2>1, <2>3, PressIs, HaltIs, SweptIs, ReadBookIs, CancelNextIs, NextAccountIs
         DEF KillStep
    <3> QED
      BY <1>0, <2>1, <3>1, KillQuiet, CoveredFrame
  <2> QED
    BY <2>2, <2>3
<1>5. CASE Restart
  <2>1. kill'[k] = NoKill
    BY <1>5 DEF Restart
  <2>2. /\ kill'[k].pc = "idle" /\ kill'[k].targets = {} /\ kill'[k].toHalt = {}
        /\ kill'[k].toSweep = {} /\ kill'[k].todo = {} /\ kill'[k].swept = {}
    BY <2>1 DEF NoKill
  <2> QED
    BY <2>2 DEF Covered
<1> QED
  BY <1>1, <1>2, <1>3, <1>4, <1>5 DEF Next

LEMMA InitKill == Init => KillInv
<1> SUFFICES ASSUME Init, NEW k \in Killer PROVE Covered(k)
  BY InitPath DEF KillInv
<1>1. /\ kill[k].pc = "idle" /\ kill[k].targets = {} /\ kill[k].toHalt = {}
      /\ kill[k].toSweep = {} /\ kill[k].todo = {} /\ kill[k].swept = {}
  BY DEF Init, NoKill
<1> QED
  BY <1>1 DEF Covered

-----------------------------------------------------------------------------
(* What a halted account calls after: LateInv                              *)

\* One order, seen from the halts.
Held(r) ==
  late[r] => /\ Acct(r) \in pressed
             /\ req[r].pc \in {"mode", "validate", "done"}
             /\ wire[r] = 0 /\ bookings[r] = 0

LEMMA ShutIs ==
  /\ Shut <=> (restarts = 0 => (\A a \in pressed : halt[a] = "all") /\ \A r \in Request : Held(r))
  /\ Shut' <=> (restarts' = 0 => (\A a \in pressed' : halt'[a] = "all") /\ \A r \in Request : Held(r)')
  BY DEF Shut, Held

LEMMA PlaceLate ==
  ASSUME LateInv, restarts = 0, NEW r \in Request, PlaceStep(r)
  PROVE  \A q \in Request : Held(q)'
<1> USE DEF process, records, choice, history
<1>0. /\ TypeOK /\ Plain /\ req[r] \in Calls /\ Sent(r) /\ Acct(r) \in Account
      /\ (\A a \in pressed : halt[a] = "all") /\ \A q \in Request : Held(q)
  BY TypesAre, AcctType, ShutIs DEF LateInv, PathInv
<1>1. UNCHANGED <<pressed, bookings>>
  BY DEF PlaceStep, Submit, ReadMode, Validate, Refuse, Dispatch, RecordSimulated, Post, Answer,
         Timeout, ReadFigure, SetRealizedPnl
<1>2. ASSUME NEW q \in Request \ {r} PROVE Held(q)'
  <2>1. req'[q] = req[q]
    BY <1>0, GotoIs, ReadModeIs, ReadFigureIs DEF PlaceStep, Submit, Validate, Refuse, Dispatch,
       RecordSimulated, Post, Answer, Timeout, SetRealizedPnl, RecordRejected, Running
  <2>2. wire'[q] = wire[q] /\ late'[q] = late[q]
    BY <1>0 DEF PlaceStep, Submit, ReadMode, Validate, Refuse, Dispatch, RecordSimulated, Post,
       Answer, Timeout, ReadFigure, SetRealizedPnl, Plain
  <2> QED
    BY <1>0, <1>1, <2>1, <2>2 DEF Held, Acct
<1>3. Held(r)'
  <2>1. CASE Submit(r)
    <3>1. /\ req[r].pc = "new" /\ req'[r].pc = "mode" /\ UNCHANGED wire
          /\ late'[r] = (Acct(r) \in pressed)
      BY <1>0, <2>1, GotoIs DEF Submit, At, Running, Plain
    <3>2. wire[r] = 0 /\ bookings[r] = 0
      BY <1>0, <3>1 DEF Sent, Unsent
    <3> QED
      BY <1>1, <3>1, <3>2 DEF Held, Acct
  <2>2. CASE ReadMode(r)
    <3>1. req'[r].pc = "validate" /\ UNCHANGED <<wire, late>>
      BY <1>0, <2>2, ReadModeIs DEF ReadMode
    <3> QED
      BY <1>0, <1>1, <3>1 DEF Held, Acct
  <2>3. CASE Validate(r) \/ Refuse(r)
    <3>0. UNCHANGED <<wire, late>>
      BY <2>3 DEF Validate, Refuse
    <3>1. CASE RecordRejected(r)
      <4>1. req'[r].pc = "done"
        BY <1>0, <3>1, GotoIs DEF RecordRejected
      <4> QED
        BY <1>0, <1>1, <3>0, <4>1 DEF Held, Acct
    <3>2. CASE ~Blocked(Acct(r), req[r].asPaper)
      <4>1. ~late[r]
        BY <1>0, <3>2 DEF Held, Blocked
      <4> QED
        BY <3>0, <4>1 DEF Held
    <3> QED
      BY <2>3, <3>1, <3>2 DEF Validate, Refuse
  <2>4. CASE \/ Dispatch(r) \/ RecordSimulated(r) \/ Post(r) \/ Answer(r) \/ Timeout(r)
             \/ ReadFigure(r) \/ SetRealizedPnl(r)
    <3>1. /\ req[r].pc \in {"dispatch", "simulated", "post", "await", "refresh", "setPnl"}
          /\ UNCHANGED late
      BY <2>4 DEF Dispatch, RecordSimulated, Post, Answer, Timeout, ReadFigure, SetRealizedPnl, At
    <3>2. ~late[r]
      BY <1>0, <3>1 DEF Held
    <3> QED
      BY <3>1, <3>2 DEF Held
  <2> QED
    BY <2>1, <2>2, <2>3, <2>4 DEF PlaceStep
<1> QED
  BY <1>2, <1>3

LEMMA StepLate == LateInv /\ [Next]_vars => LateInv'
<1> SUFFICES ASSUME LateInv, [Next]_vars, restarts' = 0
             PROVE  (\A a \in pressed' : halt'[a] = "all") /\ \A r \in Request : Held(r)'
  BY StepPath, ShutIs DEF LateInv
<1> USE DEF process, records, choice, history
<1>0. /\ PathInv /\ TypeOK /\ Plain /\ \A r \in Request : Acct(r) \in Account
  BY TypesAre, AcctType DEF LateInv, PathInv
<1>1. restarts = 0 /\ ~Restart
  <2>1. CASE Restart
    BY <1>0, <2>1 DEF Restart, Plain
  <2>2. CASE ~Restart
    <3>1. restarts' = restarts
      <4>1. CASE \E r \in Request : PlaceStep(r)
        BY <4>1 DEF PlaceStep, Submit, ReadMode, Validate, Refuse, Dispatch, RecordSimulated, Post,
           Answer, Timeout, ReadFigure, SetRealizedPnl
      <4>2. CASE \E k \in Killer : KillStep(k) \/ \E T \in SUBSET Account : Press(k, T)
        <5>1. PICK k \in Killer : KillStep(k) \/ \E T \in SUBSET Account : Press(k, T)
          BY <4>2
        <5> QED
          BY <5>1
             DEF Press, KillStep, Halt, SkipAccount, SweepPaper, ReadBook, CancelNext, NextAccount
      <4>3. CASE \E d \in Desk : DeskStep(d)
        BY <4>3 DEF DeskStep, CheckAmend, SendAmend, FindOpen, SendCancel, RecordDesk
      <4>4. CASE \/ \E a \in Account, m \in {"PAPER", "LIVE"} : Connect(a, m) \/ SetMode(a, m)
                 \/ \E r \in Request : Book(r) \/ \E loss \in BOOLEAN : Fill(r, loss)
                 \/ UNCHANGED vars
        BY <4>4 DEF Connect, SetMode, Book, Fill, vars
      <4> QED
        BY <2>2, <4>1, <4>2, <4>3, <4>4 DEF Next
    <3> QED
      BY <2>2, <3>1
  <2> QED
    BY <2>1, <2>2
<1>2. (\A a \in pressed : halt[a] = "all") /\ \A r \in Request : Held(r)
  BY <1>1, ShutIs DEF LateInv
<1>3. ASSUME UNCHANGED <<pressed, late, bookings, wire>>, Quiet,
             \A r \in Request : req'[r].pc = req[r].pc
      PROVE  (\A a \in pressed' : halt'[a] = "all") /\ \A r \in Request : Held(r)'
  BY <1>0, <1>2, <1>3 DEF Quiet, Held, Acct, Plain
<1>4. CASE UNCHANGED vars
  BY <1>2, <1>4 DEF vars, Held, Acct
<1>5. CASE \E r \in Request : PlaceStep(r)
  <2>1. PICK r \in Request : PlaceStep(r)
    BY <1>5
  <2>2. Quiet /\ pressed' = pressed
    BY <1>0, <2>1, PlaceQuiet DEF PlaceStep, Submit, ReadMode, Validate, Refuse, Dispatch,
       RecordSimulated, Post, Answer, Timeout, ReadFigure, SetRealizedPnl
  <2> QED
    BY <1>0, <1>1, <1>2, <2>1, <2>2, PlaceLate DEF Quiet, Plain
<1>6. CASE \E a \in Account, m \in {"PAPER", "LIVE"} : Connect(a, m) \/ SetMode(a, m)
  <2>1. UNCHANGED <<pressed, late, bookings, wire>> /\ \A r \in Request : req'[r].pc = req[r].pc
    BY <1>0, <1>6, SetModeIs DEF Connect, SetMode
  <2> QED
    BY <1>0, <1>3, <1>6, <2>1, OtherQuiet
<1>7. CASE \E r \in Request : Book(r)
  <2>1. PICK r \in Request : Book(r)
    BY <1>7
  <2>2. UNCHANGED <<pressed, late, halt, req>> /\ wire[r] > 0
    BY <2>1 DEF Book
  <2>3. \A q \in Request \ {r} : wire'[q] = wire[q] /\ bookings'[q] = bookings[q]
    BY <1>0, <2>1 DEF Book, Plain
  <2>4. ~late[r]
    BY <1>2, <2>2 DEF Held
  <2> QED
    BY <1>2, <2>2, <2>3, <2>4 DEF Held, Acct
<1>8. CASE \E r \in Request, loss \in BOOLEAN : Fill(r, loss)
  <2>1. UNCHANGED <<pressed, late, bookings, wire, req>>
    BY <1>8 DEF Fill
  <2> QED
    BY <1>0, <1>3, <1>8, <2>1, OtherQuiet
<1>9. CASE \E k \in Killer : KillStep(k) \/ \E T \in SUBSET Account : Press(k, T)
  <2>0. PICK k \in Killer : KillStep(k) \/ \E T \in SUBSET Account : Press(k, T)
    BY <1>9
  <2>1. UNCHANGED <<late, bookings, wire, req>> /\ Quiet
    BY <1>0, <2>0, KillQuiet
       DEF KillStep, Press, Halt, SkipAccount, SweepPaper, ReadBook, CancelNext, NextAccount
  <2>2. pressed' = pressed \/ \E a \in Account : Halt(k, a)
    BY <2>0 DEF KillStep, Press, SkipAccount, SweepPaper, ReadBook, CancelNext, NextAccount
  <2>3. CASE pressed' = pressed
    BY <1>3, <2>1, <2>3
  <2>4. CASE \E a \in Account : Halt(k, a)
    <3>1. PICK a \in Account : Halt(k, a)
      BY <2>4
    <3>2. pressed' = pressed \cup {a} /\ halt'[a] = "all"
      BY <1>0, <3>1 DEF Halt, Plain
    <3> QED
      BY <1>0, <1>2, <2>1, <3>2 DEF Quiet, Held, Acct, Plain
  <2> QED
    BY <2>2, <2>3, <2>4
<1>10. CASE \E d \in Desk : DeskStep(d)
  <2>1. PICK d \in Desk : DeskStep(d)
    BY <1>10
  <2>2. UNCHANGED <<pressed, late, bookings, wire, req>>
    BY <2>1 DEF DeskStep, CheckAmend, SendAmend, FindOpen, SendCancel, RecordDesk
  <2> QED
    BY <1>0, <1>3, <1>10, <2>2, OtherQuiet
<1> QED
  BY <1>1, <1>4, <1>5, <1>6, <1>7, <1>8, <1>9, <1>10 DEF Next

LEMMA InitLate == Init => LateInv
<1> SUFFICES ASSUME Init PROVE Shut
  BY InitPath DEF LateInv
<1> QED
  BY DEF Init, Shut

-----------------------------------------------------------------------------
(* The theorems                                                            *)

(* Every thread, row and figure keeps its type, and every record of a kill *)
(* switch names accounts and orders that exist.                            *)
THEOREM PathTypes == Spec => []TypeOK
  BY InitTypes, StepTypes, PTL DEF Spec

LEMMA PathAlways == Spec => []PathInv
  BY InitPath, StepPath, PTL DEF Spec

(* place_order posts once: whatever is lost, late, restarted or answered,  *)
(* Choice books an order at most once.                                     *)
THEOREM PathBooksOnce == Spec => []BookedOnce
<1>1. PathInv => BookedOnce
  <2> SUFFICES ASSUME PathInv, NEW r \in Request PROVE bookings[r] <= 1
    BY DEF BookedOnce
  <2>1. Sent(r) /\ wire[r] \in Nat /\ bookings[r] \in Nat
    BY DEF PathInv, TypeOK
  <2> QED
    BY <2>1 DEF Sent
<1> QED
  BY <1>1, PathAlways, PTL

(* The row is committed before the order leaves, so each order Choice has  *)
(* can be found by a reconciliation, after any restart.                    *)
THEOREM PathKeepsRows == Spec => []EveryBookingHasARow
<1>1. PathInv => EveryBookingHasARow
  <2> SUFFICES ASSUME PathInv, NEW r \in Request, bookings[r] > 0
               PROVE  row[r] \notin {"none", "SIMULATED"}
    BY DEF EveryBookingHasARow
  <2>1. Sent(r) /\ bookings[r] # 0
    BY DEF PathInv, TypeOK
  <2> QED
    BY <2>1 DEF Sent, Unsent
<1> QED
  BY <1>1, PathAlways, PTL

(* A row says accepted, modified, cancelled or simulated only of an order  *)
(* Choice took, amended, cancelled or never saw, whoever wrote it and      *)
(* whatever raced with it.                                                 *)
THEOREM PathRowsTrue == Spec => []RowsTellTheTruth
<1>1. PathInv => RowsTellTheTruth
  <2> SUFFICES ASSUME PathInv, NEW r \in Request
               PROVE  /\ row[r] = "ACCEPTED" => book[r] \in Booked
                      /\ row[r] = "MODIFIED" => amended[r]
                      /\ row[r] = "CANCELLED" => book[r] = "cancelled"
                      /\ row[r] = "SIMULATED" => bookings[r] = 0
    BY DEF RowsTellTheTruth
  <2>1. Sent(r) /\ bookings[r] \in Nat /\ book[r] \in Booked \cup {"absent"}
    BY DEF PathInv, TypeOK
  <2>2. row[r] = "ACCEPTED" => book[r] # "absent"
    BY <2>1 DEF Sent
  <2> QED
    BY <2>1, <2>2 DEF Sent
<1> QED
  BY <1>1, PathAlways, PTL

(* The mode is read before the network call and again after it: an order   *)
(* under which it was not switched is measured and sent by the same mode.  *)
THEOREM PathSteady == Spec => []SteadyOrders
<1>1. ModeInv => SteadyOrders
  <2> SUFFICES ASSUME ModeInv, NEW r \in Request, req[r].steady
               PROVE  /\ wire[r] + bookings[r] > 0 => ~req[r].asPaper /\ sim[r] = "none"
                      /\ sim[r] # "none" => req[r].asPaper
    BY DEF SteadyOrders
  <2>1. Measured(r)
    BY DEF ModeInv
  <2> QED
    BY <2>1 DEF Measured
<1>2. Spec => []ModeInv
  BY InitMode, StepMode, PTL DEF Spec
<1> QED
  BY <1>1, <1>2, PTL

LEMMA KillAlways == Spec => []KillInv
  BY InitKill, StepKill, PTL DEF Spec

(* No working order of a swept account is forgotten by the kill switch:    *)
(* it failed to cancel it, or the order was past the check before the halt.*)
THEOREM PathKillCovers == Spec => []KillSwitchCovers
<1>1. KillInv => KillSwitchCovers
  <2> SUFFICES ASSUME KillInv, NEW k \in Killer, kill[k].pc = "done", NEW r \in Request,
                      Acct(r) \in kill[k].swept, book[r] = "working"
               PROVE  r \in kill[k].failed \cup kill[k].inflight
    BY DEF KillSwitchCovers
  <2>1. Covered(k)
    BY DEF KillInv
  <2>2. kill[k].todo = {}
    BY <2>1 DEF Covered
  <2>3. r \in kill[k].failed \cup kill[k].inflight \cup kill[k].todo
    BY <2>1 DEF Covered
  <2> QED
    BY <2>2, <2>3
<1> QED
  BY <1>1, KillAlways, PTL

(* Every account of the tenant is halted before the first of them is swept.*)
THEOREM PathDeskHalted == Spec => []WholeDeskHalted
<1>1. KillInv => WholeDeskHalted
  <2> SUFFICES ASSUME KillInv, NEW k \in Killer, kill[k].pc \in {"sweep", "cancel", "done"},
                      NEW a \in kill[k].targets
               PROVE  halt[a] = "all"
    BY DEF WholeDeskHalted
  <2>1. Covered(k)
    BY DEF KillInv
  <2>2. a \in kill[k].targets \ kill[k].toHalt
    BY <2>1 DEF Covered
  <2> QED
    BY <2>1, <2>2 DEF Covered
<1> QED
  BY <1>1, KillAlways, PTL

(* Until the process restarts (the halt is kept in memory), what is called *)
(* after a kill switch never reaches Choice.                               *)
THEOREM PathStaysKilled == Spec => [](restarts = 0 => KilledStaysKilled)
<1>1. LateInv => (restarts = 0 => KilledStaysKilled)
  BY ShutIs DEF LateInv, Held, KilledStaysKilled
<1>2. Spec => []LateInv
  BY InitLate, StepLate, PTL DEF Spec
<1> QED
  BY <1>1, <1>2, PTL
=============================================================================
