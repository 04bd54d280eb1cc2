--------------------------- MODULE ChoiceSession ---------------------------
(***************************************************************************)
(* A user's connection to Choice: engine/app/choice_gateway/               *)
(* client_manager.py (ChoiceSession and its registry), session_store.py    *)
(* (the file of remembered sessions) and the handlers of                   *)
(* backend/app/services/auth_service.py that connect, switch, restore and  *)
(* disconnect.                                                             *)
(*                                                                         *)
(* A handler runs in a thread of its own and holds no lock.  A step of the *)
(* model ends where the handler calls Choice or touches the file; between  *)
(* two such calls a handler is taken to run in one go.  The file is read   *)
(* whole, changed in memory and rewritten: opening it for writing empties  *)
(* it, and an empty file reads as a store without records.                 *)
(***************************************************************************)
EXTENDS Integers, FiniteSets

CONSTANTS
  User,        \* platform users
  Thread,      \* threads that serve requests
  Object,      \* memory for ChoiceSession objects, reused once unreachable
  Overlapping, \* users with several requests at a time
  Bystander    \* bound of the model: users who only connect, in PAPER mode,
               \* and disconnect

ASSUME ChoiceSessionAssumption ==
  /\ Overlapping \subseteq User /\ Bystander \subseteq User
  /\ "no" \notin Object \cup User

VARIABLES
  sessions,    \* the registry: sessions[u], "no" without an entry
  object,      \* the ChoiceSession objects
  file,        \* sessions.json: file[u], NoRecord without an entry
  req,         \* req[t]: the request thread t serves
  wish,        \* history: the last instruction of u that was carried out
  orderly      \* history: no two updates of the file have overlapped, and
               \* none has failed or been cut off by a restart

vars == <<sessions, object, file, req, wish, orderly>>
history == <<wish, orderly>>

NoRecord == [mode |-> "no", aged |-> FALSE]
Record == [mode : {"PAPER", "LIVE"}, aged : BOOLEAN] \cup {NoRecord}
NoStore == [u \in User |-> NoRecord]

(* A ChoiceSession: its session id is none, the sandbox's or one of Choice; *)
(* sends: its HTTP client exists and sends that id; tried: Choice has       *)
(* accepted that id in this process (history).                              *)
Fresh == [mode |-> "DISCONNECTED", sid |-> "no", client |-> FALSE,
          sends |-> FALSE, tried |-> FALSE, remember |-> FALSE]

(* A request: whom it serves, the object it was given, what it asked for,   *)
(* whether the HTTP client it works with is still the one of the object,    *)
(* the record it saves or loaded, the copy of the file it is changing, and  *)
(* where it goes on after that change.                                      *)
Idle == [pc |-> "idle", user |-> "no", obj |-> "no", asked |-> "PAPER",
         remember |-> FALSE, mine |-> FALSE, record |-> NoRecord,
         copy |-> NoStore, then |-> "idle"]

TypeOK ==
  /\ sessions \in [User -> Object \cup {"no"}]
  /\ object \in [Object -> [mode : {"DISCONNECTED", "DEMO", "PAPER", "LIVE"},
                            sid : {"no", "demo", "choice"}, client : BOOLEAN,
                            sends : BOOLEAN, tried : BOOLEAN,
                            remember : BOOLEAN]]
  /\ file \in [User -> Record]
  /\ req \in [Thread ->
       [pc : {"idle", "login", "otp", "save", "clear", "open", "write",
              "drop", "load", "restore", "verify", "discard"},
        user : User \cup {"no"}, obj : Object \cup {"no"},
        asked : {"PAPER", "LIVE"}, remember : BOOLEAN, mine : BOOLEAN,
        record : Record, copy : [User -> Record],
        then : {"idle", "drop", "discard"}]]
  /\ wish \in [User -> {"none", "DEMO", "PAPER", "LIVE"}]
  /\ orderly \in BOOLEAN

Init ==
  /\ sessions = [u \in User |-> "no"]
  /\ object = [o \in Object |-> Fresh]
  /\ file = NoStore
  /\ req = [t \in Thread |-> Idle]
  /\ wish = [u \in User |-> "none"] /\ orderly = TRUE

-----------------------------------------------------------------------------
(* The session object.                                                      *)

IsConnected(s) == s.mode = "DEMO" \/ (s.mode \in {"PAPER", "LIVE"} /\ s.sid # "no")
Session(u) == object[sessions[u]]
Connected(u) == sessions[u] # "no" /\ IsConnected(Session(u))

Build(s) == [s EXCEPT !.client = TRUE, !.sends = TRUE]
NoClient(s) == [s EXCEPT !.client = FALSE, !.sends = FALSE]
NoId(s) == [s EXCEPT !.sid = "no", !.tried = FALSE]

\* What persist() writes for the session: NoRecord means clear().
Persisted(s) == IF s.remember /\ s.sid # "no"
                THEN [mode |-> s.mode, aged |-> FALSE]
                ELSE NoRecord

\* get_or_create: the registered object, or memory nothing refers to.
Entry(u) ==
  IF sessions[u] # "no" THEN {sessions[u]}
  ELSE {o \in Object : /\ \A v \in User : sessions[v] # o
                       /\ \A t \in Thread : req[t].obj # o}
Found(u, o) == IF sessions[u] = "no" THEN Fresh ELSE object[o]
Registered(u, o, s) == /\ sessions' = [sessions EXCEPT ![u] = o]
                       /\ object' = [object EXCEPT ![o] = s]

\* An object nothing refers to after the step is memory again.
Kept(os) ==
  [o \in Object |-> IF \/ \E u \in User : sessions'[u] = o
                       \/ \E t \in Thread : req'[t].obj = o
                    THEN os[o] ELSE Fresh]
Released == sessions' = sessions /\ object' = Kept(object)

\* The object gets another client: what the other requests hold is not its.
NewClient(o, t, r) ==
  req' = [x \in Thread |-> IF x = t THEN r
                           ELSE IF req[x].obj = o
                                THEN [req[x] EXCEPT !.mine = FALSE] ELSE req[x]]

Continue(t, r) == req' = [req EXCEPT ![t] = r]
Request(u, o, pc) == [Idle EXCEPT !.user = u, !.obj = o, !.pc = pc]
\* The request goes on to write or clear the record of its session.
Persisting(r, s) ==
  [r EXCEPT !.record = Persisted(s),
            !.pc = IF Persisted(s) = NoRecord THEN "clear" ELSE "save"]

Arrive(t, u) ==
  /\ req[t].pc = "idle"
  /\ u \in Overlapping \/ \A x \in Thread : req[x].user # u

Obeyed(u, w) == wish' = [wish EXCEPT ![u] = w]

-----------------------------------------------------------------------------
(* POST /choice/connect.                                                    *)

StartDemo(t, u) ==
  /\ Arrive(t, u)
  /\ \E o \in Entry(u) :
       /\ Registered(u, o, [NoClient(Found(u, o)) EXCEPT
            !.mode = "DEMO", !.sid = "demo", !.tried = FALSE])
       /\ NewClient(o, t, Idle)
  /\ Obeyed(u, "DEMO")
  /\ UNCHANGED <<file, orderly>>

Connect(t, u) ==
  /\ Arrive(t, u)
  /\ \E o \in Entry(u), m \in {"PAPER", "LIVE"}, r \in BOOLEAN :
       /\ u \in Bystander => m = "PAPER"
       /\ Registered(u, o, Build(NoId(Found(u, o))))
       /\ NewClient(o, t, [Request(u, o, "login") EXCEPT
            !.asked = m, !.remember = r, !.mine = TRUE])
  /\ UNCHANGED <<file, wish, orderly>>

\* The session takes a new id; the client that asked for it sends it.
SignedIn(t, m) == [object[req[t].obj] EXCEPT
  !.sid = "choice", !.tried = TRUE, !.mode = m, !.sends = req[t].mine]

LoginSucceeds(t) ==
  /\ req[t].pc = "login"
  /\ LET o == [SignedIn(t, req[t].asked) EXCEPT !.remember = req[t].remember]
     IN  /\ object' = [object EXCEPT ![req[t].obj] = o]
         /\ Continue(t, Persisting(req[t], o))
  /\ Obeyed(req[t].user, req[t].asked)
  /\ UNCHANGED <<sessions, file, orderly>>

LoginFails(t) ==
  /\ req[t].pc = "login"
  /\ UNCHANGED sessions
  /\ Continue(t, Idle)
  /\ object' = Kept([object EXCEPT ![req[t].obj].mode = "DISCONNECTED"])
  /\ UNCHANGED <<file, history>>

-----------------------------------------------------------------------------
(* The OTP in two requests, and the partner's OAuth callback.               *)

RequestOtp(t, u) ==
  /\ Arrive(t, u)
  /\ \E o \in Entry(u) : /\ Registered(u, o, Build(Found(u, o)))
                         /\ NewClient(o, t, Idle)
  /\ UNCHANGED <<file, wish, orderly>>

SendOtp(t, u) ==
  /\ Arrive(t, u)
  /\ \E o \in Entry(u) :
       LET r == [Request(u, o, "otp") EXCEPT !.mine = TRUE]
       IN  IF Found(u, o).client
           THEN Registered(u, o, object[o]) /\ Continue(t, r)
           ELSE Registered(u, o, Build(Found(u, o))) /\ NewClient(o, t, r)
  /\ UNCHANGED <<file, wish, orderly>>

OtpAccepted(t) ==
  /\ req[t].pc = "otp"
  /\ Continue(t, Idle) /\ UNCHANGED sessions
  /\ object' = Kept([object EXCEPT ![req[t].obj] = SignedIn(t, "LIVE")])
  /\ Obeyed(req[t].user, "LIVE")
  /\ UNCHANGED <<file, orderly>>

\* Refused, answered without an id, or not answered.
OtpFails(t) ==
  /\ req[t].pc = "otp"
  /\ Continue(t, Idle) /\ UNCHANGED sessions
  /\ LET o == object[req[t].obj]
     IN  \E a \in {o, [o EXCEPT !.mode = "DISCONNECTED"],
                   [NoId(o) EXCEPT !.mode = "DISCONNECTED", !.sends = FALSE]} :
           object' = Kept([object EXCEPT ![req[t].obj] = a])
  /\ UNCHANGED <<file, history>>

AttachPartnerSession(t, u) ==
  /\ Arrive(t, u)
  /\ \E o \in Entry(u) :
       /\ Registered(u, o, Build([Found(u, o) EXCEPT
            !.sid = "choice", !.tried = TRUE, !.mode = "LIVE"]))
       /\ NewClient(o, t, Idle)
  /\ Obeyed(u, "LIVE")
  /\ UNCHANGED <<file, orderly>>

-----------------------------------------------------------------------------
(* POST /choice/mode and /choice/disconnect.                                *)

\* Mutant: the mode changes in memory only.
SetMode_memoryOnly(t, u) ==
  /\ Arrive(t, u)
  /\ Connected(u) /\ Session(u).mode # "DEMO"
  /\ \E m \in {"PAPER", "LIVE"} \ {Session(u).mode} :
       /\ object' = [object EXCEPT ![sessions[u]].mode = m]
       /\ Obeyed(u, m)
  /\ UNCHANGED <<sessions, file, req, orderly>>

\* To LIVE the request must carry the confirmation; without it, nothing.
SetMode(t, u) ==
  /\ Arrive(t, u)
  /\ Connected(u) /\ Session(u).mode # "DEMO"
  /\ \E m \in {"PAPER", "LIVE"} \ {Session(u).mode} :
       LET s == [Session(u) EXCEPT !.mode = m]
       IN  /\ object' = [object EXCEPT ![sessions[u]] = s]
           /\ Continue(t, Persisting(Request(u, sessions[u], "save"), s))
           /\ Obeyed(u, m)
  /\ UNCHANGED <<sessions, file, orderly>>

\* Mutant: the stored record is left alone.
Disconnect_registryOnly(t, u) ==
  /\ Arrive(t, u)
  /\ Continue(t, Request(u, sessions[u], "drop"))
  /\ UNCHANGED <<sessions, object, file, wish, orderly>>

Disconnect(t, u) ==
  /\ Arrive(t, u)
  /\ Continue(t, [Request(u, sessions[u], "clear") EXCEPT !.then = "drop"])
  /\ UNCHANGED <<sessions, object, file, wish, orderly>>

Drop(t) ==
  /\ req[t].pc = "drop"
  /\ sessions' = [sessions EXCEPT ![req[t].user] = "no"]
  /\ Continue(t, Idle)
  /\ object' = Kept([o \in Object |-> IF o = req[t].obj
                      THEN [object[o] EXCEPT !.remember = FALSE] ELSE object[o]])
  /\ Obeyed(req[t].user, "none")
  /\ UNCHANGED <<file, orderly>>

-----------------------------------------------------------------------------
(* GET /choice/status of a user who is not connected: load, restore, verify *)
(* with one call, and discard what Choice no longer accepts.                *)

Status(t, u) ==
  /\ Arrive(t, u)
  /\ ~Connected(u)
  /\ Continue(t, Request(u, "no", "load"))
  /\ UNCHANGED <<sessions, object, file, wish, orderly>>

Load(t) ==
  /\ req[t].pc = "load"
  /\ LET r == file[req[t].user]
     IN  Continue(t, IF r = NoRecord THEN Idle
                     ELSE IF r.aged THEN [req[t] EXCEPT !.pc = "clear"]
                     ELSE [req[t] EXCEPT !.pc = "restore", !.record = r])
  /\ UNCHANGED <<sessions, object, file, history>>

Restore(t) ==
  /\ req[t].pc = "restore"
  /\ LET u == req[t].user
         r == req[t].record
     IN  \E o \in Entry(u) :
           /\ Registered(u, o, Build([Found(u, o) EXCEPT
                !.sid = "choice", !.tried = FALSE,
                !.mode = IF r.mode = "LIVE" THEN "LIVE" ELSE "PAPER"]))
           /\ NewClient(o, t, [req[t] EXCEPT !.pc = "verify", !.obj = o])
  /\ UNCHANGED <<file, history>>

\* The call goes through the client the object has by now.
Verified(t) ==
  LET o == object[req[t].obj]
  IN  /\ req[t].pc = "verify"
      /\ o.client
      /\ Continue(t, Idle) /\ UNCHANGED sessions
      /\ object' = Kept([object EXCEPT
           ![req[t].obj].remember = TRUE, ![req[t].obj].tried = @ \/ o.sends])
      /\ UNCHANGED <<file, wish, orderly>>

\* Mutant: a failed check is logged and the session kept.
NotVerified_kept(t) ==
  /\ req[t].pc = "verify"
  /\ Continue(t, Idle)
  /\ UNCHANGED <<sessions, object, file, history>>

\* Choice refuses the id or cannot be reached.
NotVerified(t) ==
  /\ req[t].pc = "verify"
  /\ Continue(t, [req[t] EXCEPT !.pc = "clear", !.then = "discard"])
  /\ UNCHANGED <<sessions, object, file, history>>

Discard(t) ==
  /\ req[t].pc = "discard"
  /\ NewClient(req[t].obj, t, Idle) /\ UNCHANGED sessions
  /\ object' = Kept([object EXCEPT ![req[t].obj] =
       [NoClient(NoId(@)) EXCEPT !.mode = "DISCONNECTED"]])
  /\ UNCHANGED <<file, history>>

-----------------------------------------------------------------------------
(* session_store.save and clear: read the whole file, change one record,    *)
(* open it for writing, write.                                              *)

Onward(r) == IF r.then = "idle" THEN Idle ELSE [r EXCEPT !.pc = r.then, !.copy = NoStore]

Updating(t) == req[t].pc \in {"open", "write"}

\* Mutant: the other users' records are not read back.
ReadFile_ownRecord(t) ==
  LET r == req[t]
      u == r.user
  IN  /\ r.pc \in {"save", "clear"}
      /\ IF r.pc = "clear" /\ file[u] = NoRecord
         THEN Continue(t, Onward(r))
         ELSE Continue(t, [r EXCEPT !.pc = "open",
                !.copy = [NoStore EXCEPT ![u] = IF r.pc = "save" THEN r.record
                                             ELSE NoRecord]])
      /\ orderly' = (orderly /\ \A x \in Thread \ {t} : ~Updating(x))
      /\ Released
      /\ UNCHANGED <<file, wish>>

ReadFile(t) ==
  LET r == req[t]
      u == r.user
  IN  /\ r.pc \in {"save", "clear"}
      /\ IF r.pc = "clear" /\ file[u] = NoRecord
         THEN Continue(t, Onward(r))
         ELSE Continue(t, [r EXCEPT !.pc = "open",
                !.copy = [file EXCEPT ![u] = IF r.pc = "save" THEN r.record
                                             ELSE NoRecord]])
      /\ orderly' = (orderly /\ \A x \in Thread \ {t} : ~Updating(x))
      /\ Released
      /\ UNCHANGED <<file, wish>>

OpenFile(t) ==
  /\ req[t].pc = "open"
  /\ file' = NoStore
  /\ Continue(t, [req[t] EXCEPT !.pc = "write"])
  /\ UNCHANGED <<sessions, object, history>>

WriteFile(t) ==
  /\ req[t].pc = "write"
  /\ file' = req[t].copy
  /\ Continue(t, Onward(req[t])) /\ Released
  /\ UNCHANGED history

\* No key or no file to write: logged, and the request goes on.
StoreFails(t) ==
  /\ req[t].pc \in {"save", "open"}
  /\ Continue(t, Onward(req[t])) /\ Released
  /\ orderly' = FALSE
  /\ UNCHANGED <<file, wish>>

-----------------------------------------------------------------------------
(* Time, Choice and the process.                                            *)

\* Eight hours after a record was saved.
Age(u) ==
  /\ file[u] # NoRecord /\ ~file[u].aged
  /\ \A t \in Thread : req[t].pc = "idle"
  /\ file' = [file EXCEPT ![u].aged = TRUE]
  /\ UNCHANGED <<sessions, object, req, history>>

\* Eight hours after a session was last used, which is no earlier than its
\* record was saved.
Purge(u) ==
  /\ sessions[u] # "no" /\ (file[u] = NoRecord \/ file[u].aged)
  /\ \A t \in Thread : req[t].user # u
  /\ sessions' = [sessions EXCEPT ![u] = "no"] /\ UNCHANGED req
  /\ object' = Kept(object)
  /\ UNCHANGED <<file, history>>

Restart ==
  /\ sessions' = [u \in User |-> "no"]
  /\ object' = [o \in Object |-> Fresh]
  /\ req' = [t \in Thread |-> Idle]
  /\ orderly' = (orderly /\ \A t \in Thread :
                   ~Updating(t) /\ req[t].pc \notin {"save", "clear"})
  /\ UNCHANGED <<file, wish>>

Handler(t) ==
  \/ LoginSucceeds(t) \/ LoginFails(t) \/ OtpAccepted(t) \/ OtpFails(t)
  \/ Drop(t) \/ Load(t) \/ Restore(t) \/ Verified(t) \/ NotVerified(t)
  \/ Discard(t) \/ ReadFile(t) \/ OpenFile(t) \/ WriteFile(t) \/ StoreFails(t)

Call(t, u) ==
  \/ Connect(t, u) \/ Disconnect(t, u)
  \/ /\ u \notin Bystander
     /\ \/ StartDemo(t, u) \/ RequestOtp(t, u) \/ SendOtp(t, u)
        \/ AttachPartnerSession(t, u) \/ SetMode(t, u) \/ Status(t, u)

Next ==
  \/ \E t \in Thread : Handler(t) \/ \E u \in User : Call(t, u)
  \/ \E u \in User : Age(u) \/ Purge(u)
  \/ Restart

Spec == Init /\ [][Next]_vars

-----------------------------------------------------------------------------
(* Properties of the code as it is when a user's requests come one at a     *)
(* time (Overlapping = {}).  The session has no lock: with the user in      *)
(* Overlapping TLC finds each of them broken.  A session is looked at when  *)
(* no request of its user runs.                                             *)

Settled(u) == \A t \in Thread : req[t].user # u

(* A user who last chose paper, or disconnected, is not put back into LIVE, *)
(* by no chain of restarts, restores, failed logins and expiries: set_mode  *)
(* and login_totp persist the mode, disconnect forgets the record           *)
(* (client_manager.py:299-307, auth_service.py:258-262).  It takes that the *)
(* file was updated by one request at a time, and never failed.             *)
NeverBackToLive ==
  \A u \in User :
    Settled(u) /\ orderly /\ Connected(u) /\ Session(u).mode = "LIVE"
      => wish[u] \in {"LIVE", "DEMO"}

(* A session that reports a broker connection has a client that sends the   *)
(* id it reports, and Choice has accepted that id in this process: the id   *)
(* of a restored record is tried before the request ends                    *)
(* (client_manager.py:673-680).  Other users' requests, lost updates of the *)
(* file and restarts in the middle of one do not break it.                  *)
UsableSession ==
  \A u \in User :
    Settled(u) /\ Connected(u) /\ Session(u).mode # "DEMO"
      => Session(u).client /\ Session(u).sends /\ Session(u).tried

(* After a disconnect nothing of the session is left, in memory or on disk, *)
(* for a later status request to bring back (auth_service.py:283-291).      *)
DisconnectForgets ==
  \A u \in User :
    Settled(u) /\ orderly /\ wish[u] = "none"
      => ~Connected(u) /\ file[u] = NoRecord

(* A PAPER session its user asked to keep is on disk, whatever other users  *)
(* save and clear in the same file (session_store.py:123-147, 174-178).     *)
RememberedIsStored ==
  \A u \in User :
    Settled(u) /\ orderly /\ Connected(u) /\ Session(u).remember
      /\ wish[u] = "PAPER" /\ ~(\E t \in Thread : Updating(t))
      => file[u] # NoRecord

(* "A sandbox session can never become live whatever is sent"               *)
(* (auth_service.py:224): a user who last chose the sandbox is not in LIVE. *)
(* start_demo does not touch the stored record, so after a restart a LIVE   *)
(* session remembered before it is restored.                                *)
SandboxNeverLive ==
  \A u \in User :
    Settled(u) /\ orderly /\ Connected(u) /\ Session(u).mode = "LIVE"
      => wish[u] # "DEMO"

=============================================================================
