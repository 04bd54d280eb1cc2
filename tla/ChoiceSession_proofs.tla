------------------------ MODULE ChoiceSession_proofs ------------------------
(***************************************************************************)
(* The sessions of ChoiceSession, for any users, threads and memory, when  *)
(* a user's requests come one at a time.  SessInv relates the request that *)
(* serves a user (AtWork) to the entry of the registry and the object it   *)
(* works on.  TrueInv relates both to the record the file will hold once   *)
(* the update in progress is through (Disk) and to what the user last      *)
(* asked for.                                                              *)
(***************************************************************************)
EXTENDS ChoiceSession, TLAPS

Objects == [mode : {"DISCONNECTED", "DEMO", "PAPER", "LIVE"},
            sid : {"no", "demo", "choice"}, client : BOOLEAN, sends : BOOLEAN,
            tried : BOOLEAN, remember : BOOLEAN]
Labels == {"idle", "login", "otp", "save", "clear", "open", "write", "drop",
           "load", "restore", "verify", "discard"}
Requests == [pc : Labels, user : User \cup {"no"}, obj : Object \cup {"no"},
             asked : {"PAPER", "LIVE"}, remember : BOOLEAN, mine : BOOLEAN,
             record : Record, copy : [User -> Record], then : {"idle", "drop", "discard"}]
Wishes == {"none", "DEMO", "PAPER", "LIVE"}

\* The request that serves user u; Idle when none does.
AtWork(u) == IF \E t \in Thread : req[t].user = u
             THEN req[CHOOSE t \in Thread : req[t].user = u] ELSE Idle

Alive(s, o) == s # "no" /\ IsConnected(o)
Usable(o) == IsConnected(o) /\ o.mode # "DEMO" => o.client /\ o.sends /\ o.tried

\* A request r whose user has the entry s, the object o and the wish w.  A
\* session that is not known to be usable is being verified or discarded.
Handled(r, s, o, w) ==
  /\ r.obj \in {"no", s}
  /\ r.pc # "idle" /\ r.obj = "no" => ~Alive(s, o)
  /\ r.pc \in {"login", "otp", "verify", "save", "discard"} => r.obj # "no"
  /\ r.then = "discard" => r.obj # "no"
  /\ r.pc \in {"load", "restore"} => r.obj = "no"
  /\ r.pc \in {"login", "otp"} => r.mine /\ o.client
  /\ r.pc = "login" => o.sends /\ o.sid = "no"
  /\ r.pc = "verify" => o.client /\ o.sends
  /\ r.pc \in {"login", "otp", "load", "restore", "verify", "save"} => r.then = "idle"
  /\ r.pc \in {"drop", "discard"} => r.then = r.pc
  /\ r.then = "drop" => r.obj = s
  /\ s # "no" /\ o.mode = "DEMO" => w = "DEMO"
  /\ s # "no" => Usable(o) \/ r.pc = "verify" \/ r.then = "discard"

\* One request serves a user, and one user has an object.
Single == \A t \in Thread :
  /\ req[t].pc = "idle" => req[t] = Idle
  /\ req[t].pc # "idle" => /\ req[t].user \in User
                           /\ \A x \in Thread : req[x].user = req[t].user => x = t
Owned == \A u, v \in User : sessions[u] = sessions[v] /\ sessions[u] # "no" => u = v

SessInv == /\ TypeOK /\ Single /\ Owned
           /\ \A u \in User : Handled(AtWork(u), sessions[u], Session(u), wish[u])

\* The file as it is once the update in progress has been written.
Disk == IF \E t \in Thread : Updating(t)
        THEN req[CHOOSE t \in Thread : Updating(t)].copy ELSE file

\* What the request, the session and the record d of a user say of the wish.
\* The record lags behind while the request goes on to save or clear it.
Told(r, s, o, w, d) ==
  /\ r.pc = "save" => /\ r.record # NoRecord /\ w # "none"
                      /\ r.record.mode = "LIVE" => w \in {"LIVE", "DEMO"}
  /\ r.pc = "clear" /\ r.then = "idle" => ~(Alive(s, o) /\ o.remember)
  /\ r.pc \in {"restore", "verify"} => d # NoRecord
  /\ r.pc = "restore" => r.record = d
  /\ r.then = "drop" /\ r.pc # "clear" => d = NoRecord
  /\ w = "none" => d = NoRecord /\ (s # "no" => o.mode = "DISCONNECTED")
  /\ r.pc \notin {"save", "clear"} =>
       /\ d.mode = "LIVE" => w \in {"LIVE", "DEMO"}
       /\ r.then = "idle" /\ Alive(s, o) /\ o.remember /\ w = "PAPER" => d # NoRecord
  /\ s # "no" /\ o.mode = "LIVE" => w \in {"LIVE", "DEMO"}

\* One thread updates the file, and changes the record of its user alone.
Alone == \A t \in Thread :
  /\ Updating(t) => \A x \in Thread : Updating(x) => x = t
  /\ req[t].pc = "open" => \A v \in User \ {req[t].user} : req[t].copy[v] = file[v]
  /\ req[t].pc = "write" => file = NoStore

TrueInv == orderly => /\ Alone
                      /\ \A u \in User : Told(AtWork(u), sessions[u], Session(u), wish[u], Disk[u])

-----------------------------------------------------------------------------
(* Types                                                                    *)

LEMMA TypesAre ==
  TypeOK <=> /\ sessions \in [User -> Object \cup {"no"}] /\ object \in [Object -> Objects]
             /\ file \in [User -> Record] /\ req \in [Thread -> Requests]
             /\ wish \in [User -> Wishes] /\ orderly \in BOOLEAN
  BY DEF TypeOK, Objects, Requests, Labels, Wishes

LEMMA TypesNext ==
  ASSUME sessions' \in [User -> Object \cup {"no"}], object' \in [Object -> Objects],
         file' \in [User -> Record], req' \in [Thread -> Requests],
         wish' \in [User -> Wishes], orderly' \in BOOLEAN
  PROVE  TypeOK'
  BY DEF TypeOK, Objects, Requests, Labels, Wishes

LEMMA NoRecordIs == NoRecord \in Record /\ NoRecord.mode = "no" /\ NoStore \in [User -> Record]
  BY DEF NoRecord, Record, NoStore

LEMMA IdleIs ==
  /\ Idle \in Requests /\ Idle.pc = "idle" /\ Idle.user = "no" /\ Idle.obj = "no"
  /\ Idle.then = "idle" /\ Idle.asked = "PAPER" /\ Idle.remember = FALSE /\ Idle.mine = FALSE
  /\ Idle.record = NoRecord /\ Idle.copy = NoStore
  BY NoRecordIs DEF Idle, Requests, Labels

LEMMA FreshIs ==
  /\ Fresh \in Objects /\ Fresh.mode = "DISCONNECTED" /\ Fresh.sid = "no"
  /\ Fresh.client = FALSE /\ Fresh.sends = FALSE /\ Fresh.tried = FALSE /\ Fresh.remember = FALSE
  BY DEF Fresh, Objects

LEMMA BuildIs ==
  ASSUME NEW o \in Objects
  PROVE  /\ Build(o) \in Objects /\ Build(o).mode = o.mode /\ Build(o).sid = o.sid
         /\ Build(o).client = TRUE /\ Build(o).sends = TRUE
         /\ Build(o).tried = o.tried /\ Build(o).remember = o.remember
  BY DEF Build, Objects

LEMMA NoClientIs ==
  ASSUME NEW o \in Objects
  PROVE  /\ NoClient(o) \in Objects /\ NoClient(o).mode = o.mode /\ NoClient(o).sid = o.sid
         /\ NoClient(o).client = FALSE /\ NoClient(o).sends = FALSE
         /\ NoClient(o).tried = o.tried /\ NoClient(o).remember = o.remember
  BY DEF NoClient, Objects

LEMMA NoIdIs ==
  ASSUME NEW o \in Objects
  PROVE  /\ NoId(o) \in Objects /\ NoId(o).mode = o.mode /\ NoId(o).sid = "no"
         /\ NoId(o).client = o.client /\ NoId(o).sends = o.sends
         /\ NoId(o).tried = FALSE /\ NoId(o).remember = o.remember
  BY DEF NoId, Objects

LEMMA PersistingIs ==
  ASSUME NEW r \in Requests, NEW o \in Objects, o.mode \in {"PAPER", "LIVE"}
  PROVE  /\ Persisting(r, o) \in Requests
         /\ Persisting(r, o).user = r.user /\ Persisting(r, o).obj = r.obj
         /\ Persisting(r, o).then = r.then /\ Persisting(r, o).mine = r.mine
         /\ Persisting(r, o).record = Persisted(o) /\ Persisted(o) \in Record
         /\ Persisting(r, o).pc = IF o.remember /\ o.sid # "no" THEN "save" ELSE "clear"
         /\ Persisted(o) # NoRecord <=> o.remember /\ o.sid # "no"
         /\ Persisted(o) # NoRecord => Persisted(o).mode = o.mode
<1>1. /\ Persisted(o) \in Record /\ (Persisted(o) # NoRecord <=> o.remember /\ o.sid # "no")
      /\ Persisted(o) # NoRecord => Persisted(o).mode = o.mode
  BY DEF Persisted, Record, NoRecord, Objects
<1>2. PICK p : p = Persisted(o)
  OBVIOUS
<1>3. PICK l : l = IF p = NoRecord THEN "clear" ELSE "save"
  OBVIOUS
<1>4. PICK q : q = [r EXCEPT !.record = p, !.pc = l]
  OBVIOUS
<1>5. /\ q \in Requests /\ q.user = r.user /\ q.obj = r.obj /\ q.then = r.then /\ q.mine = r.mine
      /\ q.record = p /\ q.pc = l
  BY <1>1, <1>2, <1>3, <1>4 DEF Requests, Labels
<1>6. q = Persisting(r, o)
  BY <1>2, <1>3, <1>4 DEF Persisting
<1> QED
  BY <1>1, <1>2, <1>3, <1>5, <1>6

LEMMA OnwardIs ==
  ASSUME NEW r \in Requests
  PROVE  /\ Onward(r) \in Requests
         /\ r.then = "idle" => Onward(r) = Idle
         /\ r.then # "idle" => /\ Onward(r).pc = r.then /\ Onward(r).user = r.user
                               /\ Onward(r).obj = r.obj /\ Onward(r).then = r.then
<1>1. CASE r.then = "idle"
  BY <1>1, IdleIs DEF Onward
<1>2. CASE r.then # "idle"
  <2>1. PICK q : q = [r EXCEPT !.pc = r.then, !.copy = NoStore]
    OBVIOUS
  <2>2. r.then \in {"drop", "discard"}
    BY <1>2 DEF Requests
  <2>3. /\ q \in Requests /\ q.pc = r.then /\ q.user = r.user /\ q.obj = r.obj
        /\ q.then = r.then
    BY <2>1, <2>2, NoRecordIs DEF Requests, Labels
  <2> QED
    BY <1>2, <2>1, <2>3 DEF Onward
<1> QED
  BY <1>1, <1>2

-----------------------------------------------------------------------------
(* A step of one user's request                                             *)

\* Nobody but thread t serves user u.
Turn(t, u) == req[t].user \in {u, "no"} /\ \A x \in Thread \ {t} : req[x].user # u

\* In a step of t for u, the user is left with the entry s, the object o, the
\* request r and the wish w, and everybody else with what they had.
Moves(t, u, s, o, r, w) ==
  /\ Turn(t, u)
  /\ s \in Object \cup {"no"} /\ r \in Requests /\ w \in Wishes
  /\ sessions' = [sessions EXCEPT ![u] = s]
  /\ object' \in [Object -> Objects] /\ (s # "no" => object'[s] = o)
  /\ \A v \in User \ {u} : sessions[v] # "no" =>
       sessions[v] # s /\ object'[sessions[v]] = object[sessions[v]]
  /\ req' = [req EXCEPT ![t] = r]
  /\ wish' = [wish EXCEPT ![u] = w]
  /\ r.pc = "idle" => r = Idle
  /\ r.pc # "idle" => r.user = u

LEMMA ServedBy ==
  ASSUME SessInv, NEW t \in Thread, NEW u \in User, Turn(t, u)
  PROVE  AtWork(u) = req[t] /\ (req[t].user = "no" => req[t] = Idle)
<1>1. CASE req[t].user = u
  <2>1. (CHOOSE x \in Thread : req[x].user = u) = t
    BY <1>1 DEF Turn
  <2> QED
    BY <1>1, <2>1, ChoiceSessionAssumption DEF AtWork
<1>2. CASE req[t].user = "no"
  <2>1. req[t] = Idle
    BY <1>2, ChoiceSessionAssumption DEF SessInv, Single
  <2>2. \A x \in Thread : req[x].user # u
    BY <1>2, ChoiceSessionAssumption DEF Turn
  <2> QED
    BY <2>1, <2>2 DEF AtWork
<1> QED
  BY <1>1, <1>2 DEF Turn

LEMMA TurnOfCaller ==
  ASSUME SessInv, Overlapping = {}, NEW t \in Thread, NEW u \in User, Arrive(t, u)
  PROVE  Turn(t, u) /\ req[t] = Idle /\ AtWork(u) = Idle
<1>1. req[t] = Idle
  BY DEF SessInv, Single, Arrive
<1>2. Turn(t, u)
  BY <1>1, IdleIs DEF Arrive, Turn
<1> QED
  BY <1>1, <1>2, ServedBy

LEMMA TurnOfServer ==
  ASSUME SessInv, NEW t \in Thread, req[t].pc # "idle"
  PROVE  /\ req[t].user \in User /\ Turn(t, req[t].user) /\ AtWork(req[t].user) = req[t]
         /\ Handled(req[t], sessions[req[t].user], Session(req[t].user), wish[req[t].user])
<1>1. req[t].user \in User /\ Turn(t, req[t].user)
  BY DEF SessInv, Single, Turn
<1>2. AtWork(req[t].user) = req[t]
  BY <1>1, ServedBy
<1> QED
  BY <1>1, <1>2 DEF SessInv

LEMMA WorkAfter ==
  ASSUME SessInv, NEW t \in Thread, NEW u \in User, NEW s, NEW o, NEW r, NEW w,
         Moves(t, u, s, o, r, w)
  PROVE  /\ req' \in [Thread -> Requests] /\ Single'
         /\ AtWork(u)' = r
         /\ \A v \in User \ {u} : AtWork(v)' = AtWork(v)
<1>1. req \in [Thread -> Requests]
  BY TypesAre DEF SessInv
<1>2. /\ req' \in [Thread -> Requests] /\ req'[t] = r
      /\ \A x \in Thread \ {t} : req'[x] = req[x]
  BY <1>1 DEF Moves
<1>3. /\ Turn(t, u) /\ r.user \in {u, "no"} /\ (r.user = "no" => r = Idle)
      /\ r.pc = "idle" => r = Idle
      /\ r.pc # "idle" => r.user = u
  BY IdleIs, ChoiceSessionAssumption DEF Moves
<1>4. \A x \in Thread \ {t} : req[x].user # u
  BY <1>3 DEF Turn
<1>5. Single'
  <2> SUFFICES ASSUME NEW x \in Thread
               PROVE  /\ req'[x].pc = "idle" => req'[x] = Idle
                      /\ req'[x].pc # "idle" => /\ req'[x].user \in User
                                                /\ \A y \in Thread : req'[y].user = req'[x].user => y = x
    BY DEF Single
  <2>1. CASE x = t
    BY <2>1, <1>2, <1>3, <1>4
  <2>2. CASE x # t
    <3>1. req'[x] = req[x] /\ req[x].user # u
      BY <2>2, <1>2, <1>4
    <3>2. /\ req[x].pc = "idle" => req[x] = Idle
          /\ req[x].pc # "idle" => /\ req[x].user \in User
                                   /\ \A y \in Thread : req[y].user = req[x].user => y = x
      BY DEF SessInv, Single
    <3>3. ASSUME req[x].pc # "idle", NEW y \in Thread, req'[y].user = req[x].user PROVE y = x
      <4>1. y # t
        BY <3>3, <3>1, <3>2, <1>2, <1>3, ChoiceSessionAssumption
      <4> QED
        BY <4>1, <3>3, <3>2, <1>2
    <3> QED
      BY <3>1, <3>2, <3>3
  <2> QED
    BY <2>1, <2>2
<1>6. AtWork(u)' = r
  <2>1. CASE r.user = u
    <3>1. (CHOOSE x \in Thread : req'[x].user = u) = t
      BY <2>1, <1>2, <1>4
    <3> QED
      BY <2>1, <3>1, <1>2 DEF AtWork
  <2>2. CASE r = Idle
    <3>1. \A x \in Thread : req'[x].user # u
      BY <2>2, <1>2, <1>4, IdleIs, ChoiceSessionAssumption
    <3> QED
      BY <2>2, <3>1 DEF AtWork
  <2> QED
    BY <2>1, <2>2, <1>3
<1>7. ASSUME NEW v \in User \ {u} PROVE AtWork(v)' = AtWork(v)
  <2>1. \A x \in Thread : req'[x].user = v <=> req[x].user = v
    BY <1>2, <1>3, ChoiceSessionAssumption DEF Turn
  <2>2. CASE \E x \in Thread : req[x].user = v
    <3>1. PICK x \in Thread : req[x].user = v
      BY <2>2
    <3>2. req[x].pc # "idle" /\ x # t
      BY <3>1, <1>3, IdleIs, ChoiceSessionAssumption DEF SessInv, Single, Turn
    <3>3. \A y \in Thread : req[y].user = v => y = x
      BY <3>1, <3>2 DEF SessInv, Single
    <3>4. (CHOOSE y \in Thread : req[y].user = v) = x
      BY <3>1, <3>3
    <3>5. (CHOOSE y \in Thread : req'[y].user = v) = x
      BY <3>1, <3>3, <2>1
    <3>6. AtWork(v) = req[x]
      BY <3>1, <3>4 DEF AtWork
    <3>7. AtWork(v)' = req'[x]
      BY <3>1, <3>5, <2>1 DEF AtWork
    <3> QED
      BY <3>2, <3>6, <3>7, <1>2
  <2>3. CASE \A x \in Thread : req[x].user # v
    BY <2>3, <2>1 DEF AtWork
  <2> QED
    BY <2>2, <2>3
<1> QED
  BY <1>2, <1>5, <1>6, <1>7

(* The registry after such a step.                                          *)
LEMMA EntryAfter ==
  ASSUME SessInv, NEW t \in Thread, NEW u \in User, NEW s, NEW o, NEW r, NEW w,
         Moves(t, u, s, o, r, w)
  PROVE  /\ sessions' \in [User -> Object \cup {"no"}] /\ object' \in [Object -> Objects]
         /\ wish' \in [User -> Wishes] /\ Owned'
         /\ sessions'[u] = s /\ (s # "no" => Session(u)' = o) /\ wish'[u] = w
         /\ \A v \in User \ {u} : /\ sessions'[v] = sessions[v] /\ wish'[v] = wish[v]
                                  /\ sessions[v] # "no" => Session(v)' = Session(v)
<1>1. sessions \in [User -> Object \cup {"no"}] /\ wish \in [User -> Wishes]
  BY TypesAre DEF SessInv
<1>2. /\ sessions' \in [User -> Object \cup {"no"}] /\ wish' \in [User -> Wishes]
      /\ sessions'[u] = s /\ wish'[u] = w
      /\ \A v \in User \ {u} : sessions'[v] = sessions[v] /\ wish'[v] = wish[v]
  BY <1>1 DEF Moves
<1>3. Owned'
  BY <1>2 DEF Moves, SessInv, Owned
<1> QED
  BY <1>2, <1>3 DEF Moves, Session

(* Handled looks at an object only where there is one.                      *)
LEMMA HandledSame ==
  ASSUME NEW r, NEW s, NEW o, NEW w, NEW p, Handled(r, s, o, w), s # "no" => p = o
  PROVE  Handled(r, s, p, w)
<1>1. CASE s = "no"
  BY <1>1 DEF Handled, Alive
<1> QED
  BY <1>1

LEMMA Moved ==
  ASSUME SessInv, NEW t \in Thread, NEW u \in User, NEW s, NEW o, NEW r, NEW w,
         Moves(t, u, s, o, r, w), Handled(r, s, o, w),
         file' \in [User -> Record], orderly' \in BOOLEAN
  PROVE  SessInv'
<1>1. /\ req' \in [Thread -> Requests] /\ Single'
      /\ AtWork(u)' = r
      /\ \A v \in User \ {u} : AtWork(v)' = AtWork(v)
  BY WorkAfter
<1>2. /\ sessions' \in [User -> Object \cup {"no"}] /\ object' \in [Object -> Objects]
      /\ wish' \in [User -> Wishes] /\ Owned'
      /\ sessions'[u] = s /\ (s # "no" => Session(u)' = o) /\ wish'[u] = w
      /\ \A v \in User \ {u} : /\ sessions'[v] = sessions[v] /\ wish'[v] = wish[v]
                               /\ sessions[v] # "no" => Session(v)' = Session(v)
  BY EntryAfter
<1>3. TypeOK'
  BY <1>1, <1>2, TypesNext
<1>4. ASSUME NEW v \in User PROVE Handled(AtWork(v), sessions[v], Session(v), wish[v])'
  <2>1. CASE v = u
    <3>1. Handled(r, s, Session(u)', w)
      BY <1>2, HandledSame
    <3> QED
      BY <2>1, <3>1, <1>1, <1>2
  <2>2. CASE v # u
    <3>1. Handled(AtWork(v), sessions[v], Session(v), wish[v])
      BY DEF SessInv
    <3>2. sessions[v] # "no" => Session(v)' = Session(v)
      BY <2>2, <1>2
    <3>3. Handled(AtWork(v), sessions[v], Session(v)', wish[v])
      BY <3>1, <3>2, HandledSame
    <3> QED
      BY <2>2, <3>3, <1>1, <1>2
  <2> QED
    BY <2>1, <2>2
<1> QED
  BY <1>1, <1>2, <1>3, <1>4 DEF SessInv

(* What another thread works on belongs to another user.                    *)
LEMMA Apart ==
  ASSUME SessInv, NEW t \in Thread, NEW u \in User, Turn(t, u), NEW x \in Thread \ {t}
  PROVE  req[x].obj = "no" \/ \E v \in User \ {u} : req[x].obj = sessions[v]
<1>1. CASE req[x].pc = "idle"
  BY <1>1, IdleIs DEF SessInv, Single
<1>2. CASE req[x].pc # "idle"
  <2>1. req[x].user \in User \ {u}
    BY <1>2, TurnOfServer DEF Turn
  <2>2. Handled(req[x], sessions[req[x].user], Session(req[x].user), wish[req[x].user])
    BY <1>2, TurnOfServer
  <2> QED
    BY <2>1, <2>2 DEF Handled
<1> QED
  BY <1>1, <1>2

LEMMA FoundIs ==
  ASSUME SessInv, NEW u \in User, NEW o \in Entry(u)
  PROVE  /\ o \in Object /\ Found(u, o) \in Objects
         /\ sessions[u] # "no" => o = sessions[u] /\ Found(u, o) = Session(u)
         /\ sessions[u] = "no" => Found(u, o) = Fresh
<1>1. sessions \in [User -> Object \cup {"no"}] /\ object \in [Object -> Objects]
  BY TypesAre DEF SessInv
<1> QED
  BY <1>1, FreshIs DEF Entry, Found, Session

LEMMA KeepsWish ==
  ASSUME SessInv, NEW u \in User
  PROVE  wish[u] \in Wishes /\ (UNCHANGED wish => wish' = [wish EXCEPT ![u] = wish[u]])
<1>1. wish \in [User -> Wishes]
  BY TypesAre DEF SessInv
<1> QED
  BY <1>1

LEMMA KeptIs ==
  ASSUME NEW os \in [Object -> Objects]
  PROVE  /\ Kept(os) \in [Object -> Objects]
         /\ \A v \in User : sessions'[v] \in Object => Kept(os)[sessions'[v]] = os[sessions'[v]]
  BY FreshIs DEF Kept

(* A call that gets the user's object, or the memory for one.               *)
LEMMA MovesEntry ==
  ASSUME SessInv, NEW t \in Thread, NEW u \in User, Turn(t, u),
         NEW o \in Entry(u), NEW a \in Objects, NEW r \in Requests, NEW w \in Wishes,
         Registered(u, o, a), NewClient(o, t, r) \/ Continue(t, r),
         wish' = [wish EXCEPT ![u] = w],
         r.pc = "idle" => r = Idle, r.pc # "idle" => r.user = u
  PROVE  Moves(t, u, o, a, r, w)
<1>1. /\ sessions \in [User -> Object \cup {"no"}] /\ object \in [Object -> Objects]
      /\ req \in [Thread -> Requests]
  BY TypesAre DEF SessInv
<1>2. o \in Object /\ o # "no"
  BY FoundIs, ChoiceSessionAssumption
<1>3. \A v \in User \ {u} : sessions[v] # o
  <2>1. CASE sessions[u] = "no"
    BY <2>1 DEF Entry
  <2>2. CASE sessions[u] # "no"
    BY <2>2 DEF Entry, SessInv, Owned
  <2> QED
    BY <2>1, <2>2
<1>4. ASSUME NEW x \in Thread \ {t} PROVE req[x].obj # o
  <2>1. CASE sessions[u] = "no"
    BY <2>1 DEF Entry
  <2>2. CASE sessions[u] # "no"
    BY <1>2, <1>3, Apart
  <2> QED
    BY <2>1, <2>2
<1>5. req' = [req EXCEPT ![t] = r]
  BY <1>1, <1>4 DEF NewClient, Continue
<1>6. /\ sessions' = [sessions EXCEPT ![u] = o]
      /\ object' = [object EXCEPT ![o] = a]
  BY DEF Registered
<1>7. /\ object' \in [Object -> Objects] /\ object'[o] = a
      /\ \A v \in User \ {u} : sessions[v] # "no" => object'[sessions[v]] = object[sessions[v]]
  BY <1>1, <1>2, <1>3, <1>6
<1> QED
  BY <1>2, <1>3, <1>5, <1>6, <1>7 DEF Moves

(* A step on the object the request was given.                              *)
LEMMA MovesObject ==
  ASSUME SessInv, NEW t \in Thread, NEW u \in User, Turn(t, u),
         sessions[u] # "no", NEW a \in Objects, NEW r \in Requests, NEW w \in Wishes,
         UNCHANGED sessions,
         object' \in {[object EXCEPT ![sessions[u]] = a], Kept([object EXCEPT ![sessions[u]] = a])},
         NewClient(sessions[u], t, r) \/ Continue(t, r),
         wish' = [wish EXCEPT ![u] = w],
         r.pc = "idle" => r = Idle, r.pc # "idle" => r.user = u
  PROVE  Moves(t, u, sessions[u], a, r, w)
<1>1. /\ sessions \in [User -> Object \cup {"no"}] /\ object \in [Object -> Objects]
      /\ req \in [Thread -> Requests]
  BY TypesAre DEF SessInv
<1>2. PICK os : os = [object EXCEPT ![sessions[u]] = a]
  OBVIOUS
<1>3. sessions[u] \in Object /\ os \in [Object -> Objects] /\ os[sessions[u]] = a
  BY <1>1, <1>2
<1>4. /\ object' \in [Object -> Objects]
      /\ \A v \in User : sessions[v] \in Object => object'[sessions[v]] = os[sessions[v]]
  <2>1. CASE object' = os
    BY <2>1, <1>3
  <2>2. CASE object' = Kept(os)
    BY <2>2, <1>3, KeptIs
  <2> QED
    BY <2>1, <2>2, <1>2
<1>5. \A v \in User \ {u} : sessions[v] # sessions[u]
  BY DEF SessInv, Owned
<1>6. req' = [req EXCEPT ![t] = r]
  <2>1. \A x \in Thread \ {t} : req[x].obj # sessions[u]
    BY <1>5, Apart
  <2> QED
    BY <1>1, <2>1 DEF NewClient, Continue
<1>7. \A v \in User \ {u} : sessions[v] # "no" =>
         sessions[v] # sessions[u] /\ object'[sessions[v]] = object[sessions[v]]
  BY <1>1, <1>2, <1>4, <1>5
<1>8. object'[sessions[u]] = a
  BY <1>3, <1>4
<1>9. sessions' = [sessions EXCEPT ![u] = sessions[u]]
  BY <1>1
<1> QED
  BY <1>3, <1>4, <1>6, <1>7, <1>8, <1>9 DEF Moves

(* A step of the request alone.                                             *)
LEMMA MovesRequest ==
  ASSUME SessInv, NEW t \in Thread, NEW u \in User, Turn(t, u), NEW r \in Requests,
         UNCHANGED <<sessions, wish>>, object' \in {object, Kept(object)}, Continue(t, r),
         r.pc = "idle" => r = Idle, r.pc # "idle" => r.user = u
  PROVE  Moves(t, u, sessions[u], Session(u), r, wish[u])
<1>1. /\ sessions \in [User -> Object \cup {"no"}] /\ object \in [Object -> Objects]
      /\ req \in [Thread -> Requests]
  BY TypesAre DEF SessInv
<1>2. /\ object' \in [Object -> Objects]
      /\ \A v \in User : sessions[v] \in Object => object'[sessions[v]] = object[sessions[v]]
  <2>1. CASE object' = object
    BY <2>1, <1>1
  <2>2. CASE object' = Kept(object)
    BY <2>2, <1>1, KeptIs
  <2> QED
    BY <2>1, <2>2
<1>3. \A v \in User : sessions[v] # "no" => sessions[v] \in Object
  BY <1>1
<1>4. \A v \in User \ {u} : sessions[v] # "no" => sessions[v] # sessions[u]
  BY DEF SessInv, Owned
<1>5. wish' = [wish EXCEPT ![u] = wish[u]] /\ wish[u] \in Wishes
  BY KeepsWish
<1>6. sessions' = [sessions EXCEPT ![u] = sessions[u]] /\ sessions[u] \in Object \cup {"no"}
  BY <1>1
<1>7. req' = [req EXCEPT ![t] = r]
  BY DEF Continue
<1> QED
  BY <1>2, <1>3, <1>4, <1>5, <1>6, <1>7 DEF Moves, Session

-----------------------------------------------------------------------------
(* What each action does to its user                                        *)

\* A step that leaves the file alone keeps what the invariants say of a user.
Does(t, u) ==
  \E s, o, r, w :
    /\ Moves(t, u, s, o, r, w) /\ Handled(r, s, o, w)
    /\ req[t].pc \notin {"open", "write"} /\ r.pc \notin {"open", "write"}
    /\ \A d \in Record :
         (file[u] # NoRecord => d = file[u]) /\ Told(req[t], sessions[u], Session(u), wish[u], d)
           => Told(r, s, o, w, d)

(* Memory that nothing refers to is a session that was never connected.     *)
LEMMA FoundKeeps ==
  ASSUME SessInv, NEW u \in User, NEW o \in Entry(u), NEW r \in Requests, NEW w,
         r.obj = "no", r.pc \in {"idle", "restore"}, r.then = "idle",
         Handled(r, sessions[u], Session(u), w)
  PROVE  /\ o # "no" /\ Handled(r, o, Found(u, o), w)
         /\ \A d \in Record : Told(r, sessions[u], Session(u), w, d) => Told(r, o, Found(u, o), w, d)
<1>1. /\ o \in Object /\ o # "no" /\ Found(u, o) \in Objects
      /\ sessions[u] # "no" => o = sessions[u] /\ Found(u, o) = Session(u)
      /\ sessions[u] = "no" => Found(u, o) = Fresh
  BY FoundIs, ChoiceSessionAssumption
<1>2. CASE sessions[u] # "no"
  BY <1>1, <1>2
<1>3. CASE sessions[u] = "no"
  <2>1. Handled(r, o, Fresh, w)
    BY <1>1, <1>3, FreshIs DEF Handled, Alive, IsConnected, Usable
  <2>2. ASSUME NEW d \in Record, Told(r, sessions[u], Session(u), w, d) PROVE Told(r, o, Fresh, w, d)
    BY <2>2, <1>3, FreshIs DEF Told, Alive, IsConnected
  <2> QED
    BY <1>1, <1>3, <2>1, <2>2
<1> QED
  BY <1>2, <1>3

LEMMA CallerStart ==
  ASSUME SessInv, Overlapping = {}, NEW t \in Thread, NEW u \in User, Arrive(t, u)
  PROVE  /\ Turn(t, u) /\ req[t] = Idle
         /\ Handled(Idle, sessions[u], Session(u), wish[u]) /\ wish[u] \in Wishes
         /\ \A o \in Entry(u) :
              /\ Found(u, o) \in Objects /\ o # "no" /\ Handled(Idle, o, Found(u, o), wish[u])
              /\ \A d \in Record : Told(Idle, sessions[u], Session(u), wish[u], d)
                   => Told(Idle, o, Found(u, o), wish[u], d)
<1>1. Turn(t, u) /\ req[t] = Idle /\ AtWork(u) = Idle
  BY TurnOfCaller
<1>2. Handled(Idle, sessions[u], Session(u), wish[u])
  BY <1>1 DEF SessInv
<1> QED
  BY <1>1, <1>2, FoundKeeps, FoundIs, IdleIs, KeepsWish

LEMMA DoesStartDemo ==
  ASSUME SessInv, Overlapping = {}, NEW t \in Thread, NEW u \in User, StartDemo(t, u)
  PROVE  Does(t, u)
<1>1. Turn(t, u) /\ req[t] = Idle
  BY CallerStart DEF StartDemo
<1>2. PICK o \in Entry(u) :
        /\ Registered(u, o, [NoClient(Found(u, o)) EXCEPT !.mode = "DEMO", !.sid = "demo", !.tried = FALSE])
        /\ NewClient(o, t, Idle)
  BY DEF StartDemo
<1>3. PICK a : a = [NoClient(Found(u, o)) EXCEPT !.mode = "DEMO", !.sid = "demo", !.tried = FALSE]
  OBVIOUS
<1>4. a \in Objects /\ a.mode = "DEMO"
  <2>1. PICK c : c = NoClient(Found(u, o))
    OBVIOUS
  <2>2. c \in Objects
    BY <2>1, FoundIs, NoClientIs
  <2> QED
    BY <1>3, <2>1, <2>2 DEF Objects
<1>5. wish' = [wish EXCEPT ![u] = "DEMO"]
  BY DEF StartDemo, Obeyed
<1>6. Moves(t, u, o, a, Idle, "DEMO")
  BY <1>1, <1>2, <1>3, <1>4, <1>5, MovesEntry, IdleIs DEF Wishes
<1>7. Handled(Idle, o, a, "DEMO")
  BY <1>4, IdleIs DEF Handled, Usable
<1>8. \A d \in Record : Told(Idle, o, a, "DEMO", d)
  BY <1>4, IdleIs DEF Told
<1> QED
  BY <1>1, <1>6, <1>7, <1>8, IdleIs DEF Does

LEMMA DoesConnect ==
  ASSUME SessInv, Overlapping = {}, NEW t \in Thread, NEW u \in User, Connect(t, u)
  PROVE  Does(t, u)
<1>1. Turn(t, u) /\ req[t] = Idle /\ wish[u] \in Wishes
  BY CallerStart DEF Connect
<1>2. PICK o \in Entry(u), m \in {"PAPER", "LIVE"}, b \in BOOLEAN :
        /\ Registered(u, o, Build(NoId(Found(u, o))))
        /\ NewClient(o, t, [Request(u, o, "login") EXCEPT !.asked = m, !.remember = b, !.mine = TRUE])
  BY DEF Connect
<1>3. PICK r : r = [Request(u, o, "login") EXCEPT !.asked = m, !.remember = b, !.mine = TRUE]
  OBVIOUS
<1>4. PICK a : a = Build(NoId(Found(u, o)))
  OBVIOUS
<1>5. PICK f : f = Found(u, o)
  OBVIOUS
<1>6. /\ f \in Objects /\ o \in Object /\ o # "no"
      /\ Handled(Idle, o, f, wish[u])
      /\ \A d \in Record : Told(Idle, sessions[u], Session(u), wish[u], d) => Told(Idle, o, f, wish[u], d)
  BY <1>5, CallerStart, FoundIs DEF Connect
<1>7. /\ a \in Objects /\ a.mode = f.mode /\ a.sid = "no" /\ a.client = TRUE /\ a.sends = TRUE
      /\ a.tried = FALSE /\ a.remember = f.remember
  <2>1. PICK c : c = NoId(f)
    OBVIOUS
  <2>2. /\ c \in Objects /\ c.mode = f.mode /\ c.sid = "no" /\ c.tried = FALSE
        /\ c.remember = f.remember
    BY <1>6, <2>1, NoIdIs
  <2>3. a = Build(c)
    BY <1>4, <1>5, <2>1
  <2> QED
    BY <2>2, <2>3, BuildIs
<1>8. PICK q : q = Request(u, o, "login")
  OBVIOUS
<1>9. q \in Requests /\ q.pc = "login" /\ q.user = u /\ q.obj = o /\ q.then = "idle"
  BY <1>6, <1>8, IdleIs DEF Request, Requests, Labels
<1>10. /\ r \in Requests /\ r.pc = "login" /\ r.user = u /\ r.obj = o /\ r.then = "idle"
       /\ r.mine = TRUE
  BY <1>3, <1>8, <1>9 DEF Requests
<1>11. wish' = [wish EXCEPT ![u] = wish[u]]
  BY KeepsWish DEF Connect
<1>12. Moves(t, u, o, a, r, wish[u])
  BY <1>1, <1>2, <1>3, <1>4, <1>7, <1>10, <1>11, MovesEntry
<1>13. Handled(r, o, a, wish[u])
  BY <1>6, <1>7, <1>10, IdleIs DEF Handled, Usable, Alive, IsConnected
<1>14. ASSUME NEW d \in Record, Told(Idle, o, f, wish[u], d)
       PROVE  Told(r, o, a, wish[u], d)
  BY <1>14, <1>6, <1>7, <1>10, IdleIs DEF Handled, Told, Alive, IsConnected
<1> QED
  BY <1>1, <1>6, <1>10, <1>12, <1>13, <1>14, IdleIs DEF Does

LEMMA DoesRequestOtp ==
  ASSUME SessInv, Overlapping = {}, NEW t \in Thread, NEW u \in User, RequestOtp(t, u)
  PROVE  Does(t, u)
<1>1. Turn(t, u) /\ req[t] = Idle /\ wish[u] \in Wishes
  BY CallerStart DEF RequestOtp
<1>2. PICK o \in Entry(u) : Registered(u, o, Build(Found(u, o))) /\ NewClient(o, t, Idle)
  BY DEF RequestOtp
<1>3. PICK f : f = Found(u, o)
  OBVIOUS
<1>4. PICK a : a = Build(f)
  OBVIOUS
<1>5. /\ f \in Objects /\ o \in Object /\ o # "no"
      /\ Handled(Idle, o, f, wish[u])
      /\ \A d \in Record : Told(Idle, sessions[u], Session(u), wish[u], d) => Told(Idle, o, f, wish[u], d)
  BY <1>3, CallerStart, FoundIs DEF RequestOtp
<1>6. /\ a \in Objects /\ a.mode = f.mode /\ a.sid = f.sid /\ a.client = TRUE /\ a.sends = TRUE
      /\ a.tried = f.tried /\ a.remember = f.remember
  BY <1>4, <1>5, BuildIs
<1>7. wish' = [wish EXCEPT ![u] = wish[u]]
  BY KeepsWish DEF RequestOtp
<1>8. Moves(t, u, o, a, Idle, wish[u])
  BY <1>1, <1>2, <1>3, <1>4, <1>6, <1>7, MovesEntry, IdleIs
<1>9. Handled(Idle, o, a, wish[u])
  BY <1>5, <1>6, IdleIs DEF Handled, Usable, Alive, IsConnected
<1>10. ASSUME NEW d \in Record, Told(Idle, o, f, wish[u], d)
       PROVE  Told(Idle, o, a, wish[u], d)
  BY <1>10, <1>6, IdleIs DEF Told, Alive, IsConnected
<1> QED
  BY <1>1, <1>5, <1>8, <1>9, <1>10, IdleIs DEF Does

LEMMA DoesSendOtp ==
  ASSUME SessInv, Overlapping = {}, NEW t \in Thread, NEW u \in User, SendOtp(t, u)
  PROVE  Does(t, u)
<1>1. Turn(t, u) /\ req[t] = Idle /\ wish[u] \in Wishes
  BY CallerStart DEF SendOtp
<1>2. PICK o \in Entry(u) :
        LET r == [Request(u, o, "otp") EXCEPT !.mine = TRUE]
        IN  IF Found(u, o).client
            THEN Registered(u, o, object[o]) /\ Continue(t, r)
            ELSE Registered(u, o, Build(Found(u, o))) /\ NewClient(o, t, r)
  BY DEF SendOtp
<1>3. PICK f : f = Found(u, o)
  OBVIOUS
<1>4. PICK r : r = [Request(u, o, "otp") EXCEPT !.mine = TRUE]
  OBVIOUS
<1>5. PICK a : a = IF f.client THEN f ELSE Build(f)
  OBVIOUS
<1>6. /\ f \in Objects /\ o \in Object /\ o # "no"
      /\ Handled(Idle, o, f, wish[u])
      /\ \A d \in Record : Told(Idle, sessions[u], Session(u), wish[u], d) => Told(Idle, o, f, wish[u], d)
  BY <1>3, CallerStart, FoundIs DEF SendOtp
<1>7. /\ a \in Objects /\ a.mode = f.mode /\ a.sid = f.sid /\ a.client = TRUE
      /\ (f.sends => a.sends) /\ a.tried = f.tried /\ a.remember = f.remember
  BY <1>5, <1>6, BuildIs DEF Objects
<1>8. PICK q : q = Request(u, o, "otp")
  OBVIOUS
<1>9. q \in Requests /\ q.pc = "otp" /\ q.user = u /\ q.obj = o /\ q.then = "idle"
  BY <1>6, <1>8, IdleIs DEF Request, Requests, Labels
<1>10. /\ r \in Requests /\ r.pc = "otp" /\ r.user = u /\ r.obj = o /\ r.then = "idle"
       /\ r.mine = TRUE
  BY <1>4, <1>8, <1>9 DEF Requests
<1>11. wish' = [wish EXCEPT ![u] = wish[u]]
  BY KeepsWish DEF SendOtp
<1>12. Registered(u, o, a) /\ (NewClient(o, t, r) \/ Continue(t, r))
  <2>1. CASE f.client
    <3>1. f = object[o]
      BY <2>1, <1>3, FreshIs DEF Found
    <3> QED
      BY <2>1, <3>1, <1>2, <1>3, <1>4, <1>5
  <2>2. CASE ~f.client
    BY <2>2, <1>2, <1>3, <1>4, <1>5
  <2> QED
    BY <2>1, <2>2
<1>13. Moves(t, u, o, a, r, wish[u])
  BY <1>1, <1>7, <1>10, <1>11, <1>12, MovesEntry
<1>14. Handled(r, o, a, wish[u])
  BY <1>6, <1>7, <1>10, IdleIs DEF Handled, Usable, Alive, IsConnected
<1>15. ASSUME NEW d \in Record, Told(Idle, o, f, wish[u], d)
       PROVE  Told(r, o, a, wish[u], d)
  BY <1>15, <1>7, <1>10, IdleIs DEF Told, Alive, IsConnected
<1> QED
  BY <1>1, <1>6, <1>10, <1>13, <1>14, <1>15, IdleIs DEF Does

LEMMA DoesAttachPartnerSession ==
  ASSUME SessInv, Overlapping = {}, NEW t \in Thread, NEW u \in User, AttachPartnerSession(t, u)
  PROVE  Does(t, u)
<1>1. Turn(t, u) /\ req[t] = Idle
  BY CallerStart DEF AttachPartnerSession
<1>2. PICK o \in Entry(u) :
        /\ Registered(u, o, Build([Found(u, o) EXCEPT !.sid = "choice", !.tried = TRUE, !.mode = "LIVE"]))
        /\ NewClient(o, t, Idle)
  BY DEF AttachPartnerSession
<1>3. PICK c : c = [Found(u, o) EXCEPT !.sid = "choice", !.tried = TRUE, !.mode = "LIVE"]
  OBVIOUS
<1>4. PICK a : a = Build(c)
  OBVIOUS
<1>5. c \in Objects /\ c.mode = "LIVE" /\ c.tried = TRUE
  <2>1. PICK f : f = Found(u, o)
    OBVIOUS
  <2>2. f \in Objects
    BY <2>1, FoundIs
  <2> QED
    BY <1>3, <2>1, <2>2 DEF Objects
<1>6. a \in Objects /\ a.mode = "LIVE" /\ a.client = TRUE /\ a.sends = TRUE /\ a.tried = TRUE
  BY <1>4, <1>5, BuildIs
<1>7. wish' = [wish EXCEPT ![u] = "LIVE"]
  BY DEF AttachPartnerSession, Obeyed
<1>8. Moves(t, u, o, a, Idle, "LIVE")
  BY <1>1, <1>2, <1>3, <1>4, <1>6, <1>7, MovesEntry, IdleIs DEF Wishes
<1>9. Handled(Idle, o, a, "LIVE")
  BY <1>6, IdleIs DEF Handled, Usable
<1>10. \A d \in Record : Told(Idle, o, a, "LIVE", d)
  BY <1>6, IdleIs DEF Told
<1> QED
  BY <1>1, <1>8, <1>9, <1>10, IdleIs DEF Does

LEMMA DoesSetMode ==
  ASSUME SessInv, Overlapping = {}, NEW t \in Thread, NEW u \in User, SetMode(t, u)
  PROVE  Does(t, u)
<1>1. /\ Turn(t, u) /\ req[t] = Idle /\ Handled(Idle, sessions[u], Session(u), wish[u])
  BY CallerStart DEF SetMode
<1>2. PICK m \in {"PAPER", "LIVE"} :
        LET s == [Session(u) EXCEPT !.mode = m]
        IN  /\ object' = [object EXCEPT ![sessions[u]] = s]
            /\ Continue(t, Persisting(Request(u, sessions[u], "save"), s))
            /\ Obeyed(u, m)
  BY DEF SetMode
<1>3. PICK s : s = Session(u)
  OBVIOUS
<1>4. PICK a : a = [s EXCEPT !.mode = m]
  OBVIOUS
<1>5. sessions[u] \in Object /\ sessions[u] # "no" /\ s \in Objects
  BY <1>3, TypesAre DEF SetMode, Connected, SessInv, Session
<1>6. IsConnected(s) /\ s.mode # "DEMO"
  BY <1>3 DEF SetMode, Connected
<1>7. /\ a \in Objects /\ a.mode = m /\ a.sid = s.sid /\ a.client = s.client /\ a.sends = s.sends
      /\ a.tried = s.tried /\ a.remember = s.remember
  BY <1>4, <1>5 DEF Objects
<1>8. PICK q : q = Request(u, sessions[u], "save")
  OBVIOUS
<1>9. q \in Requests /\ q.pc = "save" /\ q.user = u /\ q.obj = sessions[u] /\ q.then = "idle"
  BY <1>5, <1>8, IdleIs DEF Request, Requests, Labels
<1>10. PICK r : r = Persisting(q, a)
  OBVIOUS
<1>11. /\ r \in Requests /\ r.user = u /\ r.obj = sessions[u] /\ r.then = "idle"
       /\ r.pc = (IF a.remember /\ a.sid # "no" THEN "save" ELSE "clear")
       /\ a.remember /\ a.sid # "no" => r.record # NoRecord /\ r.record.mode = m
  BY <1>7, <1>9, <1>10, PersistingIs
<1>12. Continue(t, r) /\ object' = [object EXCEPT ![sessions[u]] = a] /\ UNCHANGED sessions
  BY <1>2, <1>3, <1>4, <1>8, <1>10 DEF SetMode
<1>13. wish' = [wish EXCEPT ![u] = m]
  BY <1>2 DEF Obeyed
<1>14. Moves(t, u, sessions[u], a, r, m)
  BY <1>1, <1>5, <1>7, <1>11, <1>12, <1>13, MovesObject DEF Wishes
<1>15. Usable(s) /\ Alive(sessions[u], s)
  BY <1>1, <1>3, <1>5, <1>6, IdleIs DEF Handled, Alive
<1>16. Handled(r, sessions[u], a, m)
  BY <1>5, <1>6, <1>7, <1>11, <1>15 DEF Handled, Usable, IsConnected
<1>17. \A d \in Record : Told(r, sessions[u], a, m, d)
  BY <1>6, <1>7, <1>11 DEF Told, Alive, IsConnected
<1> QED
  BY <1>1, <1>11, <1>14, <1>16, <1>17, IdleIs DEF Does

LEMMA DoesDisconnect ==
  ASSUME SessInv, Overlapping = {}, NEW t \in Thread, NEW u \in User, Disconnect(t, u)
  PROVE  Does(t, u)
<1>1. Turn(t, u) /\ req[t] = Idle /\ Handled(Idle, sessions[u], Session(u), wish[u])
  BY CallerStart DEF Disconnect
<1>2. PICK q : q = Request(u, sessions[u], "clear")
  OBVIOUS
<1>3. PICK r : r = [q EXCEPT !.then = "drop"]
  OBVIOUS
<1>4. sessions[u] \in Object \cup {"no"}
  BY TypesAre DEF SessInv
<1>5. q \in Requests /\ q.pc = "clear" /\ q.user = u /\ q.obj = sessions[u]
  BY <1>2, <1>4, IdleIs DEF Request, Requests, Labels
<1>6. r \in Requests /\ r.pc = "clear" /\ r.user = u /\ r.obj = sessions[u] /\ r.then = "drop"
  BY <1>3, <1>5 DEF Requests
<1>7. Moves(t, u, sessions[u], Session(u), r, wish[u])
  BY <1>1, <1>2, <1>3, <1>6, MovesRequest DEF Disconnect
<1>8. Handled(r, sessions[u], Session(u), wish[u])
  BY <1>1, <1>6, IdleIs DEF Handled, Alive
<1>9. ASSUME NEW d \in Record, Told(Idle, sessions[u], Session(u), wish[u], d)
      PROVE  Told(r, sessions[u], Session(u), wish[u], d)
  BY <1>9, <1>6, IdleIs DEF Told
<1> QED
  BY <1>1, <1>6, <1>7, <1>8, <1>9, IdleIs DEF Does

LEMMA DoesStatus ==
  ASSUME SessInv, Overlapping = {}, NEW t \in Thread, NEW u \in User, Status(t, u)
  PROVE  Does(t, u)
<1>1. Turn(t, u) /\ req[t] = Idle /\ Handled(Idle, sessions[u], Session(u), wish[u])
  BY CallerStart DEF Status
<1>2. PICK r : r = Request(u, "no", "load")
  OBVIOUS
<1>3. r \in Requests /\ r.pc = "load" /\ r.user = u /\ r.obj = "no" /\ r.then = "idle"
  BY <1>2, IdleIs DEF Request, Requests, Labels
<1>4. Moves(t, u, sessions[u], Session(u), r, wish[u])
  BY <1>1, <1>2, <1>3, MovesRequest DEF Status
<1>5. ~Alive(sessions[u], Session(u))
  BY DEF Status, Connected, Alive
<1>6. Handled(r, sessions[u], Session(u), wish[u])
  BY <1>1, <1>3, <1>5, IdleIs DEF Handled
<1>7. ASSUME NEW d \in Record, Told(Idle, sessions[u], Session(u), wish[u], d)
      PROVE  Told(r, sessions[u], Session(u), wish[u], d)
  BY <1>7, <1>3, IdleIs DEF Told
<1> QED
  BY <1>1, <1>3, <1>4, <1>6, <1>7, IdleIs DEF Does

LEMMA ServerStart ==
  ASSUME SessInv, NEW t \in Thread, req[t].pc # "idle", NEW u, u = req[t].user
  PROVE  /\ u \in User /\ Turn(t, u) /\ req[t] \in Requests /\ wish[u] \in Wishes
         /\ Handled(req[t], sessions[u], Session(u), wish[u])
         /\ sessions[u] # "no" => sessions[u] \in Object /\ Session(u) \in Objects
         /\ req[t].obj # "no" => /\ req[t].obj = sessions[u] /\ sessions[u] # "no"
                                 /\ object[req[t].obj] = Session(u)
<1>1. /\ sessions \in [User -> Object \cup {"no"}] /\ object \in [Object -> Objects]
      /\ req \in [Thread -> Requests]
  BY TypesAre DEF SessInv
<1>2. /\ u \in User /\ Turn(t, u) /\ Handled(req[t], sessions[u], Session(u), wish[u])
  BY TurnOfServer
<1>3. wish[u] \in Wishes
  BY <1>2, KeepsWish
<1>4. sessions[u] # "no" => sessions[u] \in Object /\ Session(u) \in Objects
  BY <1>1, <1>2 DEF Session
<1>5. req[t].obj # "no" => req[t].obj = sessions[u]
  BY <1>2 DEF Handled
<1> QED
  BY <1>1, <1>2, <1>3, <1>4, <1>5 DEF Session

LEMMA DoesLoginSucceeds ==
  ASSUME SessInv, NEW t \in Thread, LoginSucceeds(t)
  PROVE  Does(t, req[t].user)
<1>1. req[t].pc = "login"
  BY DEF LoginSucceeds
<1>2. PICK u : u = req[t].user
  OBVIOUS
<1>3. PICK q : q = req[t]
  OBVIOUS
<1>4. PICK s : s = Session(u)
  OBVIOUS
<1>5. /\ u \in User /\ Turn(t, u) /\ q \in Requests /\ Handled(q, sessions[u], s, wish[u])
      /\ sessions[u] # "no" => sessions[u] \in Object /\ s \in Objects
      /\ q.obj # "no" => q.obj = sessions[u] /\ sessions[u] # "no" /\ object[q.obj] = s
  BY <1>1, <1>2, <1>3, <1>4, ServerStart
<1>6. /\ q.obj = sessions[u] /\ sessions[u] # "no" /\ sessions[u] \in Object /\ s \in Objects
      /\ object[q.obj] = s /\ q.pc = "login" /\ q.mine = TRUE /\ s.client = TRUE /\ q.then = "idle"
      /\ q.user = u
  BY <1>1, <1>2, <1>3, <1>5 DEF Handled, Requests, Objects
<1>7. PICK c : c = SignedIn(t, q.asked)
  OBVIOUS
<1>8. /\ c \in Objects /\ c.mode = q.asked /\ c.sid = "choice" /\ c.tried = TRUE
      /\ c.sends = TRUE /\ c.client = TRUE
  BY ZenonT(30), <1>3, <1>5, <1>6, <1>7 DEF SignedIn, Objects, Requests
<1>9. PICK a : a = [c EXCEPT !.remember = q.remember]
  OBVIOUS
<1>10. /\ a \in Objects /\ a.mode = q.asked /\ a.sid = "choice" /\ a.tried = TRUE
       /\ a.sends = TRUE /\ a.client = TRUE /\ a.remember = q.remember
       /\ q.asked \in {"PAPER", "LIVE"}
  BY <1>5, <1>8, <1>9 DEF Objects, Requests
<1>11. PICK r : r = Persisting(q, a)
  OBVIOUS
<1>12. /\ r \in Requests /\ r.user = u /\ r.obj = sessions[u] /\ r.then = "idle"
       /\ r.pc = (IF a.remember THEN "save" ELSE "clear")
       /\ a.remember => r.record # NoRecord /\ r.record.mode = a.mode
  BY <1>5, <1>6, <1>10, <1>11, PersistingIs
<1>13. /\ object' = [object EXCEPT ![sessions[u]] = a] /\ Continue(t, r)
       /\ wish' = [wish EXCEPT ![u] = a.mode] /\ UNCHANGED sessions
  BY <1>2, <1>3, <1>6, <1>7, <1>9, <1>10, <1>11 DEF LoginSucceeds, Obeyed
<1>14. a.mode \in Wishes
  BY <1>10 DEF Wishes
<1>15. Moves(t, u, sessions[u], a, r, a.mode)
  BY <1>5, <1>6, <1>10, <1>12, <1>13, <1>14, MovesObject
<1>16. Handled(r, sessions[u], a, a.mode)
  BY <1>6, <1>10, <1>12 DEF Handled, Usable, IsConnected
<1>17. \A d \in Record : Told(r, sessions[u], a, a.mode, d)
  BY <1>10, <1>12 DEF Told
<1> QED
  BY <1>1, <1>2, <1>12, <1>15, <1>16, <1>17 DEF Does

LEMMA DoesLoginFails ==
  ASSUME SessInv, NEW t \in Thread, LoginFails(t)
  PROVE  Does(t, req[t].user)
<1>1. req[t].pc = "login"
  BY DEF LoginFails
<1>2. PICK u : u = req[t].user
  OBVIOUS
<1>3. PICK q : q = req[t]
  OBVIOUS
<1>4. PICK s : s = Session(u)
  OBVIOUS
<1>5. /\ u \in User /\ Turn(t, u) /\ q \in Requests /\ Handled(q, sessions[u], s, wish[u])
      /\ sessions[u] # "no" => sessions[u] \in Object /\ s \in Objects
      /\ q.obj # "no" => q.obj = sessions[u] /\ sessions[u] # "no" /\ object[q.obj] = s
      /\ wish[u] \in Wishes
  BY <1>1, <1>2, <1>3, <1>4, ServerStart
<1>6. /\ q.obj = sessions[u] /\ sessions[u] # "no" /\ sessions[u] \in Object /\ s \in Objects
      /\ object[q.obj] = s /\ q.pc = "login"
  BY <1>1, <1>3, <1>5 DEF Handled
<1>7. PICK a : a = [s EXCEPT !.mode = "DISCONNECTED"]
  OBVIOUS
<1>8. a \in Objects /\ a.mode = "DISCONNECTED"
  BY <1>6, <1>7 DEF Objects
<1>9. /\ object' = Kept([object EXCEPT ![sessions[u]] = a]) /\ Continue(t, Idle)
      /\ UNCHANGED sessions
  <2>1. [object EXCEPT ![q.obj].mode = "DISCONNECTED"] = [object EXCEPT ![sessions[u]] = a]
    BY <1>6, <1>7
  <2> QED
    BY <2>1, <1>3 DEF LoginFails
<1>10. wish' = [wish EXCEPT ![u] = wish[u]]
  BY <1>5, KeepsWish DEF LoginFails, history
<1>11. Moves(t, u, sessions[u], a, Idle, wish[u])
  BY <1>5, <1>6, <1>8, <1>9, <1>10, MovesObject, IdleIs
<1>12. Handled(Idle, sessions[u], a, wish[u])
  BY <1>8, IdleIs DEF Handled, Usable, IsConnected
<1>13. ASSUME NEW d \in Record, Told(q, sessions[u], s, wish[u], d)
       PROVE  Told(Idle, sessions[u], a, wish[u], d)
  BY <1>13, <1>6, <1>8, IdleIs DEF Told, Alive, IsConnected
<1> QED
  BY <1>1, <1>2, <1>3, <1>4, <1>11, <1>12, <1>13, IdleIs DEF Does

LEMMA DoesOtpAccepted ==
  ASSUME SessInv, NEW t \in Thread, OtpAccepted(t)
  PROVE  Does(t, req[t].user)
<1>1. req[t].pc = "otp"
  BY DEF OtpAccepted
<1>2. PICK u : u = req[t].user
  OBVIOUS
<1>3. PICK q : q = req[t]
  OBVIOUS
<1>4. PICK s : s = Session(u)
  OBVIOUS
<1>5. /\ u \in User /\ Turn(t, u) /\ q \in Requests /\ Handled(q, sessions[u], s, wish[u])
      /\ sessions[u] # "no" => sessions[u] \in Object /\ s \in Objects
      /\ q.obj # "no" => q.obj = sessions[u] /\ sessions[u] # "no" /\ object[q.obj] = s
  BY <1>1, <1>2, <1>3, <1>4, ServerStart
<1>6. /\ q.obj = sessions[u] /\ sessions[u] # "no" /\ sessions[u] \in Object /\ s \in Objects
      /\ object[q.obj] = s /\ q.mine = TRUE /\ s.client = TRUE
  BY <1>1, <1>3, <1>5 DEF Handled, Requests, Objects
<1>7. PICK a : a = SignedIn(t, "LIVE")
  OBVIOUS
<1>8. /\ a \in Objects /\ a.mode = "LIVE" /\ a.sid = "choice" /\ a.tried = TRUE
      /\ a.sends = TRUE /\ a.client = TRUE
  BY <1>3, <1>5, <1>6, <1>7 DEF SignedIn, Objects, Requests
<1>9. /\ object' = Kept([object EXCEPT ![sessions[u]] = a]) /\ Continue(t, Idle)
      /\ UNCHANGED sessions /\ wish' = [wish EXCEPT ![u] = "LIVE"]
  BY <1>2, <1>3, <1>6, <1>7 DEF OtpAccepted, Obeyed
<1>10. Moves(t, u, sessions[u], a, Idle, "LIVE")
  BY <1>5, <1>6, <1>8, <1>9, MovesObject, IdleIs DEF Wishes
<1>11. Handled(Idle, sessions[u], a, "LIVE")
  BY <1>8, IdleIs DEF Handled, Usable
<1>12. \A d \in Record : Told(Idle, sessions[u], a, "LIVE", d)
  BY <1>8, IdleIs DEF Told
<1> QED
  BY <1>1, <1>2, <1>10, <1>11, <1>12, IdleIs DEF Does

LEMMA DoesOtpFails ==
  ASSUME SessInv, NEW t \in Thread, OtpFails(t)
  PROVE  Does(t, req[t].user)
<1>1. req[t].pc = "otp"
  BY DEF OtpFails
<1>2. PICK u : u = req[t].user
  OBVIOUS
<1>3. PICK q : q = req[t]
  OBVIOUS
<1>4. PICK s : s = Session(u)
  OBVIOUS
<1>5. /\ u \in User /\ Turn(t, u) /\ q \in Requests /\ Handled(q, sessions[u], s, wish[u])
      /\ sessions[u] # "no" => sessions[u] \in Object /\ s \in Objects
      /\ q.obj # "no" => q.obj = sessions[u] /\ sessions[u] # "no" /\ object[q.obj] = s
      /\ wish[u] \in Wishes
  BY <1>1, <1>2, <1>3, <1>4, ServerStart
<1>6. /\ q.obj = sessions[u] /\ sessions[u] # "no" /\ sessions[u] \in Object /\ s \in Objects
      /\ object[q.obj] = s /\ q.pc = "otp" /\ q.then = "idle"
  BY <1>1, <1>3, <1>5 DEF Handled
<1>7. PICK a \in {s, [s EXCEPT !.mode = "DISCONNECTED"],
                  [NoId(s) EXCEPT !.mode = "DISCONNECTED", !.sends = FALSE]} :
         object' = Kept([object EXCEPT ![sessions[u]] = a])
  BY <1>3, <1>6 DEF OtpFails
<1>8. a \in Objects /\ (a = s \/ a.mode = "DISCONNECTED")
  <2>1. CASE a = s
    BY <2>1, <1>6
  <2>2. CASE a = [s EXCEPT !.mode = "DISCONNECTED"]
    BY <2>2, <1>6 DEF Objects
  <2>3. CASE a = [NoId(s) EXCEPT !.mode = "DISCONNECTED", !.sends = FALSE]
    <3>1. PICK c : c = NoId(s)
      OBVIOUS
    <3>2. c \in Objects
      BY <3>1, <1>6, NoIdIs
    <3> QED
      BY <2>3, <3>1, <3>2 DEF Objects
  <2> QED
    BY <1>7, <2>1, <2>2, <2>3
<1>9. Continue(t, Idle) /\ UNCHANGED sessions /\ wish' = [wish EXCEPT ![u] = wish[u]]
  BY <1>5, KeepsWish DEF OtpFails, history
<1>10. Moves(t, u, sessions[u], a, Idle, wish[u])
  BY <1>5, <1>6, <1>7, <1>8, <1>9, MovesObject, IdleIs
<1>11. Handled(Idle, sessions[u], a, wish[u])
  BY <1>5, <1>6, <1>8, IdleIs DEF Handled, Usable, IsConnected
<1>12. ASSUME NEW d \in Record, Told(q, sessions[u], s, wish[u], d)
       PROVE  Told(Idle, sessions[u], a, wish[u], d)
  BY <1>12, <1>6, <1>8, IdleIs DEF Told, Alive, IsConnected
<1> QED
  BY <1>1, <1>2, <1>3, <1>4, <1>10, <1>11, <1>12, IdleIs DEF Does

LEMMA DoesDrop ==
  ASSUME SessInv, NEW t \in Thread, Drop(t)
  PROVE  Does(t, req[t].user)
<1>1. req[t].pc = "drop"
  BY DEF Drop
<1>2. PICK u : u = req[t].user
  OBVIOUS
<1>3. PICK q : q = req[t]
  OBVIOUS
<1>4. /\ u \in User /\ Turn(t, u) /\ q \in Requests
      /\ Handled(q, sessions[u], Session(u), wish[u])
  BY <1>1, <1>2, <1>3, ServerStart
<1>5. q.obj = sessions[u] /\ q.then = "drop" /\ q.pc = "drop"
  BY <1>1, <1>3, <1>4 DEF Handled
<1>6. sessions \in [User -> Object \cup {"no"}] /\ object \in [Object -> Objects]
  BY TypesAre DEF SessInv
<1>7. PICK os : os = [o \in Object |-> IF o = q.obj
                       THEN [object[o] EXCEPT !.remember = FALSE] ELSE object[o]]
  OBVIOUS
<1>8. os \in [Object -> Objects]
  <2>1. ASSUME NEW o \in Object PROVE [object[o] EXCEPT !.remember = FALSE] \in Objects
    <3>1. PICK c : c = object[o]
      OBVIOUS
    <3>2. c \in Objects
      BY <3>1, <1>6
    <3> QED
      BY <3>1, <3>2 DEF Objects
  <2> QED
    BY <1>6, <1>7, <2>1
<1>9. sessions' = [sessions EXCEPT ![u] = "no"] /\ object' = Kept(os)
  BY <1>2, <1>3, <1>7 DEF Drop
<1>10. ASSUME NEW v \in User \ {u}, sessions[v] # "no"
       PROVE  object'[sessions[v]] = object[sessions[v]]
  <2>1. sessions'[v] = sessions[v] /\ sessions[v] \in Object /\ sessions[v] # q.obj
    BY <1>4, <1>5, <1>6, <1>9, <1>10 DEF SessInv, Owned
  <2>2. object'[sessions'[v]] = os[sessions'[v]]
    BY <1>8, <1>9, <2>1, KeptIs
  <2> QED
    BY <1>7, <2>1, <2>2
<1>11. object' \in [Object -> Objects]
  BY <1>8, <1>9, KeptIs
<1>12. /\ wish' = [wish EXCEPT ![u] = "none"] /\ req' = [req EXCEPT ![t] = Idle]
  BY <1>2 DEF Drop, Obeyed, Continue
<1>13. Moves(t, u, "no", Fresh, Idle, "none")
  BY <1>4, <1>9, <1>10, <1>11, <1>12, IdleIs DEF Moves, Wishes
<1>14. Handled(Idle, "no", Fresh, "none")
  BY IdleIs DEF Handled
<1>15. ASSUME NEW d \in Record, Told(q, sessions[u], Session(u), wish[u], d)
       PROVE  Told(Idle, "no", Fresh, "none", d)
  BY <1>15, <1>5, IdleIs, NoRecordIs DEF Told, Alive
<1> QED
  BY <1>1, <1>2, <1>3, <1>13, <1>14, <1>15, IdleIs DEF Does

(* The record on disk is the one the update in progress will leave.         *)
LEMMA DoesLoad ==
  ASSUME SessInv, NEW t \in Thread, Load(t)
  PROVE  Does(t, req[t].user)
<1>1. req[t].pc = "load"
  BY DEF Load
<1>2. PICK u : u = req[t].user
  OBVIOUS
<1>3. PICK q : q = req[t]
  OBVIOUS
<1>4. /\ u \in User /\ Turn(t, u) /\ q \in Requests
      /\ Handled(q, sessions[u], Session(u), wish[u])
  BY <1>1, <1>2, <1>3, ServerStart
<1>5. q.obj = "no" /\ q.then = "idle" /\ q.pc = "load" /\ ~Alive(sessions[u], Session(u)) /\ q.user = u
  BY <1>1, <1>2, <1>3, <1>4 DEF Handled
<1>6. file[u] \in Record
  BY <1>4, TypesAre DEF SessInv
<1>7. PICK r : r = IF file[u] = NoRecord THEN Idle
                   ELSE IF file[u].aged THEN [q EXCEPT !.pc = "clear"]
                   ELSE [q EXCEPT !.pc = "restore", !.record = file[u]]
  OBVIOUS
<1>8. r = Idle \/ /\ r \in Requests /\ r.pc \in {"clear", "restore"} /\ r.user = u /\ r.obj = "no"
                  /\ r.then = "idle" /\ file[u] # NoRecord
                  /\ r.pc = "restore" => r.record = file[u]
  <2>1. CASE file[u] # NoRecord /\ file[u].aged
    BY <2>1, <1>4, <1>5, <1>7 DEF Requests, Labels
  <2>2. CASE file[u] # NoRecord /\ ~file[u].aged
    BY <2>2, <1>4, <1>5, <1>6, <1>7 DEF Requests, Labels
  <2> QED
    BY <2>1, <2>2, <1>7
<1>9. Moves(t, u, sessions[u], Session(u), r, wish[u])
  <2>1. Continue(t, r) /\ UNCHANGED <<sessions, object, wish>>
    BY <1>2, <1>3, <1>7 DEF Load, history
  <2>2. r \in Requests /\ (r.pc = "idle" => r = Idle) /\ (r.pc # "idle" => r.user = u)
    BY <1>8, IdleIs
  <2> QED
    BY <1>4, <2>1, <2>2, MovesRequest
<1>10. Handled(r, sessions[u], Session(u), wish[u])
  BY <1>4, <1>5, <1>8, IdleIs DEF Handled
<1>11. ASSUME NEW d \in Record, Told(q, sessions[u], Session(u), wish[u], d),
              file[u] # NoRecord => d = file[u]
       PROVE  Told(r, sessions[u], Session(u), wish[u], d)
  BY <1>11, <1>5, <1>8, IdleIs DEF Told
<1> QED
  BY <1>1, <1>2, <1>3, <1>8, <1>9, <1>10, <1>11, IdleIs DEF Does

LEMMA DoesRestore ==
  ASSUME SessInv, NEW t \in Thread, Restore(t)
  PROVE  Does(t, req[t].user)
<1>1. req[t].pc = "restore"
  BY DEF Restore
<1>2. PICK u : u = req[t].user
  OBVIOUS
<1>3. PICK q : q = req[t]
  OBVIOUS
<1>4. /\ u \in User /\ Turn(t, u) /\ q \in Requests /\ wish[u] \in Wishes
      /\ Handled(q, sessions[u], Session(u), wish[u])
  BY <1>1, <1>2, <1>3, ServerStart
<1>5. q.obj = "no" /\ q.then = "idle" /\ q.pc = "restore" /\ q.user = u
  BY <1>1, <1>2, <1>3, <1>4 DEF Handled
<1>6. PICK m : m = IF q.record.mode = "LIVE" THEN "LIVE" ELSE "PAPER"
  OBVIOUS
<1>7. PICK o \in Entry(u) :
        /\ Registered(u, o, Build([Found(u, o) EXCEPT !.sid = "choice", !.tried = FALSE, !.mode = m]))
        /\ NewClient(o, t, [q EXCEPT !.pc = "verify", !.obj = o])
  BY <1>2, <1>3, <1>6 DEF Restore
<1>8. PICK f : f = Found(u, o)
  OBVIOUS
<1>9. f \in Objects /\ o \in Object /\ o # "no"
  BY <1>4, <1>8, FoundIs, ChoiceSessionAssumption
<1>10. PICK c : c = [f EXCEPT !.sid = "choice", !.tried = FALSE, !.mode = m]
  OBVIOUS
<1>11. PICK a : a = Build(c)
  OBVIOUS
<1>12. c \in Objects /\ c.mode = m
  BY <1>6, <1>9, <1>10 DEF Objects
<1>13. a \in Objects /\ a.mode = m /\ a.client = TRUE /\ a.sends = TRUE
  BY <1>11, <1>12, BuildIs
<1>14. PICK r : r = [q EXCEPT !.pc = "verify", !.obj = o]
  OBVIOUS
<1>15. r \in Requests /\ r.pc = "verify" /\ r.user = u /\ r.obj = o /\ r.then = "idle"
  BY <1>4, <1>5, <1>9, <1>14 DEF Requests, Labels
<1>16. wish' = [wish EXCEPT ![u] = wish[u]]
  BY <1>4, KeepsWish DEF Restore, history
<1>17. Moves(t, u, o, a, r, wish[u])
  <2>1. Registered(u, o, a) /\ NewClient(o, t, r)
    BY <1>7, <1>8, <1>10, <1>11, <1>14
  <2>2. r.pc # "idle"
    BY <1>15
  <2> QED
    BY <2>1, <2>2, <1>4, <1>13, <1>15, <1>16, MovesEntry
<1>18. Handled(r, o, a, wish[u])
  BY <1>6, <1>9, <1>13, <1>15 DEF Handled
<1>19. ASSUME NEW d \in Record, Told(q, sessions[u], Session(u), wish[u], d)
       PROVE  Told(r, o, a, wish[u], d)
  <2>1. d # NoRecord /\ q.record = d /\ wish[u] # "none" /\ (d.mode = "LIVE" => wish[u] \in {"LIVE", "DEMO"})
    BY <1>19, <1>5 DEF Told
  <2> QED
    BY <2>1, <1>6, <1>13, <1>15 DEF Told
<1> QED
  BY <1>1, <1>2, <1>3, <1>15, <1>17, <1>18, <1>19 DEF Does

LEMMA DoesVerified ==
  ASSUME SessInv, NEW t \in Thread, Verified(t)
  PROVE  Does(t, req[t].user)
<1>1. req[t].pc = "verify"
  BY DEF Verified
<1>2. PICK u : u = req[t].user
  OBVIOUS
<1>3. PICK q : q = req[t]
  OBVIOUS
<1>4. PICK s : s = Session(u)
  OBVIOUS
<1>5. /\ u \in User /\ Turn(t, u) /\ q \in Requests /\ Handled(q, sessions[u], s, wish[u])
      /\ sessions[u] # "no" => sessions[u] \in Object /\ s \in Objects
      /\ q.obj # "no" => q.obj = sessions[u] /\ sessions[u] # "no" /\ object[q.obj] = s
      /\ wish[u] \in Wishes
  BY <1>1, <1>2, <1>3, <1>4, ServerStart
<1>6. /\ q.obj = sessions[u] /\ sessions[u] # "no" /\ sessions[u] \in Object /\ s \in Objects
      /\ object[q.obj] = s /\ q.pc = "verify" /\ q.then = "idle"
      /\ s.client = TRUE /\ s.sends = TRUE
  BY <1>1, <1>3, <1>5 DEF Handled, Objects
<1>7. PICK a : a = [s EXCEPT !.remember = TRUE, !.tried = TRUE]
  OBVIOUS
<1>8. /\ a \in Objects /\ a.mode = s.mode /\ a.sid = s.sid /\ a.client = TRUE /\ a.sends = TRUE
      /\ a.tried = TRUE
  BY <1>6, <1>7 DEF Objects
<1>9. /\ object' = Kept([object EXCEPT ![sessions[u]] = a]) /\ Continue(t, Idle)
      /\ UNCHANGED sessions
  <2>1. object \in [Object -> Objects]
    BY TypesAre DEF SessInv
  <2>2. PICK p : p = [object EXCEPT ![q.obj].remember = TRUE]
    OBVIOUS
  <2>3. p = [object EXCEPT ![sessions[u]] = [s EXCEPT !.remember = TRUE]]
    BY <1>6, <2>2
  <2>4. p[sessions[u]] = [s EXCEPT !.remember = TRUE] /\ p[sessions[u]].tried = s.tried
    BY <1>6, <2>1, <2>3 DEF Objects
  <2>5. [p EXCEPT ![q.obj].tried = @ \/ s.sends] = [object EXCEPT ![sessions[u]] = a]
    <3>1. [p EXCEPT ![q.obj].tried = @ \/ s.sends]
            = [p EXCEPT ![sessions[u]] = [p[sessions[u]] EXCEPT !.tried = p[sessions[u]].tried \/ s.sends]]
      BY <1>6
    <3>2. [p[sessions[u]] EXCEPT !.tried = p[sessions[u]].tried \/ s.sends] = a
      BY <1>6, <1>7, <2>4 DEF Objects
    <3> QED
      BY <3>1, <3>2, <2>3, <2>1, <1>6
  <2> QED
    BY <1>3, <1>6, <2>2, <2>5 DEF Verified
<1>10. wish' = [wish EXCEPT ![u] = wish[u]]
  BY <1>5, KeepsWish DEF Verified
<1>11. Moves(t, u, sessions[u], a, Idle, wish[u])
  BY <1>5, <1>6, <1>8, <1>9, <1>10, MovesObject, IdleIs
<1>12. Handled(Idle, sessions[u], a, wish[u])
  BY <1>5, <1>6, <1>8, IdleIs DEF Handled, Usable
<1>13. ASSUME NEW d \in Record, Told(q, sessions[u], s, wish[u], d)
       PROVE  Told(Idle, sessions[u], a, wish[u], d)
  <2>1. d # NoRecord
    BY <1>13, <1>6 DEF Told
  <2> QED
    BY <2>1, <1>13, <1>6, <1>8, IdleIs DEF Told
<1> QED
  BY <1>1, <1>2, <1>3, <1>4, <1>11, <1>12, <1>13, IdleIs DEF Does

LEMMA DoesNotVerified ==
  ASSUME SessInv, NEW t \in Thread, NotVerified(t)
  PROVE  Does(t, req[t].user)
<1>1. req[t].pc = "verify"
  BY DEF NotVerified
<1>2. PICK u : u = req[t].user
  OBVIOUS
<1>3. PICK q : q = req[t]
  OBVIOUS
<1>4. /\ u \in User /\ Turn(t, u) /\ q \in Requests
      /\ Handled(q, sessions[u], Session(u), wish[u])
  BY <1>1, <1>2, <1>3, ServerStart
<1>5. q.obj = sessions[u] /\ sessions[u] # "no" /\ q.user = u
  BY <1>1, <1>2, <1>3, <1>4 DEF Handled
<1>6. PICK r : r = [q EXCEPT !.pc = "clear", !.then = "discard"]
  OBVIOUS
<1>7. r \in Requests /\ r.pc = "clear" /\ r.user = u /\ r.obj = sessions[u] /\ r.then = "discard"
  BY <1>4, <1>5, <1>6 DEF Requests, Labels
<1>8. Moves(t, u, sessions[u], Session(u), r, wish[u])
  BY <1>2, <1>3, <1>4, <1>6, <1>7, MovesRequest DEF NotVerified, history
<1>9. Handled(r, sessions[u], Session(u), wish[u])
  BY <1>4, <1>5, <1>7 DEF Handled
<1>10. ASSUME NEW d \in Record, Told(q, sessions[u], Session(u), wish[u], d)
       PROVE  Told(r, sessions[u], Session(u), wish[u], d)
  BY <1>10, <1>7 DEF Told
<1> QED
  BY <1>1, <1>2, <1>3, <1>7, <1>8, <1>9, <1>10 DEF Does

LEMMA DoesDiscard ==
  ASSUME SessInv, NEW t \in Thread, Discard(t)
  PROVE  Does(t, req[t].user)
<1>1. req[t].pc = "discard"
  BY DEF Discard
<1>2. PICK u : u = req[t].user
  OBVIOUS
<1>3. PICK q : q = req[t]
  OBVIOUS
<1>4. PICK s : s = Session(u)
  OBVIOUS
<1>5. /\ u \in User /\ Turn(t, u) /\ q \in Requests /\ Handled(q, sessions[u], s, wish[u])
      /\ sessions[u] # "no" => sessions[u] \in Object /\ s \in Objects
      /\ q.obj # "no" => q.obj = sessions[u] /\ sessions[u] # "no" /\ object[q.obj] = s
      /\ wish[u] \in Wishes
  BY <1>1, <1>2, <1>3, <1>4, ServerStart
<1>6. /\ q.obj = sessions[u] /\ sessions[u] # "no" /\ sessions[u] \in Object /\ s \in Objects
      /\ object[q.obj] = s /\ q.pc = "discard" /\ q.then = "discard"
  BY <1>1, <1>3, <1>5 DEF Handled
<1>7. PICK n : n = NoId(s)
  OBVIOUS
<1>8. PICK c : c = NoClient(n)
  OBVIOUS
<1>9. PICK a : a = [c EXCEPT !.mode = "DISCONNECTED"]
  OBVIOUS
<1>10. a \in Objects /\ a.mode = "DISCONNECTED"
  <2>1. n \in Objects
    BY <1>6, <1>7, NoIdIs
  <2>2. c \in Objects
    BY <2>1, <1>8, NoClientIs
  <2> QED
    BY <2>2, <1>9 DEF Objects
<1>11. /\ object' = Kept([object EXCEPT ![sessions[u]] = a]) /\ NewClient(sessions[u], t, Idle)
       /\ UNCHANGED sessions
  <2>1. [object EXCEPT ![q.obj] = [NoClient(NoId(@)) EXCEPT !.mode = "DISCONNECTED"]]
          = [object EXCEPT ![sessions[u]] = a]
    BY <1>6, <1>7, <1>8, <1>9
  <2> QED
    BY <2>1, <1>3, <1>6 DEF Discard
<1>12. wish' = [wish EXCEPT ![u] = wish[u]]
  BY <1>5, KeepsWish DEF Discard, history
<1>13. Moves(t, u, sessions[u], a, Idle, wish[u])
  BY <1>5, <1>6, <1>10, <1>11, <1>12, MovesObject, IdleIs
<1>14. Handled(Idle, sessions[u], a, wish[u])
  BY <1>10, IdleIs DEF Handled, Usable, IsConnected
<1>15. ASSUME NEW d \in Record, Told(q, sessions[u], s, wish[u], d)
       PROVE  Told(Idle, sessions[u], a, wish[u], d)
  BY <1>15, <1>6, <1>10, IdleIs DEF Told, Alive, IsConnected
<1> QED
  BY <1>1, <1>2, <1>3, <1>4, <1>13, <1>14, <1>15, IdleIs DEF Does

-----------------------------------------------------------------------------
(* The steps on the file                                                    *)

(* Once its update is through or has failed, the request goes on.           *)
LEMMA OnwardKeeps ==
  ASSUME SessInv, NEW t \in Thread, req[t].pc \in {"save", "clear", "open", "write"},
         NEW u, u = req[t].user, NEW r, r = Onward(req[t])
  PROVE  /\ r \in Requests /\ r.pc \notin {"open", "write"}
         /\ (r.pc = "idle" => r = Idle) /\ (r.pc # "idle" => r.user = u)
         /\ Handled(r, sessions[u], Session(u), wish[u])
         /\ \A d \in Record :
              req[t].pc \in {"open", "write"} \/ (req[t].pc = "clear" /\ d = NoRecord)
                => (Told(req[t], sessions[u], Session(u), wish[u], d)
                      => Told(r, sessions[u], Session(u), wish[u], d))
<1>1. PICK q : q = req[t]
  OBVIOUS
<1>2. /\ q \in Requests /\ Handled(q, sessions[u], Session(u), wish[u]) /\ q.user = u
  BY <1>1, ServerStart
<1>3. CASE q.then = "idle"
  <2>1. r = Idle
    BY <1>1, <1>2, <1>3, OnwardIs
  <2>2. Handled(Idle, sessions[u], Session(u), wish[u])
    BY <1>1, <1>2, <1>3, IdleIs DEF Handled
  <2>3. ASSUME NEW d \in Record, Told(q, sessions[u], Session(u), wish[u], d),
               q.pc \in {"open", "write"} \/ (q.pc = "clear" /\ d = NoRecord)
        PROVE  Told(Idle, sessions[u], Session(u), wish[u], d)
    <3>1. CASE q.pc \in {"open", "write"}
      BY <3>1, <2>3, <1>3, IdleIs DEF Told
    <3>2. CASE q.pc = "clear" /\ d = NoRecord
      BY <3>2, <2>3, <1>3, IdleIs, NoRecordIs DEF Told
    <3> QED
      BY <2>3, <3>1, <3>2
  <2> QED
    BY <2>1, <2>2, <2>3, <1>1, IdleIs
<1>4. CASE q.then # "idle"
  <2>1. /\ r \in Requests /\ r.pc = q.then /\ r.user = u /\ r.obj = q.obj /\ r.then = q.then
        /\ q.then \in {"drop", "discard"}
    BY <1>1, <1>2, <1>4, OnwardIs DEF Requests
  <2>2. Handled(r, sessions[u], Session(u), wish[u])
    BY <1>1, <1>2, <2>1 DEF Handled
  <2>3. ASSUME NEW d \in Record, Told(q, sessions[u], Session(u), wish[u], d),
               q.pc \in {"open", "write"} \/ (q.pc = "clear" /\ d = NoRecord)
        PROVE  Told(r, sessions[u], Session(u), wish[u], d)
    <3>1. CASE q.pc \in {"open", "write"}
      BY <3>1, <2>3, <2>1 DEF Told
    <3>2. CASE q.pc = "clear" /\ d = NoRecord
      BY <3>2, <2>3, <2>1, NoRecordIs DEF Told
    <3> QED
      BY <2>3, <3>1, <3>2
  <2> QED
    BY <2>1, <2>2, <2>3, <1>1
<1> QED
  BY <1>3, <1>4

\* Request r of user u has a copy of the file in hand, or found it has no
\* record to clear.
Reads(t, u, r) ==
  /\ Moves(t, u, sessions[u], Session(u), r, wish[u])
  /\ Handled(r, sessions[u], Session(u), wish[u])
  /\ \/ /\ file[u] = NoRecord /\ r.pc \notin {"open", "write"}
        /\ Told(req[t], sessions[u], Session(u), wish[u], NoRecord)
             => Told(r, sessions[u], Session(u), wish[u], NoRecord)
     \/ \E c \in Record :
          /\ r.pc = "open" /\ r.copy = [file EXCEPT ![u] = c] /\ r.user = u
          /\ \A d \in Record : Told(req[t], sessions[u], Session(u), wish[u], d)
                                 => Told(r, sessions[u], Session(u), wish[u], c)

LEMMA ReadFileDoes ==
  ASSUME SessInv, NEW t \in Thread, ReadFile(t), NEW u, u = req[t].user
  PROVE  \E r : Reads(t, u, r)
<1>1. PICK q : q = req[t]
  OBVIOUS
<1>2. q.pc \in {"save", "clear"}
  BY <1>1 DEF ReadFile
<1>3. /\ u \in User /\ Turn(t, u) /\ q \in Requests
      /\ Handled(q, sessions[u], Session(u), wish[u]) /\ q.user = u
  BY <1>1, <1>2, ServerStart
<1>4. UNCHANGED <<sessions, wish>> /\ object' \in {object, Kept(object)}
  BY DEF ReadFile, Released
<1>5. file \in [User -> Record]
  BY TypesAre DEF SessInv
<1>6. CASE q.pc = "clear" /\ file[u] = NoRecord
  <2>1. PICK r : r = Onward(q)
    OBVIOUS
  <2>2. /\ r \in Requests /\ r.pc \notin {"open", "write"}
        /\ (r.pc = "idle" => r = Idle) /\ (r.pc # "idle" => r.user = u)
        /\ Handled(r, sessions[u], Session(u), wish[u])
        /\ Told(q, sessions[u], Session(u), wish[u], NoRecord)
             => Told(r, sessions[u], Session(u), wish[u], NoRecord)
    BY <2>1, <1>1, <1>2, <1>6, OnwardKeeps, NoRecordIs
  <2>3. Continue(t, r)
    BY <2>1, <1>1, <1>3, <1>6 DEF ReadFile
  <2>4. Moves(t, u, sessions[u], Session(u), r, wish[u])
    BY <2>2, <2>3, <1>3, <1>4, MovesRequest
  <2> QED
    BY <2>2, <2>4, <1>1, <1>6 DEF Reads
<1>7. CASE ~(q.pc = "clear" /\ file[u] = NoRecord)
  <2>1. PICK c : c = IF q.pc = "save" THEN q.record ELSE NoRecord
    OBVIOUS
  <2>2. c \in Record
    BY <2>1, <1>3, NoRecordIs DEF Requests
  <2>3. PICK f : f = [file EXCEPT ![u] = c]
    OBVIOUS
  <2>4. f \in [User -> Record]
    BY <2>2, <2>3, <1>5
  <2>5. PICK r : r = [q EXCEPT !.pc = "open", !.copy = f]
    OBVIOUS
  <2>6. /\ r \in Requests /\ r.pc = "open" /\ r.copy = f /\ r.user = u /\ r.obj = q.obj
        /\ r.then = q.then
    BY <2>4, <2>5, <1>3 DEF Requests, Labels
  <2>7. Continue(t, r)
    BY <2>1, <2>3, <2>5, <1>1, <1>3, <1>7 DEF ReadFile
  <2>8. Moves(t, u, sessions[u], Session(u), r, wish[u])
    <3>1. r.pc # "idle"
      BY <2>6
    <3> QED
      BY <3>1, <2>6, <2>7, <1>3, <1>4, MovesRequest
  <2>9. Handled(r, sessions[u], Session(u), wish[u])
    BY <2>6, <1>2, <1>3 DEF Handled
  <2>10. ASSUME NEW d \in Record, Told(q, sessions[u], Session(u), wish[u], d)
         PROVE  Told(r, sessions[u], Session(u), wish[u], c)
    <3>1. CASE q.pc = "save"
      <4>1. q.then = "idle"
        BY <3>1, <1>3 DEF Handled
      <4> QED
        BY <4>1, <3>1, <2>10, <2>1, <2>6 DEF Told
    <3>2. CASE q.pc = "clear"
      BY <3>2, <2>10, <2>1, <2>6, NoRecordIs DEF Told
    <3> QED
      BY <3>1, <3>2, <1>2
  <2> QED
    BY <2>2, <2>3, <2>6, <2>8, <2>9, <2>10, <1>1 DEF Reads
<1> QED
  BY <1>6, <1>7

LEMMA OpenFileDoes ==
  ASSUME SessInv, NEW t \in Thread, OpenFile(t), NEW u, u = req[t].user
  PROVE  \E r :
           /\ Moves(t, u, sessions[u], Session(u), r, wish[u])
           /\ Handled(r, sessions[u], Session(u), wish[u])
           /\ req[t].pc = "open" /\ r.pc = "write" /\ r.copy = req[t].copy
           /\ \A d \in Record : Told(req[t], sessions[u], Session(u), wish[u], d)
                                  => Told(r, sessions[u], Session(u), wish[u], d)
<1>1. PICK q : q = req[t]
  OBVIOUS
<1>2. q.pc = "open"
  BY <1>1 DEF OpenFile
<1>3. /\ u \in User /\ Turn(t, u) /\ q \in Requests
      /\ Handled(q, sessions[u], Session(u), wish[u]) /\ q.user = u
  BY <1>1, <1>2, ServerStart
<1>4. PICK r : r = [q EXCEPT !.pc = "write"]
  OBVIOUS
<1>5. /\ r \in Requests /\ r.pc = "write" /\ r.copy = q.copy /\ r.user = u /\ r.obj = q.obj
      /\ r.then = q.then
  BY <1>3, <1>4 DEF Requests, Labels
<1>6. Moves(t, u, sessions[u], Session(u), r, wish[u])
  <2>1. r.pc # "idle"
    BY <1>5
  <2>2. Continue(t, r) /\ UNCHANGED <<sessions, object, wish>>
    BY <1>1, <1>4 DEF OpenFile, history
  <2> QED
    BY <2>1, <2>2, <1>3, <1>5, MovesRequest
<1>7. Handled(r, sessions[u], Session(u), wish[u])
  BY <1>2, <1>3, <1>5 DEF Handled
<1>8. ASSUME NEW d \in Record, Told(q, sessions[u], Session(u), wish[u], d)
      PROVE  Told(r, sessions[u], Session(u), wish[u], d)
  BY <1>8, <1>2, <1>5 DEF Told
<1> QED
  BY <1>1, <1>2, <1>5, <1>6, <1>7, <1>8

LEMMA WriteFileDoes ==
  ASSUME SessInv, NEW t \in Thread, WriteFile(t), NEW u, u = req[t].user
  PROVE  \E r :
           /\ Moves(t, u, sessions[u], Session(u), r, wish[u])
           /\ Handled(r, sessions[u], Session(u), wish[u])
           /\ req[t].pc = "write" /\ r.pc \notin {"open", "write"}
           /\ \A d \in Record : Told(req[t], sessions[u], Session(u), wish[u], d)
                                  => Told(r, sessions[u], Session(u), wish[u], d)
<1>1. req[t].pc = "write"
  BY DEF WriteFile
<1>2. /\ u \in User /\ Turn(t, u)
  BY <1>1, ServerStart
<1>3. PICK r : r = Onward(req[t])
  OBVIOUS
<1>4. /\ r \in Requests /\ r.pc \notin {"open", "write"}
      /\ (r.pc = "idle" => r = Idle) /\ (r.pc # "idle" => r.user = u)
      /\ Handled(r, sessions[u], Session(u), wish[u])
      /\ \A d \in Record : Told(req[t], sessions[u], Session(u), wish[u], d)
                             => Told(r, sessions[u], Session(u), wish[u], d)
  <2>1. req[t].pc \in {"save", "clear", "open", "write"} /\ req[t].pc \in {"open", "write"}
    BY <1>1
  <2>2. /\ r \in Requests /\ r.pc \notin {"open", "write"}
        /\ (r.pc = "idle" => r = Idle) /\ (r.pc # "idle" => r.user = u)
        /\ Handled(r, sessions[u], Session(u), wish[u])
    BY <2>1, <1>3, OnwardKeeps
  <2>3. ASSUME NEW d \in Record, Told(req[t], sessions[u], Session(u), wish[u], d)
        PROVE  Told(r, sessions[u], Session(u), wish[u], d)
    BY <2>1, <2>3, <1>3, OnwardKeeps
  <2> QED
    BY <2>2, <2>3
<1>5. Moves(t, u, sessions[u], Session(u), r, wish[u])
  <2>1. Continue(t, r) /\ UNCHANGED <<sessions, wish>> /\ object' \in {object, Kept(object)}
    BY <1>3 DEF WriteFile, Released, history
  <2> QED
    BY <2>1, <1>2, <1>4, MovesRequest
<1> QED
  BY <1>1, <1>4, <1>5

LEMMA StoreFailsDoes ==
  ASSUME SessInv, NEW t \in Thread, StoreFails(t), NEW u, u = req[t].user
  PROVE  \E r : /\ Moves(t, u, sessions[u], Session(u), r, wish[u])
                /\ Handled(r, sessions[u], Session(u), wish[u])
<1>1. req[t].pc \in {"save", "clear", "open", "write"} /\ req[t].pc # "idle"
  BY DEF StoreFails
<1>2. /\ u \in User /\ Turn(t, u)
  BY <1>1, ServerStart
<1>3. PICK r : r = Onward(req[t])
  OBVIOUS
<1>4. /\ r \in Requests
      /\ (r.pc = "idle" => r = Idle) /\ (r.pc # "idle" => r.user = u)
      /\ Handled(r, sessions[u], Session(u), wish[u])
  BY <1>1, <1>3, OnwardKeeps
<1>5. Moves(t, u, sessions[u], Session(u), r, wish[u])
  <2>1. Continue(t, r) /\ UNCHANGED <<sessions, wish>> /\ object' \in {object, Kept(object)}
    BY <1>3 DEF StoreFails, Released
  <2> QED
    BY <2>1, <1>2, <1>4, MovesRequest
<1> QED
  BY <1>4, <1>5

-----------------------------------------------------------------------------
(* Every step keeps the sessions in order                                   *)

LEMMA SameSessions ==
  ASSUME SessInv, UNCHANGED <<sessions, object, req, wish>>,
         file' \in [User -> Record], orderly' \in BOOLEAN
  PROVE  SessInv'
<1>1. TypeOK'
  BY TypesAre, TypesNext DEF SessInv
<1>2. Single' /\ Owned'
  BY DEF SessInv, Single, Owned
<1>3. ASSUME NEW u \in User PROVE Handled(AtWork(u), sessions[u], Session(u), wish[u])'
  <2>1. AtWork(u)' = AtWork(u) /\ Session(u)' = Session(u)
    BY DEF AtWork, Session
  <2>2. Handled(AtWork(u), sessions[u], Session(u), wish[u])
    BY DEF SessInv
  <2> QED
    BY <2>1, <2>2
<1> QED
  BY <1>1, <1>2, <1>3 DEF SessInv

LEMMA AgeFile ==
  ASSUME SessInv, NEW u \in User, Age(u)
  PROVE  /\ file' \in [User -> Record]
         /\ \A v \in User : (file'[v] = NoRecord <=> file[v] = NoRecord) /\ file'[v].mode = file[v].mode
<1>1. file \in [User -> Record]
  BY TypesAre DEF SessInv
<1>2. PICK c : c = [file[u] EXCEPT !.aged = TRUE]
  OBVIOUS
<1>3. PICK d : d = file[u]
  OBVIOUS
<1>4. d \in Record /\ d # NoRecord
  BY <1>1, <1>3 DEF Age
<1>5. c \in Record /\ c.mode = d.mode /\ c # NoRecord
  BY <1>2, <1>3, <1>4 DEF Record, NoRecord
<1>6. file' = [file EXCEPT ![u] = c]
  BY <1>2 DEF Age
<1> QED
  BY <1>1, <1>3, <1>4, <1>5, <1>6

LEMMA PurgeDoes ==
  ASSUME SessInv, NEW u \in User, Purge(u)
  PROVE  /\ SessInv' /\ AtWork(u) = Idle /\ sessions'[u] = "no"
         /\ \A v \in User : AtWork(v)' = AtWork(v)
         /\ \A v \in User \ {u} : /\ sessions'[v] = sessions[v]
                                  /\ sessions[v] # "no" => Session(v)' = Session(v)
<1>1. /\ sessions \in [User -> Object \cup {"no"}] /\ object \in [Object -> Objects]
      /\ req \in [Thread -> Requests] /\ wish \in [User -> Wishes]
      /\ file \in [User -> Record] /\ orderly \in BOOLEAN
  BY TypesAre DEF SessInv
<1>2. /\ sessions' = [sessions EXCEPT ![u] = "no"] /\ object' = Kept(object)
      /\ UNCHANGED <<req, wish, file, orderly>> /\ \A t \in Thread : req[t].user # u
  BY DEF Purge, history
<1>3. AtWork(u) = Idle /\ \A v \in User : AtWork(v)' = AtWork(v)
  BY <1>2 DEF AtWork
<1>4. /\ object' \in [Object -> Objects] /\ sessions' \in [User -> Object \cup {"no"}]
      /\ sessions'[u] = "no" /\ \A v \in User \ {u} : sessions'[v] = sessions[v]
  BY <1>1, <1>2, KeptIs
<1>5. ASSUME NEW v \in User \ {u}, sessions[v] # "no" PROVE Session(v)' = Session(v)
  <2>1. sessions'[v] \in Object /\ sessions'[v] = sessions[v]
    BY <1>1, <1>4, <1>5
  <2>2. object'[sessions'[v]] = object[sessions'[v]]
    BY <1>1, <1>2, <2>1, KeptIs
  <2> QED
    BY <2>1, <2>2 DEF Session
<1>6. TypeOK'
  BY <1>1, <1>2, <1>4, TypesNext
<1>7. Single' /\ Owned'
  BY <1>2, <1>4 DEF SessInv, Single, Owned
<1>8. ASSUME NEW v \in User PROVE Handled(AtWork(v), sessions[v], Session(v), wish[v])'
  <2>1. CASE v = u
    <3>1. Handled(Idle, "no", Session(u)', wish[u])
      BY IdleIs DEF Handled
    <3> QED
      BY <2>1, <3>1, <1>2, <1>3, <1>4
  <2>2. CASE v # u
    <3>1. Handled(AtWork(v), sessions[v], Session(v), wish[v])
      BY DEF SessInv
    <3>2. sessions[v] # "no" => Session(v)' = Session(v)
      BY <2>2, <1>5
    <3>3. Handled(AtWork(v), sessions[v], Session(v)', wish[v])
      BY <3>1, <3>2, HandledSame
    <3> QED
      BY <2>2, <3>3, <1>2, <1>3, <1>4
  <2> QED
    BY <2>1, <2>2
<1> QED
  BY <1>3, <1>4, <1>5, <1>6, <1>7, <1>8 DEF SessInv

LEMMA RestartDoes ==
  ASSUME SessInv, Restart
  PROVE  SessInv' /\ \A u \in User : AtWork(u)' = Idle /\ sessions'[u] = "no"
<1>1. /\ sessions' = [u \in User |-> "no"] /\ object' = [o \in Object |-> Fresh]
      /\ req' = [t \in Thread |-> Idle] /\ UNCHANGED <<file, wish>>
  BY DEF Restart
<1>2. orderly' \in BOOLEAN
  BY TypesAre DEF SessInv, Restart
<1>3. TypeOK'
  <2>1. /\ sessions' \in [User -> Object \cup {"no"}] /\ object' \in [Object -> Objects]
        /\ req' \in [Thread -> Requests]
    BY <1>1, FreshIs, IdleIs
  <2>2. file' \in [User -> Record] /\ wish' \in [User -> Wishes]
    BY <1>1, TypesAre DEF SessInv
  <2> QED
    BY <1>2, <2>1, <2>2, TypesNext
<1>4. \A u \in User : AtWork(u)' = Idle /\ sessions'[u] = "no"
  BY <1>1, IdleIs, ChoiceSessionAssumption DEF AtWork
<1>5. Single' /\ Owned'
  BY <1>1, IdleIs DEF Single, Owned
<1>6. ASSUME NEW u \in User PROVE Handled(AtWork(u), sessions[u], Session(u), wish[u])'
  <2>1. Handled(Idle, "no", Session(u)', wish'[u])
    BY IdleIs DEF Handled
  <2> QED
    BY <2>1, <1>4
<1> QED
  BY <1>3, <1>4, <1>5, <1>6 DEF SessInv

LEMMA InitSess ==
  ASSUME Init
  PROVE  SessInv
<1>1. TypeOK
  <2>1. /\ sessions \in [User -> Object \cup {"no"}] /\ object \in [Object -> Objects]
        /\ file \in [User -> Record] /\ req \in [Thread -> Requests]
        /\ wish \in [User -> Wishes] /\ orderly \in BOOLEAN
    BY FreshIs, IdleIs, NoRecordIs DEF Init, Wishes
  <2> QED
    BY <2>1, TypesAre
<1>2. Single /\ Owned
  BY IdleIs DEF Init, Single, Owned
<1>3. ASSUME NEW u \in User PROVE Handled(AtWork(u), sessions[u], Session(u), wish[u])
  <2>1. AtWork(u) = Idle /\ sessions[u] = "no"
    BY IdleIs, ChoiceSessionAssumption DEF Init, AtWork
  <2>2. Handled(Idle, "no", Session(u), wish[u])
    BY IdleIs DEF Handled
  <2> QED
    BY <2>1, <2>2
<1> QED
  BY <1>1, <1>2, <1>3 DEF SessInv

(* The actions that neither read nor write the whole file.                  *)
Quiet(t) ==
  \/ \E u \in User : Call(t, u)
  \/ LoginSucceeds(t) \/ LoginFails(t) \/ OtpAccepted(t) \/ OtpFails(t) \/ Drop(t)
  \/ Load(t) \/ Restore(t) \/ Verified(t) \/ NotVerified(t) \/ Discard(t)

LEMMA QuietDoes ==
  ASSUME SessInv, Overlapping = {}, NEW t \in Thread, Quiet(t)
  PROVE  UNCHANGED <<file, orderly>> /\ \E u \in User : Does(t, u)
<1>1. CASE \E u \in User : Call(t, u)
  <2>1. PICK u \in User : Call(t, u)
    BY <1>1
  <2>2. CASE Connect(t, u)
    BY <2>2, DoesConnect DEF Connect
  <2>3. CASE Disconnect(t, u)
    BY <2>3, DoesDisconnect DEF Disconnect
  <2>4. CASE StartDemo(t, u)
    BY <2>4, DoesStartDemo DEF StartDemo
  <2>5. CASE RequestOtp(t, u)
    BY <2>5, DoesRequestOtp DEF RequestOtp
  <2>6. CASE SendOtp(t, u)
    BY <2>6, DoesSendOtp DEF SendOtp
  <2>7. CASE AttachPartnerSession(t, u)
    BY <2>7, DoesAttachPartnerSession DEF AttachPartnerSession
  <2>8. CASE SetMode(t, u)
    BY <2>8, DoesSetMode DEF SetMode
  <2>9. CASE Status(t, u)
    BY <2>9, DoesStatus DEF Status
  <2> QED
    BY <2>1, <2>2, <2>3, <2>4, <2>5, <2>6, <2>7, <2>8, <2>9 DEF Call
<1>2. ASSUME \/ LoginSucceeds(t) \/ LoginFails(t) \/ OtpAccepted(t) \/ OtpFails(t) \/ Drop(t)
             \/ Load(t) \/ Restore(t) \/ Verified(t) \/ NotVerified(t) \/ Discard(t)
      PROVE  UNCHANGED <<file, orderly>> /\ \E u \in User : Does(t, u)
  <2>1. req[t].pc # "idle"
    BY <1>2 DEF LoginSucceeds, LoginFails, OtpAccepted, OtpFails, Drop, Load, Restore,
                Verified, NotVerified, Discard
  <2>2. req[t].user \in User
    BY <2>1, TurnOfServer
  <2>3. Does(t, req[t].user)
    BY <1>2, DoesLoginSucceeds, DoesLoginFails, DoesOtpAccepted, DoesOtpFails, DoesDrop,
       DoesLoad, DoesRestore, DoesVerified, DoesNotVerified, DoesDiscard
  <2>4. UNCHANGED <<file, orderly>>
    BY <1>2 DEF LoginSucceeds, LoginFails, OtpAccepted, OtpFails, Drop, Load, Restore,
                Verified, NotVerified, Discard, history
  <2> QED
    BY <2>2, <2>3, <2>4
<1> QED
  BY <1>1, <1>2 DEF Quiet

\* What a step is: one of the quiet ones, one on the file, or one of nobody.
LEMMA StepIs ==
  ASSUME Next
  PROVE  \/ \E t \in Thread : Quiet(t) \/ ReadFile(t) \/ OpenFile(t) \/ WriteFile(t) \/ StoreFails(t)
         \/ \E u \in User : Age(u) \/ Purge(u)
         \/ Restart
  BY DEF Next, Handler, Quiet

LEMMA StepSess ==
  ASSUME SessInv, Overlapping = {}, [Next]_vars
  PROVE  SessInv'
<1>1. file \in [User -> Record] /\ orderly \in BOOLEAN /\ req \in [Thread -> Requests]
  BY TypesAre DEF SessInv
<1>2. ASSUME NEW t \in Thread, Quiet(t) PROVE SessInv'
  <2>1. UNCHANGED <<file, orderly>>
    BY <1>2, QuietDoes
  <2>2. PICK u \in User : Does(t, u)
    BY <1>2, QuietDoes
  <2>3. PICK s, o, r, w : Moves(t, u, s, o, r, w) /\ Handled(r, s, o, w)
    BY <2>2 DEF Does
  <2> QED
    BY <1>1, <2>1, <2>3, Moved
<1>3. ASSUME NEW t \in Thread, ReadFile(t) \/ OpenFile(t) \/ WriteFile(t) \/ StoreFails(t)
      PROVE  SessInv'
  <2>1. req[t].pc # "idle"
    BY <1>3 DEF ReadFile, OpenFile, WriteFile, StoreFails
  <2>2. PICK u \in User : u = req[t].user
    BY <2>1, TurnOfServer
  <2>3. \E r : /\ Moves(t, u, sessions[u], Session(u), r, wish[u])
               /\ Handled(r, sessions[u], Session(u), wish[u])
    <3>1. CASE ReadFile(t)
      BY <3>1, <2>2, ReadFileDoes DEF Reads
    <3>2. CASE OpenFile(t)
      BY <3>2, <2>2, OpenFileDoes
    <3>3. CASE WriteFile(t)
      BY <3>3, <2>2, WriteFileDoes
    <3>4. CASE StoreFails(t)
      BY <3>4, <2>2, StoreFailsDoes
    <3> QED
      BY <1>3, <3>1, <3>2, <3>3, <3>4
  <2>4. file' \in [User -> Record] /\ orderly' \in BOOLEAN
    <3>1. req[t].copy \in [User -> Record]
      BY <1>1 DEF Requests
    <3> QED
      BY <1>1, <1>3, <3>1, NoRecordIs DEF ReadFile, OpenFile, WriteFile, StoreFails, history
  <2> QED
    BY <2>3, <2>4, Moved
<1>4. ASSUME NEW u \in User, Age(u) PROVE SessInv'
  BY <1>1, <1>4, AgeFile, SameSessions DEF Age, history
<1>5. ASSUME NEW u \in User, Purge(u) PROVE SessInv'
  BY <1>5, PurgeDoes
<1>6. ASSUME Restart PROVE SessInv'
  BY <1>6, RestartDoes
<1>7. ASSUME UNCHANGED vars PROVE SessInv'
  BY <1>1, <1>7, SameSessions DEF vars
<1> QED
  BY <1>2, <1>3, <1>4, <1>5, <1>6, <1>7, StepIs

-----------------------------------------------------------------------------
(* What the record says                                                     *)

LEMMA ToldSame ==
  ASSUME NEW r, NEW s, NEW o, NEW w, NEW d, NEW p, Told(r, s, o, w, d), s # "no" => p = o
  PROVE  Told(r, s, p, w, d)
<1>1. CASE s = "no"
  BY <1>1 DEF Told, Alive
<1> QED
  BY <1>1

LEMMA WorkIs ==
  ASSUME NEW u \in User
  PROVE  AtWork(u) = Idle \/ \E t \in Thread : AtWork(u) = req[t]
<1>1. CASE \E t \in Thread : req[t].user = u
  <2>1. (CHOOSE t \in Thread : req[t].user = u) \in Thread
    BY <1>1
  <2> QED
    BY <2>1, <1>1 DEF AtWork
<1> QED
  BY <1>1 DEF AtWork

LEMMA DiskOf ==
  ASSUME Alone, NEW t \in Thread, Updating(t)
  PROVE  Disk = req[t].copy
<1>1. (CHOOSE x \in Thread : Updating(x)) = t
  BY DEF Alone
<1> QED
  BY <1>1 DEF Disk

LEMMA DiskOfNext ==
  ASSUME Alone', NEW t \in Thread, Updating(t)'
  PROVE  Disk' = req'[t].copy
<1>1. (CHOOSE x \in Thread : Updating(x)') = t
  BY DEF Alone
<1> QED
  BY <1>1 DEF Disk

LEMMA DiskAtRest ==
  ASSUME \A t \in Thread : ~Updating(t)
  PROVE  Disk = file
  BY DEF Disk

LEMMA DiskAtRestNext ==
  ASSUME \A t \in Thread : ~Updating(t)'
  PROVE  Disk' = file'
  BY DEF Disk

LEMMA DiskTyped ==
  ASSUME SessInv, Alone
  PROVE  Disk \in [User -> Record]
<1>1. file \in [User -> Record] /\ req \in [Thread -> Requests]
  BY TypesAre DEF SessInv
<1>2. CASE \E t \in Thread : Updating(t)
  <2>1. PICK t \in Thread : Updating(t)
    BY <1>2
  <2>2. Disk = req[t].copy /\ req[t] \in Requests
    BY <1>1, <2>1, DiskOf
  <2> QED
    BY <2>2 DEF Requests
<1>3. CASE \A t \in Thread : ~Updating(t)
  BY <1>1, <1>3, DiskAtRest
<1> QED
  BY <1>2, <1>3

(* A thread that does not update the file leaves the updates alone.         *)
LEMMA DiskStays ==
  ASSUME Alone, UNCHANGED file, \A x \in Thread : Updating(x)' <=> Updating(x),
         \A x \in Thread : Updating(x) => req'[x] = req[x]
  PROVE  Alone' /\ Disk' = Disk
<1>1. Alone'
  BY DEF Alone, Updating
<1>2. CASE \E t \in Thread : Updating(t)
  <2>1. PICK t \in Thread : Updating(t)
    BY <1>2
  <2>2. Disk = req[t].copy /\ Disk' = req'[t].copy
    BY <1>1, <2>1, DiskOf, DiskOfNext
  <2> QED
    BY <1>1, <2>1, <2>2
<1>3. CASE \A t \in Thread : ~Updating(t)
  BY <1>1, <1>3, DiskAtRest, DiskAtRestNext
<1> QED
  BY <1>2, <1>3

(* A record another thread finds in the file is there to stay.              *)
LEMMA SeenRecord ==
  ASSUME Alone, NEW u \in User, \A t \in Thread : Updating(t) => req[t].user # u,
         file[u] # NoRecord
  PROVE  Disk[u] = file[u]
<1>1. CASE \E t \in Thread : Updating(t)
  <2>1. PICK t \in Thread : Updating(t)
    BY <1>1
  <2>2. req[t].pc = "open"
    BY <2>1 DEF Alone, Updating, NoStore
  <2> QED
    BY <2>1, <2>2, DiskOf DEF Alone
<1>2. CASE \A t \in Thread : ~Updating(t)
  BY <1>2, DiskAtRest
<1> QED
  BY <1>1, <1>2

LEMMA TrueMoved ==
  ASSUME SessInv, TrueInv, orderly,
         NEW t \in Thread, NEW u \in User, NEW s, NEW o, NEW r, NEW w,
         Moves(t, u, s, o, r, w), Alone', \A v \in User \ {u} : Disk'[v] = Disk[v],
         Told(r, s, o, w, Disk'[u])
  PROVE  TrueInv'
<1>1. AtWork(u)' = r /\ \A v \in User \ {u} : AtWork(v)' = AtWork(v)
  BY WorkAfter
<1>2. /\ sessions'[u] = s /\ (s # "no" => Session(u)' = o) /\ wish'[u] = w
      /\ \A v \in User \ {u} : /\ sessions'[v] = sessions[v] /\ wish'[v] = wish[v]
                               /\ sessions[v] # "no" => Session(v)' = Session(v)
  BY EntryAfter
<1>3. ASSUME NEW v \in User PROVE Told(AtWork(v), sessions[v], Session(v), wish[v], Disk[v])'
  <2>1. CASE v = u
    <3>1. Told(r, s, Session(u)', w, Disk'[u])
      BY <1>2, ToldSame
    <3> QED
      BY <2>1, <3>1, <1>1, <1>2
  <2>2. CASE v # u
    <3>1. Told(AtWork(v), sessions[v], Session(v), wish[v], Disk[v])
      BY DEF TrueInv
    <3>2. sessions[v] # "no" => Session(v)' = Session(v)
      BY <2>2, <1>2
    <3>3. Told(AtWork(v), sessions[v], Session(v)', wish[v], Disk[v])
      BY <3>1, <3>2, ToldSame
    <3> QED
      BY <2>2, <3>3, <1>1, <1>2
  <2> QED
    BY <2>1, <2>2
<1> QED
  BY <1>3 DEF TrueInv

LEMMA TrueQuiet ==
  ASSUME SessInv, TrueInv, Overlapping = {}, NEW t \in Thread, Quiet(t)
  PROVE  TrueInv'
<1>1. UNCHANGED <<file, orderly>>
  BY QuietDoes
<1>2. PICK u \in User : Does(t, u)
  BY QuietDoes
<1>3. SUFFICES ASSUME orderly PROVE TrueInv'
  BY <1>1 DEF TrueInv
<1>4. PICK s, o, r, w :
        /\ Moves(t, u, s, o, r, w) /\ Handled(r, s, o, w)
        /\ req[t].pc \notin {"open", "write"} /\ r.pc \notin {"open", "write"}
        /\ \A d \in Record :
             (file[u] # NoRecord => d = file[u]) /\ Told(req[t], sessions[u], Session(u), wish[u], d)
               => Told(r, s, o, w, d)
  BY <1>2 DEF Does
<1>5. req' = [req EXCEPT ![t] = r] /\ Turn(t, u) /\ req \in [Thread -> Requests]
  BY <1>4, TypesAre DEF Moves, SessInv
<1>6. Alone
  BY <1>3 DEF TrueInv
<1>7. Alone' /\ Disk' = Disk
  <2>1. ASSUME NEW x \in Thread PROVE (Updating(x)' <=> Updating(x)) /\ (Updating(x) => req'[x] = req[x])
    <3>1. CASE x = t
      BY <3>1, <1>4, <1>5 DEF Updating
    <3>2. CASE x # t
      BY <3>2, <1>5 DEF Updating
    <3> QED
      BY <3>1, <3>2
  <2> QED
    BY <2>1, <1>1, <1>6, DiskStays
<1>8. Disk[u] \in Record
  BY <1>3, <1>6, DiskTyped
<1>9. file[u] # NoRecord => Disk[u] = file[u]
  <2>1. \A x \in Thread : Updating(x) => req[x].user # u
    BY <1>4, <1>5 DEF Updating, Turn
  <2> QED
    BY <2>1, <1>6, SeenRecord
<1>10. Told(req[t], sessions[u], Session(u), wish[u], Disk[u])
  <2>1. AtWork(u) = req[t]
    BY <1>5, ServedBy
  <2> QED
    BY <2>1, <1>3 DEF TrueInv
<1>11. Told(r, s, o, w, Disk'[u])
  BY <1>4, <1>7, <1>8, <1>9, <1>10
<1> QED
  BY <1>3, <1>4, <1>7, <1>11, TrueMoved

LEMMA TrueReadFile ==
  ASSUME SessInv, TrueInv, NEW t \in Thread, ReadFile(t)
  PROVE  TrueInv'
<1>1. SUFFICES ASSUME orderly' PROVE TrueInv'
  BY DEF TrueInv
<1>2. orderly /\ (\A x \in Thread \ {t} : ~Updating(x)) /\ UNCHANGED file /\ req[t].pc \in {"save", "clear"}
  BY <1>1 DEF ReadFile
<1>3. \A x \in Thread : ~Updating(x)
  BY <1>2 DEF Updating
<1>4. Disk = file
  BY <1>3, DiskAtRest
<1>5. PICK u \in User : u = req[t].user
  BY <1>2, TurnOfServer
<1>6. Told(req[t], sessions[u], Session(u), wish[u], file[u])
  <2>1. AtWork(u) = req[t]
    BY <1>2, <1>5, TurnOfServer
  <2> QED
    BY <2>1, <1>2, <1>4 DEF TrueInv
<1>7. PICK r : Reads(t, u, r)
  BY <1>5, ReadFileDoes
<1>8. req' = [req EXCEPT ![t] = r] /\ req \in [Thread -> Requests] /\ file \in [User -> Record]
  BY <1>7, TypesAre DEF Moves, SessInv, Reads
<1>9. \A x \in Thread \ {t} : ~Updating(x)'
  BY <1>3, <1>8 DEF Updating
<1>10. CASE /\ file[u] = NoRecord /\ r.pc \notin {"open", "write"}
            /\ Told(req[t], sessions[u], Session(u), wish[u], NoRecord)
                 => Told(r, sessions[u], Session(u), wish[u], NoRecord)
  <2>1. \A x \in Thread : ~Updating(x)'
    BY <1>8, <1>9, <1>10 DEF Updating
  <2>2. Alone' /\ Disk' = file
    BY <1>2, <2>1, DiskAtRestNext DEF Alone, Updating
  <2> QED
    BY <1>2, <1>4, <1>6, <1>7, <1>10, <2>2, TrueMoved DEF Reads
<1>11. ASSUME NEW c \in Record, r.pc = "open", r.copy = [file EXCEPT ![u] = c], r.user = u,
              \A d \in Record : Told(req[t], sessions[u], Session(u), wish[u], d)
                                  => Told(r, sessions[u], Session(u), wish[u], c)
       PROVE  TrueInv'
  <2>1. Updating(t)' /\ req'[t] = r
    BY <1>8, <1>11 DEF Updating
  <2>2. Alone'
    BY <1>2, <1>8, <1>9, <1>11, <2>1 DEF Alone, Updating
  <2>3. Disk' = [file EXCEPT ![u] = c]
    BY <1>11, <2>1, <2>2, DiskOfNext
  <2>4. Disk'[u] = c /\ \A v \in User \ {u} : Disk'[v] = Disk[v]
    BY <1>4, <1>8, <2>3
  <2>5. Told(r, sessions[u], Session(u), wish[u], c)
    BY <1>6, <1>8, <1>11
  <2> QED
    BY <1>2, <1>7, <2>2, <2>4, <2>5, TrueMoved DEF Reads
<1> QED
  BY <1>7, <1>10, <1>11 DEF Reads

LEMMA TrueOpenFile ==
  ASSUME SessInv, TrueInv, NEW t \in Thread, OpenFile(t)
  PROVE  TrueInv'
<1>1. SUFFICES ASSUME orderly PROVE TrueInv'
  BY DEF TrueInv, OpenFile, history
<1>2. Alone /\ Updating(t) /\ req[t].pc = "open" /\ file' = NoStore
  BY <1>1 DEF TrueInv, OpenFile, Updating
<1>3. PICK u \in User : u = req[t].user
  BY <1>2, TurnOfServer
<1>4. PICK r :
        /\ Moves(t, u, sessions[u], Session(u), r, wish[u])
        /\ Handled(r, sessions[u], Session(u), wish[u])
        /\ req[t].pc = "open" /\ r.pc = "write" /\ r.copy = req[t].copy
        /\ \A d \in Record : Told(req[t], sessions[u], Session(u), wish[u], d)
                               => Told(r, sessions[u], Session(u), wish[u], d)
  BY <1>3, OpenFileDoes
<1>5. req' = [req EXCEPT ![t] = r] /\ req \in [Thread -> Requests]
  BY <1>4, TypesAre DEF Moves, SessInv
<1>6. req'[t] = r /\ \A x \in Thread \ {t} : ~Updating(x)' /\ req'[x].pc \notin {"open", "write"}
  BY <1>2, <1>5 DEF Alone, Updating
<1>7. Updating(t)' /\ Alone'
  BY <1>2, <1>4, <1>6 DEF Alone, Updating
<1>8. Disk = req[t].copy /\ Disk' = Disk
  BY <1>2, <1>4, <1>6, <1>7, DiskOf, DiskOfNext
<1>9. Disk[u] \in Record
  BY <1>2, DiskTyped
<1>10. Told(req[t], sessions[u], Session(u), wish[u], Disk[u])
  <2>1. AtWork(u) = req[t]
    BY <1>2, <1>3, TurnOfServer
  <2> QED
    BY <2>1, <1>1 DEF TrueInv
<1>11. Told(r, sessions[u], Session(u), wish[u], Disk'[u])
  BY <1>4, <1>8, <1>9, <1>10
<1> QED
  BY <1>1, <1>4, <1>7, <1>8, <1>11, TrueMoved

LEMMA TrueWriteFile ==
  ASSUME SessInv, TrueInv, NEW t \in Thread, WriteFile(t)
  PROVE  TrueInv'
<1>1. SUFFICES ASSUME orderly PROVE TrueInv'
  BY DEF TrueInv, WriteFile, history
<1>2. Alone /\ Updating(t) /\ req[t].pc = "write" /\ file' = req[t].copy
  BY <1>1 DEF TrueInv, WriteFile, Updating
<1>3. PICK u \in User : u = req[t].user
  BY <1>2, TurnOfServer
<1>4. PICK r :
        /\ Moves(t, u, sessions[u], Session(u), r, wish[u])
        /\ Handled(r, sessions[u], Session(u), wish[u])
        /\ req[t].pc = "write" /\ r.pc \notin {"open", "write"}
        /\ \A d \in Record : Told(req[t], sessions[u], Session(u), wish[u], d)
                               => Told(r, sessions[u], Session(u), wish[u], d)
  BY <1>3, WriteFileDoes
<1>5. req' = [req EXCEPT ![t] = r] /\ req \in [Thread -> Requests]
  BY <1>4, TypesAre DEF Moves, SessInv
<1>6. \A x \in Thread : ~Updating(x)'
  BY <1>2, <1>4, <1>5 DEF Alone, Updating
<1>7. Alone'
  BY <1>6 DEF Alone, Updating
<1>8. Disk' = Disk
  BY <1>2, <1>6, DiskOf, DiskAtRestNext
<1>9. Disk[u] \in Record
  BY <1>2, DiskTyped
<1>10. Told(req[t], sessions[u], Session(u), wish[u], Disk[u])
  <2>1. AtWork(u) = req[t]
    BY <1>2, <1>3, TurnOfServer
  <2> QED
    BY <2>1, <1>1 DEF TrueInv
<1>11. Told(r, sessions[u], Session(u), wish[u], Disk'[u])
  BY <1>4, <1>8, <1>9, <1>10
<1> QED
  BY <1>1, <1>4, <1>7, <1>8, <1>11, TrueMoved

(* An aged record is still a record of its mode.                            *)
LEMMA TrueAge ==
  ASSUME SessInv, TrueInv, NEW u \in User, Age(u)
  PROVE  TrueInv'
<1>1. UNCHANGED <<sessions, object, req, wish, orderly>>
  BY DEF Age, history
<1>2. SUFFICES ASSUME orderly PROVE TrueInv'
  BY <1>1 DEF TrueInv
<1>3. \A t \in Thread : req[t] = Idle /\ ~Updating(t)
  BY DEF Age, SessInv, Single, Updating
<1>4. Disk = file /\ Disk' = file' /\ Alone'
  <2>1. \A t \in Thread : ~Updating(t)' /\ req'[t].pc = "idle"
    BY <1>1, <1>3, IdleIs DEF Updating
  <2> QED
    BY <1>3, <2>1, DiskAtRest, DiskAtRestNext DEF Alone, Updating
<1>5. ASSUME NEW v \in User PROVE Told(AtWork(v), sessions[v], Session(v), wish[v], Disk[v])'
  <2>1. AtWork(v)' = AtWork(v) /\ Session(v)' = Session(v)
    BY <1>1 DEF AtWork, Session
  <2>2. AtWork(v) = Idle
    BY <1>3, WorkIs
  <2>3. Told(Idle, sessions[v], Session(v), wish[v], file[v])
    BY <1>2, <1>4, <2>2 DEF TrueInv
  <2>4. (file'[v] = NoRecord <=> file[v] = NoRecord) /\ file'[v].mode = file[v].mode
    BY AgeFile
  <2>5. Told(Idle, sessions[v], Session(v), wish[v], file'[v])
    BY <2>3, <2>4, IdleIs DEF Told
  <2> QED
    BY <1>1, <1>4, <2>1, <2>2, <2>5
<1> QED
  BY <1>4, <1>5 DEF TrueInv

LEMMA TruePurge ==
  ASSUME SessInv, TrueInv, NEW u \in User, Purge(u)
  PROVE  TrueInv'
<1>1. UNCHANGED <<req, wish, orderly, file>>
  BY DEF Purge, history
<1>2. SUFFICES ASSUME orderly PROVE TrueInv'
  BY <1>1 DEF TrueInv
<1>3. Alone' /\ Disk' = Disk
  <2>1. \A x \in Thread : (Updating(x)' <=> Updating(x)) /\ req'[x] = req[x]
    BY <1>1 DEF Updating
  <2> QED
    BY <1>1, <1>2, <2>1, DiskStays DEF TrueInv
<1>4. ASSUME NEW v \in User PROVE Told(AtWork(v), sessions[v], Session(v), wish[v], Disk[v])'
  <2>1. Told(AtWork(v), sessions[v], Session(v), wish[v], Disk[v])
    BY <1>2 DEF TrueInv
  <2>2. /\ AtWork(v)' = AtWork(v) /\ AtWork(u) = Idle /\ sessions'[u] = "no"
        /\ v # u => /\ sessions'[v] = sessions[v]
                    /\ sessions[v] # "no" => Session(v)' = Session(v)
    BY PurgeDoes
  <2>3. CASE v = u
    <3>1. Told(Idle, "no", Session(u)', wish[u], Disk[u])
      BY <2>1, <2>2, <2>3, IdleIs DEF Told, Alive
    <3> QED
      BY <3>1, <1>1, <1>3, <2>2, <2>3
  <2>4. CASE v # u
    <3>1. Told(AtWork(v), sessions[v], Session(v)', wish[v], Disk[v])
      BY <2>1, <2>2, <2>4, ToldSame
    <3> QED
      BY <3>1, <1>1, <1>3, <2>2, <2>4
  <2> QED
    BY <2>3, <2>4
<1> QED
  BY <1>3, <1>4 DEF TrueInv

LEMMA TrueRestart ==
  ASSUME SessInv, TrueInv, Restart
  PROVE  TrueInv'
<1>1. SUFFICES ASSUME orderly' PROVE TrueInv'
  BY DEF TrueInv
<1>2. /\ orderly /\ \A t \in Thread : ~Updating(t) /\ req[t].pc \notin {"save", "clear"}
      /\ UNCHANGED <<file, wish>> /\ req' = [t \in Thread |-> Idle]
  BY <1>1 DEF Restart
<1>3. \A t \in Thread : ~Updating(t)' /\ req'[t].pc = "idle"
  BY <1>2, IdleIs DEF Updating
<1>4. Disk = file /\ Disk' = file /\ Alone'
  BY <1>2, <1>3, DiskAtRest, DiskAtRestNext DEF Alone, Updating
<1>5. ASSUME NEW u \in User PROVE Told(AtWork(u), sessions[u], Session(u), wish[u], Disk[u])'
  <2>1. Told(AtWork(u), sessions[u], Session(u), wish[u], file[u])
    BY <1>2, <1>4 DEF TrueInv
  <2>2. AtWork(u).pc \notin {"save", "clear"}
    BY <1>2, WorkIs, IdleIs
  <2>3. Told(Idle, "no", Session(u)', wish[u], file[u])
    BY <2>1, <2>2, IdleIs DEF Told, Alive
  <2>4. AtWork(u)' = Idle /\ sessions'[u] = "no"
    BY RestartDoes
  <2> QED
    BY <1>2, <1>4, <2>3, <2>4
<1> QED
  BY <1>4, <1>5 DEF TrueInv

LEMMA StepTrue ==
  ASSUME SessInv, TrueInv, Overlapping = {}, [Next]_vars
  PROVE  TrueInv'
<1>1. ASSUME NEW t \in Thread, StoreFails(t) PROVE TrueInv'
  BY <1>1 DEF StoreFails, TrueInv
<1>2. ASSUME UNCHANGED vars PROVE TrueInv'
  <2>1. SUFFICES ASSUME orderly PROVE TrueInv'
    BY <1>2 DEF TrueInv, vars
  <2>2. Alone' /\ Disk' = Disk
    <3>1. \A x \in Thread : (Updating(x)' <=> Updating(x)) /\ req'[x] = req[x]
      BY <1>2 DEF Updating, vars
    <3> QED
      BY <1>2, <2>1, <3>1, DiskStays DEF TrueInv, vars
  <2>3. ASSUME NEW u \in User PROVE Told(AtWork(u), sessions[u], Session(u), wish[u], Disk[u])'
    <3>1. /\ AtWork(u)' = AtWork(u) /\ Session(u)' = Session(u)
          /\ sessions'[u] = sessions[u] /\ wish'[u] = wish[u]
      BY <1>2 DEF AtWork, Session, vars
    <3>2. Told(AtWork(u), sessions[u], Session(u), wish[u], Disk[u])
      BY <2>1 DEF TrueInv
    <3> QED
      BY <2>2, <3>1, <3>2
  <2> QED
    BY <2>2, <2>3 DEF TrueInv
<1> QED
  BY <1>1, <1>2, StepIs, TrueQuiet, TrueReadFile, TrueOpenFile, TrueWriteFile, TrueAge,
     TruePurge, TrueRestart

LEMMA InitTrue ==
  ASSUME Init
  PROVE  TrueInv
<1>1. \A t \in Thread : req[t] = Idle /\ ~Updating(t)
  BY IdleIs DEF Init, Updating
<1>2. Alone /\ Disk = file
  BY <1>1, DiskAtRest, IdleIs DEF Alone
<1>3. ASSUME NEW u \in User PROVE Told(AtWork(u), sessions[u], Session(u), wish[u], Disk[u])
  <2>1. AtWork(u) = Idle /\ sessions[u] = "no" /\ file[u] = NoRecord
    BY <1>1, WorkIs DEF Init, NoStore
  <2> QED
    BY <1>2, <2>1, IdleIs, NoRecordIs DEF Told, Alive
<1> QED
  BY <1>2, <1>3 DEF TrueInv

-----------------------------------------------------------------------------
(* The theorems                                                             *)

LEMMA IdleWhenSettled ==
  ASSUME NEW u \in User, Settled(u)
  PROVE  AtWork(u) = Idle
  BY DEF Settled, AtWork

(* With a user's requests one at a time, every variable keeps its type: a   *)
(* request never works on an object its user no longer has.                 *)
THEOREM SessionTypes ==
  ASSUME Overlapping = {}
  PROVE  Spec => []TypeOK
<1>1. SessInv => TypeOK
  BY DEF SessInv
<1> QED
  BY <1>1, InitSess, StepSess, PTL DEF Spec

(* With a user's requests one at a time, a session that reports a broker    *)
(* connection when none of them runs can be used: its client sends the id   *)
(* it reports, and Choice has accepted that id.                             *)
THEOREM SessionUsable ==
  ASSUME Overlapping = {}
  PROVE  Spec => []UsableSession
<1>1. SessInv => UsableSession
  <2> SUFFICES ASSUME SessInv, NEW u \in User, Settled(u), Connected(u), Session(u).mode # "DEMO"
               PROVE  Session(u).client /\ Session(u).sends /\ Session(u).tried
    BY DEF UsableSession
  <2>1. Handled(Idle, sessions[u], Session(u), wish[u])
    BY IdleWhenSettled DEF SessInv
  <2> QED
    BY <2>1, IdleIs DEF Handled, Usable, Connected
<1> QED
  BY <1>1, InitSess, StepSess, PTL DEF Spec

(* What a settled user's session and record say, for the three theorems.    *)
LEMMA SettledTold ==
  ASSUME SessInv, TrueInv, orderly, NEW u \in User, Settled(u)
  PROVE  Told(Idle, sessions[u], Session(u), wish[u], Disk[u]) /\ Alone
  BY IdleWhenSettled DEF TrueInv

(* With a user's requests one at a time, no chain of restarts, restores,    *)
(* failed logins and expiries puts a user who last chose paper, or          *)
(* disconnected, back into LIVE.                                            *)
THEOREM SessionNeverBackToLive ==
  ASSUME Overlapping = {}
  PROVE  Spec => []NeverBackToLive
<1>1. SessInv /\ TrueInv => NeverBackToLive
  BY SettledTold DEF NeverBackToLive, Told, Connected
<1> QED
  BY <1>1, InitSess, InitTrue, StepSess, StepTrue, PTL DEF Spec

(* With a user's requests one at a time, nothing of a session is left after *)
(* a disconnect, in memory or on disk, whatever other users save and clear. *)
THEOREM SessionForgotten ==
  ASSUME Overlapping = {}
  PROVE  Spec => []DisconnectForgets
<1>1. SessInv /\ TrueInv => DisconnectForgets
  <2> SUFFICES ASSUME SessInv, TrueInv, NEW u \in User, Settled(u), orderly, wish[u] = "none"
               PROVE  ~Connected(u) /\ file[u] = NoRecord
    BY DEF DisconnectForgets
  <2>1. Told(Idle, sessions[u], Session(u), wish[u], Disk[u]) /\ Alone
    BY SettledTold
  <2>2. Disk[u] = NoRecord /\ ~Connected(u)
    BY <2>1 DEF Told, Connected, IsConnected
  <2>3. file[u] = NoRecord
    BY <2>1, <2>2, SeenRecord DEF Settled
  <2> QED
    BY <2>2, <2>3
<1> QED
  BY <1>1, InitSess, InitTrue, StepSess, StepTrue, PTL DEF Spec

(* With a user's requests one at a time, a paper session its user asked to  *)
(* keep is on disk whenever no update of the file is in progress.           *)
THEOREM SessionStored ==
  ASSUME Overlapping = {}
  PROVE  Spec => []RememberedIsStored
<1>1. SessInv /\ TrueInv => RememberedIsStored
  <2> SUFFICES ASSUME SessInv, TrueInv, NEW u \in User, Settled(u), orderly, Connected(u),
                      Session(u).remember, wish[u] = "PAPER", \A t \in Thread : ~Updating(t)
               PROVE  file[u] # NoRecord
    BY DEF RememberedIsStored
  <2>1. Told(Idle, sessions[u], Session(u), wish[u], Disk[u])
    BY SettledTold
  <2>2. Disk = file
    BY DiskAtRest
  <2> QED
    BY <2>1, <2>2, IdleIs DEF Told, Connected, Alive
<1> QED
  BY <1>1, InitSess, InitTrue, StepSess, StepTrue, PTL DEF Spec
=============================================================================
