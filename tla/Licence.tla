------------------------------ MODULE Licence -------------------------------
(***************************************************************************)
(* The licence service (licence-server/app/main.py) and what the desktop   *)
(* app makes of its answers and of its silence (client-desktop/app/        *)
(* licence.py, and check_licence_or_exit and start_licence_heartbeat of    *)
(* launcher.py).                                                           *)
(*                                                                         *)
(* A call is lost, on its way or on its way back, or ends within a day:    *)
(* it times out after ten seconds.  Each machine runs one copy of the app, *)
(* whose record is a file that may fail to be written or be lost.          *)
(***************************************************************************)
EXTENDS Integers, FiniteSets

CONSTANTS
  Machine,     \* machines with a copy of the app
  Key,         \* licence keys
  Id,          \* installation ids the app may generate
  NoId, NoKey, \* no entry in the record
  MaxInstalls, \* max_installs of every licence
  Grace,       \* GRACE_DAYS
  LastDay,     \* bound of the model: days
  MaxLosses    \* bound of the model: records lost or not written

ASSUME LicenceAssumption ==
  /\ NoId \notin Id /\ NoKey \notin Key
  /\ MaxInstalls \in Nat /\ Grace \in Nat /\ LastDay \in Nat \ {0} /\ MaxLosses \in Nat

VARIABLES
  licence,   \* licence[k]: "none" before it is issued, "active" or "revoked"
  install,   \* install[i]: the key of the row of installation i, or NoKey
  used,      \* ids generated so far
  record,    \* record[m]: licence.json
  app,       \* app[m]: "off", "launching" or "running"
  call,      \* call[m]: the call the copy on m makes
  day,       \* the day, on every clock
  losses,    \* records lost or not written so far
  stood,     \* history, stood[k]: last day on which k was an active licence
  admitted,  \* history, admitted[m]: the key the running copy was let in on, and
             \* the days since that key was last an active licence
  shared     \* history, shared[k]: a seat of k was taken without a count, or
             \* on a count another activation was about to make stale

server == <<licence, install>>
history == <<stood, admitted, shared>>
vars == <<licence, install, used, record, app, call, day, losses,
          stood, admitted, shared>>

NoRecord == [id |-> NoId, key |-> NoKey, verified |-> 0]
NoCall == [pc |-> "idle", id |-> NoId, key |-> NoKey, copy |-> NoRecord]
Out == [key |-> NoKey, since |-> 0]

TypeOK ==
  LET Record == [id : Id \cup {NoId}, key : Key \cup {NoKey}, verified : 0 .. LastDay]
  IN  /\ licence \in [Key -> {"none", "active", "revoked"}]
      /\ install \in [Id -> Key \cup {NoKey}] /\ used \subseteq Id
      /\ record \in [Machine -> Record]
      /\ app \in [Machine -> {"off", "launching", "running"}]
      /\ call \in [Machine ->
           [pc : {"idle", "prompt", "beat", "active", "revoked", "activate",
                  "seat", "granted"},
            id : Id \cup {NoId}, key : Key \cup {NoKey}, copy : Record]]
      /\ day \in 1 .. LastDay /\ losses \in 0 .. MaxLosses
      /\ stood \in [Key -> 0 .. LastDay] /\ shared \in [Key -> BOOLEAN]
      /\ admitted \in [Machine -> [key : Key \cup {NoKey}, since : 0 .. LastDay]]

Init ==
  /\ licence = [k \in Key |-> "none"] /\ install = [i \in Id |-> NoKey]
  /\ used = {} /\ record = [m \in Machine |-> NoRecord]
  /\ app = [m \in Machine |-> "off"] /\ call = [m \in Machine |-> NoCall]
  /\ day = 1 /\ losses = 0
  /\ stood = [k \in Key |-> 0] /\ admitted = [m \in Machine |-> Out]
  /\ shared = [k \in Key |-> FALSE]

Goto(m, label) == call' = [call EXCEPT ![m].pc = label]
Hang(m) == call' = [call EXCEPT ![m] = NoCall]

-----------------------------------------------------------------------------
(* The operator.                                                           *)
Set(k, status) ==
  /\ licence' = [licence EXCEPT ![k] = status]
  /\ stood' = [stood EXCEPT ![k] = IF status = "active" THEN day ELSE @]
  /\ UNCHANGED <<install, used, record, app, call, day, losses, admitted, shared>>
Issue(k) == licence[k] = "none" /\ Set(k, "active")
Revoke(k) == licence[k] = "active" /\ Set(k, "revoked")
Restore(k) == licence[k] = "revoked" /\ Set(k, "active")

-----------------------------------------------------------------------------
(* The record: written, or not written, which is logged and no more.       *)
Write(m, r) ==
  \/ record' = [record EXCEPT ![m] = r] /\ UNCHANGED losses
  \/ losses < MaxLosses /\ losses' = losses + 1 /\ UNCHANGED record

Lose(m) ==
  /\ losses < MaxLosses /\ record[m] # NoRecord
  /\ losses' = losses + 1
  /\ record' = [record EXCEPT ![m] = NoRecord]
  /\ UNCHANGED <<server, used, app, call, day, history>>

(* install_id: the stored id, or a new one that is written at once.        *)
InstallId(m, i) ==
  \/ /\ record[m].id # NoId
     /\ i = record[m].id
     /\ UNCHANGED <<used, record, losses>>
  \/ /\ record[m].id = NoId
     /\ i \notin used /\ used' = used \cup {i}
     /\ Write(m, [record[m] EXCEPT !.id = i])

-----------------------------------------------------------------------------
(* check: a heartbeat and a verdict.  The verdict counts at the launch;    *)
(* the periodic check of a running copy only reports.                      *)

Launch(m) ==
  /\ app[m] = "off"
  /\ app' = [app EXCEPT ![m] = "launching"]
  /\ UNCHANGED <<server, used, record, call, day, losses, history>>

Quit(m) ==
  /\ app[m] = "running" /\ call[m].pc = "idle"
  /\ app' = [app EXCEPT ![m] = "off"]
  /\ admitted' = [admitted EXCEPT ![m] = Out]
  /\ UNCHANGED <<server, used, record, call, day, losses, stood, shared>>

Admit(m, k) ==
  IF app[m] = "launching"
  THEN /\ app' = [app EXCEPT ![m] = "running"]
       /\ admitted' = [admitted EXCEPT ![m] = [key |-> k, since |-> day - stood[k]]]
  ELSE UNCHANGED <<app, admitted>>
Refuse(m) ==
  /\ app' = [app EXCEPT ![m] = IF @ = "launching" THEN "off" ELSE @]
  /\ UNCHANGED admitted

(* A record without a key: the launcher asks for one.                      *)
Check(m) ==
  /\ app[m] \in {"launching", "running"} /\ call[m].pc = "idle"
  /\ \/ /\ record[m].key = NoKey
        /\ app[m] = "launching" /\ Goto(m, "prompt")
        /\ UNCHANGED <<used, record, losses>>
     \/ /\ record[m].key # NoKey
        /\ \E i \in Id :
             /\ InstallId(m, i)
             /\ call' = [call EXCEPT ![m] = [pc |-> "beat", id |-> i,
                  key |-> record[m].key, copy |-> record[m]]]
  /\ UNCHANGED <<server, app, day, history>>

(* The service answers by the licence alone; the row is only a time stamp. *)
Heartbeat(m) ==
  /\ call[m].pc = "beat"
  /\ Goto(m, IF licence[call[m].key] = "active" THEN "active" ELSE "revoked")
  /\ UNCHANGED <<server, used, record, app, day, losses, history>>

(* The copy of the record read before the call is written back.            *)
Active(m) ==
  /\ call[m].pc = "active"
  /\ Write(m, [call[m].copy EXCEPT !.verified = day])
  /\ Admit(m, call[m].key)
  /\ Hang(m)
  /\ UNCHANGED <<server, used, day, stood, shared>>

Revoked(m) ==
  /\ call[m].pc = "revoked"
  /\ Refuse(m)
  /\ Hang(m)
  /\ UNCHANGED <<server, used, record, day, losses, stood, shared>>

\* Mutant: the days since the last check are not compared.
WithinGrace_free(r) == r.key # NoKey
WithinGrace(r) == r.verified # 0 /\ day - r.verified <= Grace

Unreachable(m) ==
  /\ call[m].pc \in {"beat", "active", "revoked"}
  /\ IF WithinGrace(call[m].copy) THEN Admit(m, call[m].key) ELSE Refuse(m)
  /\ Hang(m)
  /\ UNCHANGED <<server, used, record, day, losses, stood, shared>>

-----------------------------------------------------------------------------
(* activate                                                                *)

(* The user types a key, or gives up.                                      *)
Type(m, k) ==
  /\ call[m].pc = "prompt"
  /\ \E i \in Id :
       /\ InstallId(m, i)
       /\ call' = [call EXCEPT ![m] = [pc |-> "activate", id |-> i, key |-> k,
                                       copy |-> NoRecord]]
  /\ UNCHANGED <<server, app, day, history>>

Seats(k) == {i \in Id : install[i] = k}
\* Mutant: the last seat is given away twice.
HasSeat_offByOne(k) == Cardinality(Seats(k)) <= MaxInstalls
HasSeat(k) == Cardinality(Seats(k)) < MaxInstalls

(* The licence is read, and the seats counted for a new installation.      *)
Activate(m) ==
  LET k == call[m].key
      known == install[call[m].id] # NoKey
  IN  /\ call[m].pc = "activate"
      /\ licence[k] = "active"
      /\ known \/ HasSeat(k)
      /\ Goto(m, "seat")
      /\ UNCHANGED <<server, used, record, app, day, losses, history>>

(* The row is stored, under this key whatever it was under before.         *)
Commit(m) ==
  LET k == call[m].key
      i == call[m].id
  IN  /\ call[m].pc = "seat"
      /\ install' = [install EXCEPT ![i] = k]
      /\ shared' = [shared EXCEPT ![k] =
           \/ @ \/ install[i] \notin {k, NoKey}
           \/ \E x \in Machine \ {m} : call[x].pc = "seat" /\ call[x].key = k]
      /\ Goto(m, "granted")
      /\ UNCHANGED <<licence, used, record, app, day, losses, stood, admitted>>

Granted(m) ==
  /\ call[m].pc = "granted"
  /\ Write(m, [record[m] EXCEPT !.key = call[m].key, !.verified = day])
  /\ Admit(m, call[m].key)
  /\ Hang(m)
  /\ UNCHANGED <<server, used, day, stood, shared>>

(* Given up, refused, lost on its way, or lost on its way back.            *)
NotActivated(m) ==
  /\ call[m].pc \in {"prompt", "activate", "granted"}
  /\ Refuse(m)
  /\ Hang(m)
  /\ UNCHANGED <<server, used, record, day, losses, stood, shared>>

-----------------------------------------------------------------------------
Tick ==
  /\ day < LastDay /\ \A m \in Machine : call[m].pc \in {"idle", "prompt"}
  /\ day' = day + 1
  /\ stood' = [k \in Key |-> IF licence[k] = "active" THEN day' ELSE stood[k]]
  /\ UNCHANGED <<server, used, record, app, call, losses, admitted, shared>>

Next ==
  \/ \E k \in Key : Issue(k) \/ Revoke(k) \/ Restore(k)
  \/ \E m \in Machine :
       \/ Lose(m) \/ Launch(m) \/ Quit(m) \/ Check(m) \/ Heartbeat(m)
       \/ Active(m) \/ Revoked(m) \/ Unreachable(m)
       \/ \E k \in Key : Type(m, k)
       \/ Activate(m) \/ Commit(m) \/ Granted(m) \/ NotActivated(m)
  \/ Tick

Spec == Init /\ [][Next]_vars

-----------------------------------------------------------------------------
(* "Only a reachable server saying revoked, or a grace period that has run *)
(* out, stops it" has another side: no copy is let in whose licence was    *)
(* not active within the grace period before that day, whatever answers    *)
(* were lost, records lost or rewritten, and licences revoked and restored.*)
RunsOnRecentApproval ==
  \A m \in Machine :
    app[m] = "running" => admitted[m].since <= Grace

(* "A seat count stops one key being shared across an office": no more     *)
(* copies run on a key than it has seats, through lost answers, lost       *)
(* records and days offline, unless two activations of the key overlapped  *)
(* or one came from an installation of another key, which is not counted.  *)
SeatsHold ==
  \A k \in Key : ~shared[k] =>
    Cardinality({m \in Machine : app[m] = "running" /\ admitted[m].key = k}) <= MaxInstalls

(* The same without the exceptions.                                        *)
NoKeyShared ==
  \A k \in Key :
    Cardinality({m \in Machine : app[m] = "running" /\ admitted[m].key = k}) <= MaxInstalls

(* "The service was reached and said no. Stop.": a copy that was told so   *)
(* is not let in again while the licence stands revoked.  The refusal is   *)
(* not stored, so it is, offline and within the grace period.              *)
RevokedStays ==
  [][\A m \in Machine :
       app[m] = "launching" /\ app'[m] = "running" => licence[call[m].key] = "active"]_vars

=============================================================================
