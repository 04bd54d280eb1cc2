------------------------------ MODULE Updater ------------------------------
(***************************************************************************)
(* The in-app update of the desktop program and the processes it replaces: *)
(* backend/app/services/updater_service.py with its endpoints in           *)
(* api/v1/system.py, and client-desktop/app/launcher.py and cli.py.        *)
(*                                                                         *)
(* A copy of the program is a launcher, which serves the interface, and    *)
(* the backend it spawns; both run from the same executable file.  The     *)
(* backend downloads a release next to that file and hands over to a       *)
(* script that kills every copy and moves the files.                       *)
(***************************************************************************)
EXTENDS Integers, FiniteSets

CONSTANTS
  Copy,       \* copies of the program that may run
  Update,     \* bound of the model: updates asked for
  Asset       \* what a release offers for download: "program", or "page" if it
              \* has no executable and the address of its web page is offered

VARIABLES
  launcher,  \* launcher[c]: "off", "waiting" for its backend, "open", "closing"
  backend,   \* backend[c]: "off", "starting", "up"
  offer,     \* what the interface offers to download
  exe, old,  \* the executable, the one before it (.old) and the downloaded
  new,       \* one (.new): "none", "program", "partial" or "page"
  update,    \* update[n]: its step, the copy it runs in and what it fetches
  orderly    \* history: updates ran one at a time, and nobody started the
             \* program under a running script

vars == <<launcher, backend, offer, exe, old, new, update, orderly>>

Contents == {"none", "program", "partial", "page"}
NoUpdate == [pc |-> "no", copy |-> "no", fetches |-> "none"]
Downloading == {"asked", "download", "ready"}          \* a thread of its backend
Scripted == {"kill", "wait", "delete", "aside", "install", "start"}

TypeOK ==
  /\ launcher \in [Copy -> {"off", "waiting", "open", "closing"}]
  /\ backend \in [Copy -> {"off", "starting", "up"}]
  /\ offer \in Asset \cup {"none"}
  /\ exe \in Contents /\ old \in Contents /\ new \in Contents
  /\ update \in [Update -> [pc : {"no", "done"} \cup Downloading \cup Scripted,
                            copy : Copy \cup {"no"}, fetches : Asset \cup {"none"}]]
  /\ orderly \in BOOLEAN

Init ==
  /\ launcher = [c \in Copy |-> "off"] /\ backend = [c \in Copy |-> "off"]
  /\ offer = "none" /\ exe = "program" /\ old = "none" /\ new = "none"
  /\ update = [n \in Update |-> NoUpdate]
  /\ orderly = TRUE

Files == <<exe, old, new>>
Underway(pcs) == {n \in Update : update[n].pc \in pcs}
Off == [c \in Copy |-> "off"]

\* An update thread dies with its backend.
Survivors(alive) ==
  [n \in Update |-> IF update[n].pc \in Downloading /\ update[n].copy \notin alive
                    THEN [update[n] EXCEPT !.pc = "done"] ELSE update[n]]

-----------------------------------------------------------------------------
(* The launcher and its backend.                                            *)

\* start_desktop_app, up to the backend that is spawned.
Launch(c) ==
  /\ launcher[c] = "off" /\ backend[c] = "off" /\ exe = "program"
  /\ launcher' = [launcher EXCEPT ![c] = "waiting"]
  /\ backend' = [backend EXCEPT ![c] = "starting"]
  /\ orderly' = (orderly /\ Underway(Scripted \ {"start"}) = {})
  /\ UNCHANGED <<offer, Files, update>>

\* The window opens when the backend answers, or without it after a while.
OpenWindow(c) ==
  /\ launcher[c] = "waiting"
  /\ launcher' = [launcher EXCEPT ![c] = "open"]
  /\ UNCHANGED <<backend, offer, Files, update, orderly>>

BackendUp(c) ==
  /\ backend[c] = "starting"
  /\ backend' = [backend EXCEPT ![c] = "up"]
  /\ UNCHANGED <<launcher, offer, Files, update, orderly>>

BackendDies(c) ==
  /\ backend[c] # "off"
  /\ backend' = [backend EXCEPT ![c] = "off"]
  /\ update' = Survivors(Copy \ {c})
  /\ UNCHANGED <<launcher, offer, Files, orderly>>

\* The user stops the program: the backend is told to end, and after ten
\* seconds killed.
Quit(c) ==
  /\ launcher[c] \in {"waiting", "open"}
  /\ launcher' = [launcher EXCEPT ![c] = "closing"]
  /\ UNCHANGED <<backend, offer, Files, update, orderly>>

Closed(c) ==
  /\ launcher[c] = "closing"
  /\ launcher' = [launcher EXCEPT ![c] = "off"]
  /\ backend' = [backend EXCEPT ![c] = "off"]
  /\ update' = Survivors(Copy \ {c})
  /\ UNCHANGED <<offer, Files, orderly>>

\* A launcher that is killed leaves its backend running.
LauncherKilled(c) ==
  /\ launcher[c] # "off"
  /\ launcher' = [launcher EXCEPT ![c] = "off"]
  /\ UNCHANGED <<backend, offer, Files, update, orderly>>

\* The machine goes down, the script of an update with it.
PowerFails ==
  /\ launcher' = Off /\ backend' = Off
  /\ update' = [n \in Update |-> IF update[n].pc = "no" THEN update[n]
                                 ELSE [update[n] EXCEPT !.pc = "done"]]
  /\ UNCHANGED <<offer, Files, orderly>>

-----------------------------------------------------------------------------
(* The update.                                                              *)

\* check_for_updates: a newer release, or no answer, which offers nothing.
Check(c) ==
  /\ backend[c] = "up" /\ launcher[c] = "open"
  /\ offer' \in Asset \cup {"none"}
  /\ UNCHANGED <<launcher, backend, Files, update, orderly>>

\* POST /system/update/apply starts a thread, whatever else is under way.
Apply(c, n) ==
  /\ backend[c] = "up" /\ offer # "none" /\ update[n].pc = "no"
  /\ update' = [update EXCEPT ![n] = [pc |-> "asked", copy |-> c, fetches |-> offer]]
  /\ orderly' = (orderly /\ Underway(Downloading \cup Scripted) = {})
  /\ UNCHANGED <<launcher, backend, offer, Files>>

Goes(n, pc) == update' = [update EXCEPT ![n].pc = pc]
Processes == UNCHANGED <<launcher, backend, offer, orderly>>

\* The file is opened for writing, which empties it.
BeginDownload(n) ==
  /\ update[n].pc = "asked" /\ Goes(n, "download") /\ new' = "partial"
  /\ Processes /\ UNCHANGED <<exe, old>>

\* Another download of the same file leaves holes; an error leaves a part.
EndDownload(n) ==
  /\ update[n].pc = "download"
  /\ \/ Goes(n, "ready")
        /\ new' \in IF Underway({"download"}) = {n} /\ orderly THEN {update[n].fetches}
                    ELSE {update[n].fetches, "partial"}
     \/ Goes(n, "done") /\ UNCHANGED new
  /\ Processes /\ UNCHANGED <<exe, old>>

\* The script is started, and the backend exits.
StartScript(n) ==
  LET c == update[n].copy
  IN  /\ update[n].pc = "ready"
      /\ update' = [Survivors(Copy \ {c}) EXCEPT ![n] = [update[n] EXCEPT !.pc = "kill"]]
      /\ backend' = [backend EXCEPT ![c] = "off"]
      /\ UNCHANGED <<launcher, offer, Files, orderly>>

\* taskkill by image name: every launcher and every backend.
KillCopies(n) ==
  LET killed == Survivors({})
  IN  /\ update[n].pc = "kill"
      /\ launcher' = Off /\ backend' = Off
      /\ update' = [killed EXCEPT ![n].pc = "wait"]
      /\ UNCHANGED <<offer, Files, orderly>>

\* The script waits until no process of that name is left.
Gone(n) ==
  /\ update[n].pc = "wait" /\ launcher = Off /\ backend = Off /\ Goes(n, "delete")
  /\ Processes /\ UNCHANGED Files

DeleteOld(n) ==
  /\ update[n].pc = "delete" /\ Goes(n, "aside") /\ old' = "none"
  /\ Processes /\ UNCHANGED <<exe, new>>

\* Mutant: the executable is deleted, not moved.
MoveAside_deleted(n) ==
  /\ update[n].pc = "aside" /\ Goes(n, "install")
  /\ exe' = "none" /\ UNCHANGED old
  /\ Processes /\ UNCHANGED new
\* A move of a file that is locked or not there changes nothing.
MoveAside(n) ==
  /\ update[n].pc = "aside" /\ Goes(n, "install")
  /\ IF exe = "none" THEN UNCHANGED <<exe, old>>
     ELSE \/ old' = exe /\ exe' = "none"
          \/ UNCHANGED <<exe, old>>
  /\ Processes /\ UNCHANGED new

Install(n) ==
  /\ update[n].pc = "install" /\ Goes(n, "start")
  /\ IF new = "none" THEN UNCHANGED <<exe, new>>
     ELSE \/ exe' = new /\ new' = "none"
          \/ UNCHANGED <<exe, new>>
  /\ Processes /\ UNCHANGED old

\* The script starts what is now the executable, and ends.
StartProgram(n) ==
  /\ update[n].pc = "start" /\ Goes(n, "done")
  /\ IF exe = "program" THEN \E c \in Copy : /\ launcher[c] = "off" /\ backend[c] = "off"
                                             /\ launcher' = [launcher EXCEPT ![c] = "waiting"]
                                             /\ backend' = [backend EXCEPT ![c] = "starting"]
     ELSE UNCHANGED <<launcher, backend>>
  /\ UNCHANGED <<offer, Files, orderly>>

Next ==
  \/ \E c \in Copy : \/ Launch(c) \/ OpenWindow(c) \/ BackendUp(c) \/ BackendDies(c) \/ Quit(c)
                     \/ Closed(c) \/ LauncherKilled(c) \/ Check(c)
                     \/ \E n \in Update : Apply(c, n)
  \/ PowerFails
  \/ \E n \in Update : \/ BeginDownload(n) \/ EndDownload(n) \/ StartScript(n) \/ KillCopies(n)
                       \/ Gone(n) \/ DeleteOld(n) \/ MoveAside(n) \/ Install(n)
                       \/ StartProgram(n)

Spec == Init /\ [][Next]_vars

-----------------------------------------------------------------------------
(* Updates that come one at a time and offer the program never leave the   *)
(* machine without a complete one, as the executable or the one before it: *)
(* through a download that breaks off, a move that fails, a loss of power  *)
(* between two moves, a launcher that died and a backend it left behind.   *)
ProgramSurvives ==
  orderly /\ "page" \notin {update[n].fetches : n \in Update} => "program" \in {exe, old}

(* "Downloads the new executable": what is installed is a program.  It     *)
(* does not hold, a release without an executable has its page installed.  *)
InstalledIsProgram == orderly => exe \in {"none", "program"}
=============================================================================
