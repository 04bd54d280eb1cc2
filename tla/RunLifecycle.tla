---------------------------- MODULE RunLifecycle ----------------------------
(***************************************************************************)
(* What a paper run promises to whoever looks at it: a record in the       *)
(* database and an activity in the process.  A record is opened once and   *)
(* never re-opened; an activity begins at most once, only for an opened    *)
(* record, and never resumes, whatever threads, requests and restarts do.  *)
(***************************************************************************)
CONSTANTS Run

VARIABLES
  status,    \* status[r]: the run's row, as the interface shows it
  activity   \* activity[r]: whether the run polls prices and may trade

Ended == {"STOPPED", "HALTED", "FAILED", "INTERRUPTED"}
Status == {"none", "RUNNING", "deleted"} \cup Ended

Init ==
  /\ status = [r \in Run |-> "none"]
  /\ activity = [r \in Run |-> "none"]

Open(r) ==
  /\ status[r] = "none"
  /\ status' = [status EXCEPT ![r] = "RUNNING"]
  /\ UNCHANGED activity

Begin(r) ==
  /\ status[r] # "none" /\ activity[r] = "none"
  /\ activity' = [activity EXCEPT ![r] = "active"]
  /\ UNCHANGED status

Finish(r) ==
  /\ activity[r] = "active"
  /\ activity' = [activity EXCEPT ![r] = "over"]
  /\ UNCHANGED status

(* A start that fails closes the record of an activity that never ran.     *)
Abort(r) ==
  /\ status[r] # "none" /\ activity[r] = "none"
  /\ status' = [status EXCEPT ![r] = IF @ = "deleted" THEN @ ELSE "FAILED"]
  /\ activity' = [activity EXCEPT ![r] = "over"]

(* A later end replaces an earlier one.                                    *)
Close(r) ==
  /\ status[r] \in {"RUNNING"} \cup Ended
  /\ \E e \in {"STOPPED", "HALTED", "FAILED"} :
       status' = [status EXCEPT ![r] = e]
  /\ UNCHANGED activity

Delete(R) ==
  /\ status' = [r \in Run |-> IF r \in R /\ status[r] # "none"
                              THEN "deleted" ELSE status[r]]
  /\ UNCHANGED activity

Die ==
  /\ activity' = [r \in Run |-> IF activity[r] = "active"
                                THEN "over" ELSE activity[r]]
  /\ UNCHANGED status

Recover ==
  /\ \A r \in Run : activity[r] # "active"
  /\ status' = [r \in Run |-> IF status[r] = "RUNNING"
                              THEN "INTERRUPTED" ELSE status[r]]
  /\ UNCHANGED activity

Next ==
  \/ \E r \in Run : Open(r) \/ Begin(r) \/ Finish(r) \/ Abort(r) \/ Close(r)
  \/ \E R \in SUBSET Run : Delete(R)
  \/ Die
  \/ Recover

Spec == Init /\ [][Next]_<<status, activity>>
=============================================================================
