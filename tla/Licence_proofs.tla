--------------------------- MODULE Licence_proofs ---------------------------
(***************************************************************************)
(* The grace period and the seats of Licence, for any machines, keys, ids, *)
(* seats, days and losses.  Approved says what a record, a copy of it and  *)
(* an answer on its way know of the last day a key was an active licence.  *)
(* Seated gives each installation id to the machine that made it up: what  *)
(* runs on a key, or still may, has a row of that key under an id of its   *)
(* own, so the seats that are counted bound the copies that run.           *)
(***************************************************************************)
EXTENDS Licence, FiniteSetTheorems, FunctionTheorems, TLAPS

Records == [id : Id \cup {NoId}, key : Key \cup {NoKey}, verified : 0 .. LastDay]
Labels == {"idle", "prompt", "beat", "active", "revoked", "activate", "seat", "granted"}
Calls == [pc : Labels, id : Id \cup {NoId}, key : Key \cup {NoKey}, copy : Records]
Admissions == [key : Key \cup {NoKey}, since : 0 .. LastDay]

\* A record is verified on a day on which its key was an active licence.
TrueRecord(r) == r.verified # 0 => r.key \in Key /\ r.verified <= stood[r.key]

\* What a call has in hand, what it has been told, and what let the copy in.
Approved(m) ==
  /\ TrueRecord(record[m])
  /\ call[m].pc \in {"beat", "active", "revoked"} =>
       call[m].key \in Key /\ call[m].copy.key = call[m].key /\ TrueRecord(call[m].copy)
  /\ call[m].pc \in {"activate", "seat", "granted"} => call[m].key \in Key
  /\ call[m].pc \in {"active", "seat", "granted"} => stood[call[m].key] = day
  /\ app[m] = "running" => admitted[m].since <= Grace

Days == \A k \in Key : stood[k] <= day /\ (licence[k] = "active" => stood[k] = day)

RecentInv == TypeOK /\ Days /\ \A m \in Machine : Approved(m)

\* Machine m runs on key k or may come to.
Holds(m, k) ==
  \/ record[m].key = k \/ call[m].copy.key = k
  \/ call[m].pc = "granted" /\ call[m].key = k
  \/ app[m] = "running" /\ admitted[m].key = k

\* An id is of one machine, and a key that is held has a row under an id of
\* its holder; a machine that activates holds none; a seat it was promised
\* is still free unless it has become a shared key's.
Seated(own, m) ==
  /\ \A i \in {record[m].id, call[m].id, call[m].copy.id} \ {NoId} : i \in used /\ own[i] = m
  /\ \A k \in Key : Holds(m, k) => \E i \in Id : own[i] = m /\ install[i] = k
  /\ call[m].pc \notin {"beat", "active", "revoked"} => call[m].copy.key = NoKey
  /\ call[m].pc \in {"prompt", "activate", "seat", "granted"} =>
       app[m] = "launching" /\ record[m].key = NoKey
  /\ call[m].pc \in {"activate", "seat", "granted"} => call[m].id \in Id
  /\ call[m].pc = "seat" /\ ~shared[call[m].key] =>
       install[call[m].id] # NoKey \/ HasSeat(call[m].key)

Counted ==
  \A k \in Key : /\ IsFiniteSet(Seats(k))
                 /\ ~shared[k] => Cardinality(Seats(k)) <= MaxInstalls
Rows == \A i \in Id : install[i] # NoKey => i \in used

Owners == [Id -> Machine \cup {NoId}]
SeatInv ==
  RecentInv /\ Counted /\ Rows /\ \E own \in Owners : \A m \in Machine : Seated(own, m)

-----------------------------------------------------------------------------
(* Types, and what the parts of an action do                               *)

Plain ==
  /\ licence \in [Key -> {"none", "active", "revoked"}]
  /\ install \in [Id -> Key \cup {NoKey}] /\ used \subseteq Id
  /\ app \in [Machine -> {"off", "launching", "running"}]
  /\ day \in 1 .. LastDay /\ losses \in 0 .. MaxLosses
  /\ stood \in [Key -> 0 .. LastDay] /\ shared \in [Key -> BOOLEAN]

LEMMA TypesAre ==
  TypeOK <=> /\ Plain /\ record \in [Machine -> Records] /\ call \in [Machine -> Calls]
             /\ admitted \in [Machine -> Admissions]
  BY DEF TypeOK, Plain, Records, Calls, Admissions, Labels

LEMMA TypesNext ==
  ASSUME Plain', record' \in [Machine -> Records], call' \in [Machine -> Calls],
         admitted' \in [Machine -> Admissions]
  PROVE  TypeOK'
  BY DEF TypeOK, Plain, Records, Calls, Admissions, Labels

LEMMA NoRecordIs == NoRecord \in Records /\ NoRecord.key = NoKey /\ NoRecord.id = NoId /\ NoRecord.verified = 0
  BY LicenceAssumption DEF NoRecord, Records

LEMMA NoCallIs ==
  /\ NoCall \in Calls /\ NoCall.pc = "idle" /\ NoCall.id = NoId /\ NoCall.copy = NoRecord
  BY NoRecordIs DEF NoCall, Calls, Labels

LEMMA HangIs ==
  ASSUME TypeOK, NEW m \in Machine, Hang(m)
  PROVE  /\ call' \in [Machine -> Calls] /\ call'[m] = NoCall
         /\ \A n \in Machine \ {m} : call'[n] = call[n]
  BY TypesAre, NoCallIs DEF Hang

LEMMA GotoIs ==
  ASSUME TypeOK, NEW m \in Machine, NEW label \in Labels, Goto(m, label)
  PROVE  /\ call' \in [Machine -> Calls] /\ \A n \in Machine \ {m} : call'[n] = call[n]
         /\ call'[m].pc = label /\ call'[m].id = call[m].id /\ call'[m].key = call[m].key
         /\ call'[m].copy = call[m].copy
<1>1. call[m] \in Calls /\ call \in [Machine -> Calls]
  BY TypesAre
<1>2. PICK c : c = [call[m] EXCEPT !.pc = label]
  OBVIOUS
<1>3. /\ c \in Calls /\ c.pc = label /\ c.id = call[m].id /\ c.key = call[m].key
      /\ c.copy = call[m].copy
  BY <1>1, <1>2 DEF Calls
<1>4. call' = [call EXCEPT ![m] = c]
  BY <1>2 DEF Goto
<1> QED
  BY <1>1, <1>3, <1>4

(* A call that begins.                                                     *)
LEMMA CallIs ==
  ASSUME TypeOK, NEW m \in Machine, NEW label \in Labels, NEW i \in Id, NEW k \in Key,
         NEW r \in Records,
         call' = [call EXCEPT ![m] = [pc |-> label, id |-> i, key |-> k, copy |-> r]]
  PROVE  /\ call' \in [Machine -> Calls] /\ \A n \in Machine \ {m} : call'[n] = call[n]
         /\ call'[m].pc = label /\ call'[m].id = i /\ call'[m].key = k /\ call'[m].copy = r
<1>1. PICK c : c = [pc |-> label, id |-> i, key |-> k, copy |-> r]
  OBVIOUS
<1>2. c \in Calls /\ c.pc = label /\ c.id = i /\ c.key = k /\ c.copy = r
  BY <1>1 DEF Calls
<1> QED
  BY <1>1, <1>2, TypesAre

LEMMA WriteIs ==
  ASSUME TypeOK, NEW m \in Machine, NEW r \in Records, Write(m, r)
  PROVE  /\ record' \in [Machine -> Records] /\ losses' \in 0 .. MaxLosses
         /\ record'[m] \in {record[m], r}
         /\ \A n \in Machine \ {m} : record'[n] = record[n]
<1>1. record \in [Machine -> Records] /\ losses \in 0 .. MaxLosses
  BY TypesAre DEF Plain
<1> QED
  BY <1>1, LicenceAssumption DEF Write

(* install_id changes the id of the record at most.                        *)
LEMMA InstallIdIs ==
  ASSUME TypeOK, NEW m \in Machine, NEW i \in Id, InstallId(m, i)
  PROVE  /\ record' \in [Machine -> Records] /\ losses' \in 0 .. MaxLosses
         /\ used' = used \cup {i} \/ (used' = used /\ i = record[m].id)
         /\ i = record[m].id \/ i \notin used
         /\ used' \subseteq Id
         /\ record'[m].id \in {record[m].id, i} /\ record'[m].key = record[m].key
         /\ record'[m].verified = record[m].verified
         /\ \A n \in Machine \ {m} : record'[n] = record[n]
<1>1. record[m] \in Records /\ record \in [Machine -> Records] /\ losses \in 0 .. MaxLosses /\ used \subseteq Id
  BY TypesAre DEF Plain
<1>2. PICK r : r = [record[m] EXCEPT !.id = i]
  OBVIOUS
<1>3. r \in Records /\ r.id = i /\ r.key = record[m].key /\ r.verified = record[m].verified
  BY <1>1, <1>2 DEF Records
<1>4. CASE record[m].id # NoId /\ i = record[m].id /\ UNCHANGED <<used, record, losses>>
  BY <1>1, <1>4
<1>5. CASE i \notin used /\ used' = used \cup {i} /\ Write(m, r)
  <2>1. /\ record' \in [Machine -> Records] /\ losses' \in 0 .. MaxLosses
        /\ record'[m] \in {record[m], r} /\ \A n \in Machine \ {m} : record'[n] = record[n]
    BY <1>3, <1>5, WriteIs
  <2> QED
    BY <1>1, <1>3, <1>5, <2>1
<1> QED
  BY <1>2, <1>4, <1>5 DEF InstallId

(* Admit lets a launching copy in on key k, and leaves a running one be.   *)
LEMMA AdmitIs ==
  ASSUME TypeOK, NEW m \in Machine, NEW k \in Key, stood[k] <= day, Admit(m, k)
  PROVE  /\ app' \in [Machine -> {"off", "launching", "running"}]
         /\ admitted' \in [Machine -> Admissions]
         /\ \A n \in Machine \ {m} : app'[n] = app[n] /\ admitted'[n] = admitted[n]
         /\ \/ /\ app'[m] = "running" /\ admitted'[m].key = k
               /\ admitted'[m].since = day - stood[k]
            \/ app'[m] = app[m] /\ app[m] # "launching" /\ admitted'[m] = admitted[m]
<1>1. /\ app \in [Machine -> {"off", "launching", "running"}] /\ admitted \in [Machine -> Admissions]
      /\ day \in 1 .. LastDay /\ stood[k] \in 0 .. LastDay
  BY TypesAre DEF Plain
<1>2. PICK e : e = [key |-> k, since |-> day - stood[k]]
  OBVIOUS
<1>3. day - stood[k] \in 0 .. LastDay
  BY <1>1, LicenceAssumption
<1>4. e \in Admissions /\ e.key = k /\ e.since = day - stood[k]
  BY <1>2, <1>3 DEF Admissions
<1>5. CASE app[m] = "launching"
  <2>1. app' = [app EXCEPT ![m] = "running"] /\ admitted' = [admitted EXCEPT ![m] = e]
    BY <1>2, <1>5 DEF Admit
  <2> QED
    BY <1>1, <1>4, <2>1
<1>6. CASE app[m] # "launching"
  BY <1>1, <1>6 DEF Admit
<1> QED
  BY <1>5, <1>6

LEMMA RefuseIs ==
  ASSUME TypeOK, NEW m \in Machine, Refuse(m)
  PROVE  /\ app' \in [Machine -> {"off", "launching", "running"}] /\ admitted' = admitted
         /\ \A n \in Machine \ {m} : app'[n] = app[n]
         /\ app'[m] = "running" => app[m] = "running"
  BY TypesAre DEF Refuse, Plain

-----------------------------------------------------------------------------
(* The grace period: RecentInv                                             *)

LEMMA InitRecent == Init => RecentInv
<1> SUFFICES ASSUME Init PROVE RecentInv
  OBVIOUS
<1>1. Plain
  BY LicenceAssumption DEF Init, Plain
<1>2. record \in [Machine -> Records] /\ call \in [Machine -> Calls]
  BY NoRecordIs, NoCallIs DEF Init
<1>3. admitted \in [Machine -> Admissions]
  BY LicenceAssumption DEF Init, Admissions, Out
<1>4. Days
  BY DEF Init, Days
<1>5. \A m \in Machine : Approved(m)
  BY NoRecordIs, NoCallIs DEF Init, Approved, TrueRecord
<1> QED
  BY <1>1, <1>2, <1>3, <1>4, <1>5, TypesAre DEF RecentInv

(* A step of the copy on one machine, on a day like before.                *)
LEMMA MachineStep ==
  ASSUME RecentInv, NEW m \in Machine, UNCHANGED <<licence, stood, day>>,
         Plain', record' \in [Machine -> Records], call' \in [Machine -> Calls],
         admitted' \in [Machine -> Admissions],
         \A n \in Machine \ {m} : /\ record'[n] = record[n] /\ call'[n] = call[n]
                                 /\ app'[n] = app[n] /\ admitted'[n] = admitted[n],
         Approved(m)'
  PROVE  RecentInv'
<1>1. TypeOK'
  BY TypesNext
<1>2. Days'
  BY DEF RecentInv, Days
<1>3. ASSUME NEW n \in Machine PROVE Approved(n)'
  <2>1. CASE n = m
    BY <2>1
  <2>2. CASE n # m
    BY <2>2 DEF RecentInv, Approved, TrueRecord
  <2> QED
    BY <2>1, <2>2
<1> QED
  BY <1>1, <1>2, <1>3 DEF RecentInv

(* The record and the process of a machine, and the start of a call.       *)
LEMMA StartRecent ==
  ASSUME RecentInv, NEW m \in Machine,
         Lose(m) \/ Launch(m) \/ Quit(m) \/ Check(m) \/ \E k \in Key : Type(m, k)
  PROVE  RecentInv'
<1> USE LicenceAssumption DEF server, history
<1>0. /\ TypeOK /\ Plain /\ record \in [Machine -> Records] /\ call \in [Machine -> Calls]
      /\ admitted \in [Machine -> Admissions] /\ Approved(m) /\ record[m] \in Records
      /\ UNCHANGED <<licence, stood, day>>
  BY TypesAre DEF RecentInv, Lose, Launch, Quit, Check, Type
<1>1. CASE Lose(m)
  <2>1. /\ record' \in [Machine -> Records] /\ record'[m] = NoRecord
        /\ \A n \in Machine \ {m} : record'[n] = record[n]
    BY <1>0, <1>1, NoRecordIs DEF Lose
  <2>2. UNCHANGED <<app, call, admitted>> /\ Plain'
    BY <1>0, <1>1 DEF Lose, Plain
  <2>3. Approved(m)'
    BY <1>0, <2>1, <2>2, NoRecordIs DEF Approved, TrueRecord
  <2> QED
    BY <1>0, <2>1, <2>2, <2>3, MachineStep
<1>2. CASE Launch(m)
  <2>1. UNCHANGED <<record, call, admitted>> /\ Plain'
    BY <1>0, <1>2 DEF Launch, Plain
  <2>2. app'[m] = "launching" /\ \A n \in Machine \ {m} : app'[n] = app[n]
    BY <1>0, <1>2 DEF Launch, Plain
  <2>3. Approved(m)'
    BY <1>0, <2>1, <2>2 DEF Approved, TrueRecord
  <2> QED
    BY <1>0, <2>1, <2>2, <2>3, MachineStep
<1>3. CASE Quit(m)
  <2>1. UNCHANGED <<record, call>> /\ Plain'
    BY <1>0, <1>3 DEF Quit, Plain
  <2>2. app'[m] = "off" /\ \A n \in Machine \ {m} : app'[n] = app[n] /\ admitted'[n] = admitted[n]
    BY <1>0, <1>3 DEF Quit, Plain
  <2>3. Out \in Admissions
    BY DEF Out, Admissions
  <2>4. admitted' \in [Machine -> Admissions]
    BY <1>0, <1>3, <2>3 DEF Quit
  <2>5. Approved(m)'
    BY <1>0, <2>1, <2>2 DEF Approved, TrueRecord
  <2> QED
    BY <1>0, <2>1, <2>2, <2>4, <2>5, MachineStep
<1>4. CASE Check(m) /\ record[m].key = NoKey
  <2>1. Goto(m, "prompt") /\ UNCHANGED <<record, app, admitted>> /\ Plain'
    BY <1>0, <1>4 DEF Check, Plain
  <2>2. /\ call' \in [Machine -> Calls] /\ \A n \in Machine \ {m} : call'[n] = call[n]
        /\ call'[m].pc = "prompt"
    BY <1>0, <2>1, GotoIs DEF Labels
  <2>3. Approved(m)'
    BY <1>0, <2>1, <2>2 DEF Approved, TrueRecord
  <2> QED
    BY <1>0, <2>1, <2>2, <2>3, MachineStep
<1>5. CASE Check(m) /\ record[m].key # NoKey
  <2>1. PICK i \in Id :
          /\ InstallId(m, i)
          /\ call' = [call EXCEPT ![m] = [pc |-> "beat", id |-> i, key |-> record[m].key, copy |-> record[m]]]
    BY <1>5 DEF Check
  <2>2. UNCHANGED <<app, admitted>> /\ record[m].key \in Key
    BY <1>0, <1>5 DEF Check, Records
  <2>3. /\ record' \in [Machine -> Records] /\ losses' \in 0 .. MaxLosses
        /\ used' \subseteq Id /\ record'[m].key = record[m].key
        /\ record'[m].verified = record[m].verified
        /\ \A n \in Machine \ {m} : record'[n] = record[n]
    BY <1>0, <2>1, InstallIdIs
  <2>4. /\ call' \in [Machine -> Calls] /\ \A n \in Machine \ {m} : call'[n] = call[n]
        /\ call'[m].pc = "beat" /\ call'[m].key = record[m].key /\ call'[m].copy = record[m]
    BY ZenonT(30), <1>0, <2>1, <2>2, CallIs DEF Labels
  <2>5. Plain'
    BY <1>0, <1>5, <2>2, <2>3 DEF Check, Plain
  <2>6. Approved(m)'
    BY <1>0, <2>2, <2>3, <2>4 DEF Approved, TrueRecord
  <2> QED
    BY <1>0, <2>2, <2>3, <2>4, <2>5, <2>6, MachineStep
<1>6. CASE \E k \in Key : Type(m, k)
  <2>1. PICK k \in Key, i \in Id :
          /\ InstallId(m, i)
          /\ call' = [call EXCEPT ![m] = [pc |-> "activate", id |-> i, key |-> k, copy |-> NoRecord]]
    BY <1>6 DEF Type
  <2>2. UNCHANGED <<app, admitted, licence, install, shared>>
    BY <1>6 DEF Type
  <2>3. /\ record' \in [Machine -> Records] /\ losses' \in 0 .. MaxLosses
        /\ used' \subseteq Id /\ record'[m].key = record[m].key
        /\ record'[m].verified = record[m].verified
        /\ \A n \in Machine \ {m} : record'[n] = record[n]
    BY <1>0, <2>1, InstallIdIs
  <2>4. /\ call' \in [Machine -> Calls] /\ \A n \in Machine \ {m} : call'[n] = call[n]
        /\ call'[m].pc = "activate" /\ call'[m].key = k
    BY <1>0, <2>1, <2>2, NoRecordIs, CallIs, ZenonT(60) DEF Labels
  <2>5. Plain'
    BY <1>0, <2>2, <2>3 DEF Plain
  <2>6. Approved(m)'
    BY <1>0, <2>2, <2>3, <2>4 DEF Approved, TrueRecord
  <2> QED
    BY <1>0, <2>2, <2>3, <2>4, <2>5, <2>6, MachineStep
<1> QED
  BY <1>1, <1>2, <1>3, <1>4, <1>5, <1>6

(* A call comes to its end on the machine.                                 *)
LEMMA EndRecent ==
  ASSUME RecentInv, NEW m \in Machine,
         Active(m) \/ Revoked(m) \/ Unreachable(m) \/ Granted(m) \/ NotActivated(m)
  PROVE  RecentInv'
<1> USE LicenceAssumption DEF server, history
<1>0. /\ TypeOK /\ Plain /\ record \in [Machine -> Records] /\ call \in [Machine -> Calls]
      /\ admitted \in [Machine -> Admissions] /\ Approved(m) /\ record[m] \in Records
      /\ call[m] \in Calls /\ Days
      /\ UNCHANGED <<licence, stood, day, install, shared, used>> /\ Hang(m)
  BY TypesAre DEF RecentInv, Active, Revoked, Unreachable, Granted, NotActivated
<1>1. /\ call' \in [Machine -> Calls] /\ call'[m].pc = "idle"
      /\ \A n \in Machine \ {m} : call'[n] = call[n]
  BY <1>0, HangIs, NoCallIs
<1>2. ASSUME record' \in [Machine -> Records], losses' \in 0 .. MaxLosses,
             \A n \in Machine \ {m} : record'[n] = record[n], TrueRecord(record[m])',
             \/ Refuse(m)
             \/ call[m].key \in Key /\ day - stood[call[m].key] <= Grace /\ Admit(m, call[m].key)
      PROVE  RecentInv'
  <2>1. CASE Refuse(m)
    <3>1. /\ app' \in [Machine -> {"off", "launching", "running"}] /\ admitted' = admitted
          /\ \A n \in Machine \ {m} : app'[n] = app[n]
          /\ app'[m] = "running" => app[m] = "running"
      BY <1>0, <2>1, RefuseIs
    <3>2. Plain'
      BY <1>0, <1>2, <3>1 DEF Plain
    <3>3. Approved(m)'
      BY <1>0, <1>1, <1>2, <3>1 DEF Approved
    <3> QED
      BY <1>0, <1>1, <1>2, <3>1, <3>2, <3>3, MachineStep
  <2>2. CASE call[m].key \in Key /\ day - stood[call[m].key] <= Grace /\ Admit(m, call[m].key)
    <3>0. stood[call[m].key] <= day
      BY <1>0, <2>2 DEF Days
    <3>1. /\ app' \in [Machine -> {"off", "launching", "running"}]
          /\ admitted' \in [Machine -> Admissions]
          /\ \A n \in Machine \ {m} : app'[n] = app[n] /\ admitted'[n] = admitted[n]
          /\ \/ admitted'[m].since = day - stood[call[m].key]
             \/ app'[m] = app[m] /\ admitted'[m] = admitted[m]
      BY <1>0, <2>2, <3>0, AdmitIs
    <3>2. Plain'
      BY <1>0, <1>2, <3>1 DEF Plain
    <3>3. Approved(m)'
      BY <1>0, <1>1, <1>2, <2>2, <3>1 DEF Approved
    <3> QED
      BY <1>0, <1>1, <1>2, <3>1, <3>2, <3>3, MachineStep
  <2> QED
    BY <1>2, <2>1, <2>2
<1>3. ASSUME UNCHANGED <<record, losses>>,
             \/ Refuse(m)
             \/ call[m].key \in Key /\ day - stood[call[m].key] <= Grace /\ Admit(m, call[m].key)
      PROVE  RecentInv'
  <2>1. TrueRecord(record[m])'
    BY <1>0, <1>3 DEF Approved, TrueRecord
  <2>2. losses' \in 0 .. MaxLosses
    BY <1>0, <1>3 DEF Plain
  <2> QED
    BY <1>0, <1>2, <1>3, <2>1, <2>2
<1>4. CASE Active(m)
  <2>1. /\ call[m].key \in Key /\ call[m].copy.key = call[m].key /\ stood[call[m].key] = day
        /\ call[m].copy \in Records /\ day \in 1 .. LastDay
    BY <1>0, <1>4 DEF Active, Approved, Calls, Plain
  <2>2. PICK r : r = [call[m].copy EXCEPT !.verified = day]
    OBVIOUS
  <2>3. r \in Records /\ r.key = call[m].key /\ r.verified = day
    BY <2>1, <2>2 DEF Records
  <2>4. /\ record' \in [Machine -> Records] /\ losses' \in 0 .. MaxLosses
        /\ record'[m] \in {record[m], r} /\ \A n \in Machine \ {m} : record'[n] = record[n]
    BY <1>0, <1>4, <2>2, <2>3, WriteIs DEF Active
  <2>5. TrueRecord(record[m])'
    BY <1>0, <2>1, <2>3, <2>4 DEF Approved, TrueRecord
  <2>6. day - stood[call[m].key] <= Grace /\ Admit(m, call[m].key)
    BY <1>4, <2>1 DEF Active
  <2> QED
    BY <1>2, <2>1, <2>4, <2>5, <2>6
<1>5. CASE Granted(m)
  <2>1. call[m].key \in Key /\ stood[call[m].key] = day /\ day \in 1 .. LastDay
    BY <1>0, <1>5 DEF Granted, Approved, Plain
  <2>2. PICK r : r = [record[m] EXCEPT !.key = call[m].key, !.verified = day]
    OBVIOUS
  <2>3. r \in Records /\ r.key = call[m].key /\ r.verified = day
    <3>1. record[m] \in Records /\ day \in 0 .. LastDay /\ call[m].key \in Key \cup {NoKey}
      BY <1>0, <2>1
    <3> QED
      BY <2>2, <3>1 DEF Records
  <2>4. /\ record' \in [Machine -> Records] /\ losses' \in 0 .. MaxLosses
        /\ record'[m] \in {record[m], r} /\ \A n \in Machine \ {m} : record'[n] = record[n]
    BY <1>0, <1>5, <2>2, <2>3, WriteIs DEF Granted
  <2>5. TrueRecord(record[m])'
    BY <1>0, <2>1, <2>3, <2>4 DEF Approved, TrueRecord
  <2>6. day - stood[call[m].key] <= Grace /\ Admit(m, call[m].key)
    BY <1>5, <2>1 DEF Granted
  <2> QED
    BY <1>2, <2>1, <2>4, <2>5, <2>6
<1>6. CASE Unreachable(m)
  <2>1. /\ UNCHANGED <<record, losses>> /\ call[m].key \in Key /\ call[m].copy.key = call[m].key
        /\ TrueRecord(call[m].copy) /\ call[m].copy \in Records
    BY <1>0, <1>6 DEF Unreachable, Approved, Calls
  <2>2. CASE WithinGrace(call[m].copy)
    <3>1. /\ call[m].copy.verified <= stood[call[m].key]
          /\ day - call[m].copy.verified <= Grace
          /\ call[m].copy.verified \in Nat /\ day \in Nat /\ stood[call[m].key] \in Nat
      BY <1>0, <2>1, <2>2 DEF WithinGrace, TrueRecord, Plain, Records
    <3>2. day - stood[call[m].key] <= Grace
      BY <3>1
    <3> QED
      BY <1>3, <1>6, <2>1, <2>2, <3>2 DEF Unreachable
  <2>3. CASE ~WithinGrace(call[m].copy)
    BY <1>3, <1>6, <2>1, <2>3 DEF Unreachable
  <2> QED
    BY <2>2, <2>3
<1>7. CASE Revoked(m) \/ NotActivated(m)
  BY <1>3, <1>7 DEF Revoked, NotActivated
<1> QED
  BY <1>4, <1>5, <1>6, <1>7

(* The service answers, and stores a row.                                  *)
LEMMA ServiceRecent ==
  ASSUME RecentInv, NEW m \in Machine, Heartbeat(m) \/ Activate(m) \/ Commit(m)
  PROVE  RecentInv'
<1> USE LicenceAssumption DEF server, history
<1>0. /\ TypeOK /\ Plain /\ record \in [Machine -> Records] /\ call \in [Machine -> Calls]
      /\ admitted \in [Machine -> Admissions] /\ Approved(m) /\ call[m] \in Calls /\ Days
      /\ UNCHANGED <<licence, stood, day, record, app, admitted>>
  BY TypesAre DEF RecentInv, Heartbeat, Activate, Commit
<1>1. PICK label \in {"active", "revoked", "seat", "granted"} :
        /\ Goto(m, label)
        /\ label \in {"active", "revoked"} => call[m].pc = "beat"
        /\ label \in {"seat", "granted"} => call[m].pc \in {"activate", "seat"}
        /\ label \in {"active", "seat"} => licence[call[m].key] = "active"
        /\ label = "granted" => call[m].pc = "seat"
  BY DEF Heartbeat, Activate, Commit
<1>2. /\ call' \in [Machine -> Calls] /\ \A n \in Machine \ {m} : call'[n] = call[n]
      /\ call'[m].pc = label /\ call'[m].key = call[m].key /\ call'[m].copy = call[m].copy
  BY <1>0, <1>1, GotoIs DEF Labels
<1>3. call[m].key \in Key
  BY <1>0, <1>1 DEF Approved
<1>4. Plain'
  <2>1. CASE Heartbeat(m) \/ Activate(m)
    BY <1>0, <2>1 DEF Heartbeat, Activate, Plain
  <2>2. CASE Commit(m)
    BY <1>0, <1>3, <2>2 DEF Commit, Plain
  <2> QED
    BY <2>1, <2>2
<1>5. Approved(m)'
  BY <1>0, <1>1, <1>2, <1>3 DEF Approved, TrueRecord, Days
<1> QED
  BY <1>0, <1>2, <1>4, <1>5, MachineStep

(* The operator, and the next day: what a key has stood for only grows.    *)
LEMMA TimeRecent ==
  ASSUME RecentInv, Tick \/ \E k \in Key : Issue(k) \/ Revoke(k) \/ Restore(k)
  PROVE  RecentInv'
<1> USE LicenceAssumption DEF server, history
<1>0. /\ TypeOK /\ Plain /\ record \in [Machine -> Records] /\ call \in [Machine -> Calls]
      /\ admitted \in [Machine -> Admissions] /\ Days /\ \A m \in Machine : Approved(m)
      /\ UNCHANGED <<record, app, call, admitted>>
  BY TypesAre DEF RecentInv, Tick, Issue, Revoke, Restore, Set
<1>1. /\ Plain' /\ Days' /\ \A k \in Key : stood[k] <= stood'[k]
      /\ \A k \in Key : stood[k] = day => stood'[k] = day'
          \/ \A m \in Machine : call[m].pc \in {"idle", "prompt"}
  <2>1. CASE Tick
    <3>1. day' = day + 1 /\ day' \in 1 .. LastDay
      BY <1>0, <2>1 DEF Tick, Plain
    <3>2. Plain'
      BY <1>0, <2>1, <3>1 DEF Tick, Plain
    <3>3. \A k \in Key : stood'[k] = IF licence[k] = "active" THEN day' ELSE stood[k]
      BY <1>0, <2>1 DEF Tick
    <3>4. \A k \in Key : stood[k] \in Nat /\ day \in Nat /\ stood[k] <= day
      BY <1>0 DEF Plain, Days
    <3>5. Days' /\ \A k \in Key : stood[k] <= stood'[k]
      BY <2>1, <3>1, <3>3, <3>4 DEF Tick, Days
    <3> QED
      BY <2>1, <3>2, <3>5 DEF Tick
  <2>2. CASE \E k \in Key : Issue(k) \/ Revoke(k) \/ Restore(k)
    <3>1. PICK k \in Key, status \in {"active", "revoked"} : Set(k, status)
      BY <2>2 DEF Issue, Revoke, Restore
    <3>2. Plain'
      BY <1>0, <3>1 DEF Set, Plain
    <3>3. /\ day' = day /\ licence'[k] = status /\ stood'[k] = (IF status = "active" THEN day ELSE stood[k])
          /\ \A j \in Key \ {k} : licence'[j] = licence[j] /\ stood'[j] = stood[j]
      BY <1>0, <3>1 DEF Set, Plain
    <3>4. \A j \in Key : stood[j] \in Nat /\ day \in Nat
      BY <1>0 DEF Plain
    <3>5. \A j \in Key : stood[j] <= stood'[j] /\ stood'[j] <= day' /\ (stood[j] = day => stood'[j] = day')
      BY <1>0, <3>3, <3>4 DEF Days
    <3>6. Days'
      BY <1>0, <3>3, <3>5 DEF Days
    <3> QED
      BY <3>2, <3>5, <3>6
  <2> QED
    BY <2>1, <2>2
<1>2. TypeOK'
  BY <1>0, <1>1, TypesNext
<1>3. ASSUME NEW m \in Machine PROVE Approved(m)'
  <2>1. Approved(m) /\ record[m] \in Records /\ call[m] \in Calls
    BY <1>0
  <2>2. ASSUME NEW r \in Records, TrueRecord(r)
        PROVE  r.verified # 0 => r.key \in Key /\ r.verified <= stood'[r.key]
    <3>1. CASE r.verified # 0
      <4>1. r.key \in Key /\ r.verified <= stood[r.key] /\ r.verified \in Nat
        BY <2>2, <3>1 DEF TrueRecord, Records
      <4>2. stood[r.key] \in Nat /\ stood'[r.key] \in Nat /\ stood[r.key] <= stood'[r.key]
        BY <1>0, <1>1, <4>1 DEF Plain
      <4> QED
        BY <4>1, <4>2
    <3> QED
      BY <3>1
  <2>3. TrueRecord(record[m])' /\ (TrueRecord(call[m].copy) => TrueRecord(call[m].copy)')
    <3>1. call[m].copy \in Records
      BY <2>1 DEF Calls
    <3>2. TrueRecord(record[m])'
      BY <1>0, <2>1, <2>2 DEF Approved, TrueRecord
    <3>3. TrueRecord(call[m].copy) => TrueRecord(call[m].copy)'
      BY <1>0, <3>1, <2>2 DEF TrueRecord
    <3> QED
      BY <3>2, <3>3
  <2>4. call[m].pc \in {"active", "seat", "granted"} => stood'[call[m].key] = day'
    BY <1>1, <2>1 DEF Approved
  <2> QED
    BY <1>0, <2>1, <2>3, <2>4 DEF Approved
<1> QED
  BY <1>1, <1>2, <1>3 DEF RecentInv

LEMMA StepRecent == RecentInv /\ [Next]_vars => RecentInv'
<1> SUFFICES ASSUME RecentInv, [Next]_vars PROVE RecentInv'
  OBVIOUS
<1>1. CASE UNCHANGED vars
  BY <1>1 DEF RecentInv, TypeOK, Days, Approved, TrueRecord, vars
<1>2. CASE Next
  BY <1>2, StartRecent, EndRecent, ServiceRecent, TimeRecent DEF Next
<1> QED
  BY <1>1, <1>2

-----------------------------------------------------------------------------
(* The seats: SeatInv                                                      *)

LEMMA InitSeat == Init => SeatInv
<1> SUFFICES ASSUME Init PROVE SeatInv
  OBVIOUS
<1>1. Counted
  <2>1. ASSUME NEW k \in Key PROVE Seats(k) = {}
    BY LicenceAssumption DEF Init, Seats
  <2> QED
    BY <2>1, FS_EmptySet, LicenceAssumption DEF Counted
<1>2. Rows
  BY DEF Init, Rows
<1>3. PICK own : own = [i \in Id |-> NoId]
  OBVIOUS
<1>4. own \in Owners
  BY <1>3 DEF Owners
<1>5. ASSUME NEW m \in Machine PROVE Seated(own, m)
  <2>1. /\ record[m] = NoRecord /\ call[m] = NoCall /\ app[m] = "off"
    BY DEF Init
  <2> QED
    BY <2>1, NoRecordIs, NoCallIs, LicenceAssumption DEF Seated, Holds
<1> QED
  BY <1>1, <1>2, <1>4, <1>5, InitRecent DEF SeatInv

(* The row of a key that was held is still there for its holder, whoever   *)
(* new ids are given to.                                                   *)
LEMMA HeldKept ==
  ASSUME Rows, NEW own, NEW own2, NEW m \in Machine, Seated(own, m), install' = install,
         \A i \in used : own2[i] = own[i], NEW k \in Key, Holds(m, k)
  PROVE  \E i \in Id : own2[i] = m /\ install'[i] = k
<1>1. PICK i \in Id : own[i] = m /\ install[i] = k
  BY DEF Seated
<1>2. i \in used
  BY <1>1, LicenceAssumption DEF Rows
<1> QED
  BY <1>1, <1>2

(* A step of the copy on one machine that stores no row.                   *)
LEMMA SeatStep ==
  ASSUME SeatInv, RecentInv', NEW m \in Machine, UNCHANGED <<install, shared>>,
         used \subseteq used', NEW own \in Owners, \A n \in Machine : Seated(own, n),
         NEW own2 \in Owners, \A i \in used : own2[i] = own[i],
         \A n \in Machine \ {m} : /\ record'[n] = record[n] /\ call'[n] = call[n]
                                 /\ app'[n] = app[n] /\ admitted'[n] = admitted[n],
         Seated(own2, m)'
  PROVE  SeatInv'
<1>1. Counted'
  BY DEF SeatInv, Counted, Seats
<1>2. Rows'
  BY DEF SeatInv, Rows
<1>3. ASSUME NEW n \in Machine \ {m} PROVE Seated(own2, n)'
  <2>1. Seated(own, n) /\ Rows
    BY DEF SeatInv
  <2>2. \A i \in {record[n].id, call[n].id, call[n].copy.id} \ {NoId} : i \in used' /\ own2[i] = n
    BY <2>1 DEF Seated
  <2>3. \A k \in Key : Holds(n, k)' => \E i \in Id : own2[i] = n /\ install'[i] = k
    <3>1. \A k \in Key : Holds(n, k)' <=> Holds(n, k)
      BY DEF Holds
    <3> QED
      BY <2>1, <3>1, HeldKept
  <2>4. \A k \in Key : HasSeat(k)' <=> HasSeat(k)
    BY DEF HasSeat, Seats
  <2>5. call[n].pc = "seat" => call[n].key \in Key
    BY DEF SeatInv, RecentInv, Approved
  <2> QED
    BY <2>1, <2>2, <2>3, <2>4, <2>5 DEF Seated
<1>4. \A n \in Machine : Seated(own2, n)'
  BY <1>3
<1> QED
  BY <1>1, <1>2, <1>4 DEF SeatInv

(* A new id is given to the machine that makes it up.                      *)
LEMMA OwnerOf ==
  ASSUME NEW own \in Owners, NEW m \in Machine, NEW i \in Id,
         i \in used => own[i] = m
  PROVE  \E own2 \in Owners : own2[i] = m /\ \A j \in used : own2[j] = own[j]
<1>1. PICK own2 : own2 = [own EXCEPT ![i] = m]
  OBVIOUS
<1>2. own2 \in Owners /\ own2[i] = m /\ \A j \in Id \ {i} : own2[j] = own[j]
  BY <1>1 DEF Owners
<1>3. \A j \in used : own2[j] = own[j]
  BY <1>1, <1>2 DEF Owners
<1> QED
  BY <1>2, <1>3

LEMMA StartSeat ==
  ASSUME SeatInv, RecentInv', NEW m \in Machine,
         Lose(m) \/ Launch(m) \/ Quit(m) \/ Check(m) \/ \E k \in Key : Type(m, k)
  PROVE  SeatInv'
<1> USE LicenceAssumption DEF server, history
<1>0. /\ TypeOK /\ Plain /\ record \in [Machine -> Records] /\ call \in [Machine -> Calls]
      /\ record[m] \in Records /\ Rows /\ UNCHANGED <<install, shared>>
  BY TypesAre DEF SeatInv, RecentInv, Lose, Launch, Quit, Check, Type
<1>1. PICK own \in Owners : \A n \in Machine : Seated(own, n)
  BY DEF SeatInv
<1>2. Seated(own, m)
  BY <1>1
<1>3. CASE Lose(m)
  <2>1. record'[m] = NoRecord /\ \A n \in Machine \ {m} : record'[n] = record[n]
    BY <1>0, <1>3 DEF Lose
  <2>2. UNCHANGED <<app, call, admitted, used>>
    BY <1>3 DEF Lose
  <2>3. \A k \in Key : Holds(m, k)' => Holds(m, k)
    BY <2>1, <2>2, NoRecordIs DEF Holds
  <2>4. Seated(own, m)'
    BY <1>0, <1>2, <2>1, <2>2, <2>3, NoRecordIs DEF Seated, HasSeat, Seats
  <2> QED
    BY <1>0, <1>1, <2>1, <2>2, <2>4, SeatStep
<1>4. CASE Launch(m)
  <2>1. UNCHANGED <<record, call, admitted, used>> /\ app[m] = "off"
    BY <1>4 DEF Launch
  <2>2. app'[m] = "launching" /\ \A n \in Machine \ {m} : app'[n] = app[n]
    BY <1>0, <1>4 DEF Launch, Plain
  <2>3. \A k \in Key : Holds(m, k)' => Holds(m, k)
    BY <2>1, <2>2 DEF Holds
  <2>4. Seated(own, m)'
    BY <1>0, <1>2, <2>1, <2>2, <2>3 DEF Seated, HasSeat, Seats
  <2> QED
    BY <1>0, <1>1, <2>1, <2>2, <2>4, SeatStep
<1>5. CASE Quit(m)
  <2>1. UNCHANGED <<record, call, used>> /\ call[m].pc = "idle"
    BY <1>5 DEF Quit
  <2>2. app'[m] = "off" /\ \A n \in Machine \ {m} : app'[n] = app[n] /\ admitted'[n] = admitted[n]
    BY <1>0, <1>5 DEF Quit, Plain
  <2>3. \A k \in Key : Holds(m, k)' => Holds(m, k)
    BY <2>1, <2>2 DEF Holds
  <2>4. Seated(own, m)'
    BY <1>0, <1>2, <2>1, <2>2, <2>3 DEF Seated
  <2> QED
    BY <1>0, <1>1, <2>1, <2>2, <2>4, SeatStep
<1>6. CASE Check(m) /\ record[m].key = NoKey
  <2>1. Goto(m, "prompt") /\ UNCHANGED <<record, app, admitted, used>> /\ app[m] = "launching" /\ call[m].pc = "idle"
    BY <1>6 DEF Check
  <2>2. /\ \A n \in Machine \ {m} : call'[n] = call[n]
        /\ call'[m].pc = "prompt" /\ call'[m].id = call[m].id /\ call'[m].copy = call[m].copy
    BY <1>0, <2>1, GotoIs DEF Labels
  <2>3. \A k \in Key : Holds(m, k)' => Holds(m, k)
    BY <2>1, <2>2 DEF Holds
  <2>4. Seated(own, m)'
    BY <1>0, <1>2, <1>6, <2>1, <2>2, <2>3 DEF Seated
  <2> QED
    BY <1>0, <1>1, <2>1, <2>2, <2>4, SeatStep
<1>7. CASE Check(m) /\ record[m].key # NoKey
  <2>1. PICK i \in Id :
          /\ InstallId(m, i)
          /\ call' = [call EXCEPT ![m] = [pc |-> "beat", id |-> i, key |-> record[m].key, copy |-> record[m]]]
    BY <1>7 DEF Check
  <2>2. UNCHANGED <<app, admitted>> /\ record[m].key \in Key
    BY <1>0, <1>7 DEF Check, Records
  <2>3. /\ used \subseteq used' /\ (i = record[m].id \/ i \notin used)
        /\ used' = used \cup {i} \/ i = record[m].id
        /\ record'[m].id \in {record[m].id, i} /\ record'[m].key = record[m].key
        /\ \A n \in Machine \ {m} : record'[n] = record[n]
    BY <1>0, <2>1, InstallIdIs
  <2>4. /\ \A n \in Machine \ {m} : call'[n] = call[n]
        /\ call'[m].pc = "beat" /\ call'[m].id = i /\ call'[m].copy = record[m]
    BY <1>0, <2>1, <2>2, CallIs DEF Labels
  <2>5. i \in used => own[i] = m
    BY <1>0, <1>2, <2>3 DEF Seated
  <2>6. PICK own2 \in Owners : own2[i] = m /\ \A j \in used : own2[j] = own[j]
    BY <2>5, OwnerOf
  <2>7. ASSUME NEW j \in {record'[m].id, call'[m].id, call'[m].copy.id} \ {NoId}
        PROVE  j \in used' /\ own2[j] = m
    <3>1. CASE j = i
      BY <1>2, <2>3, <2>6, <2>7, <3>1 DEF Seated
    <3>2. CASE j # i
      BY <1>2, <2>3, <2>4, <2>6, <2>7, <3>2 DEF Seated
    <3> QED
      BY <3>1, <3>2
  <2>8. ASSUME NEW k \in Key, Holds(m, k)' PROVE \E j \in Id : own2[j] = m /\ install'[j] = k
    <3>1. Holds(m, k)
      BY <2>2, <2>3, <2>4, <2>8 DEF Holds
    <3> QED
      BY <1>0, <1>2, <2>6, <3>1, HeldKept
  <2>9. Seated(own2, m)'
    BY <2>4, <2>7, <2>8 DEF Seated
  <2> QED
    BY <1>0, <1>1, <2>2, <2>3, <2>4, <2>6, <2>9, SeatStep
<1>8. CASE \E k \in Key : Type(m, k)
  <2>1. PICK k \in Key, i \in Id :
          /\ InstallId(m, i)
          /\ call' = [call EXCEPT ![m] = [pc |-> "activate", id |-> i, key |-> k, copy |-> NoRecord]]
    BY <1>8 DEF Type
  <2>2. UNCHANGED <<app, admitted>> /\ call[m].pc = "prompt"
    BY <1>8 DEF Type
  <2>3. /\ used \subseteq used' /\ (i = record[m].id \/ i \notin used)
        /\ used' = used \cup {i} \/ i = record[m].id
        /\ record'[m].id \in {record[m].id, i} /\ record'[m].key = record[m].key
        /\ \A n \in Machine \ {m} : record'[n] = record[n]
    BY <1>0, <2>1, InstallIdIs
  <2>4. /\ \A n \in Machine \ {m} : call'[n] = call[n]
        /\ call'[m].pc = "activate" /\ call'[m].id = i /\ call'[m].copy = NoRecord
    BY <1>0, <2>1, NoRecordIs, CallIs DEF Labels
  <2>5. i \in used => own[i] = m
    BY <1>0, <1>2, <2>3 DEF Seated
  <2>6. PICK own2 \in Owners : own2[i] = m /\ \A j \in used : own2[j] = own[j]
    BY <2>5, OwnerOf
  <2>7. ASSUME NEW j \in {record'[m].id, call'[m].id, call'[m].copy.id} \ {NoId}
        PROVE  j \in used' /\ own2[j] = m
    <3>1. CASE j = i
      BY <1>2, <2>3, <2>6, <2>7, <3>1 DEF Seated
    <3>2. CASE j # i
      BY <1>2, <2>3, <2>4, <2>6, <2>7, <3>2, NoRecordIs DEF Seated
    <3> QED
      BY <3>1, <3>2
  <2>8. app'[m] = "launching" /\ record'[m].key = NoKey
    BY <1>2, <2>2, <2>3 DEF Seated
  <2>9. \A j \in Key : ~Holds(m, j)'
    BY <2>4, <2>8, NoRecordIs DEF Holds
  <2>10. Seated(own2, m)'
    BY <2>4, <2>7, <2>8, <2>9, NoRecordIs DEF Seated
  <2> QED
    BY <1>0, <1>1, <2>2, <2>3, <2>4, <2>6, <2>10, SeatStep
<1> QED
  BY <1>3, <1>4, <1>5, <1>6, <1>7, <1>8

LEMMA EndSeat ==
  ASSUME SeatInv, RecentInv', NEW m \in Machine,
         Active(m) \/ Revoked(m) \/ Unreachable(m) \/ Granted(m) \/ NotActivated(m)
  PROVE  SeatInv'
<1> USE LicenceAssumption DEF server, history
<1>0. /\ TypeOK /\ Plain /\ record[m] \in Records /\ call[m] \in Calls /\ Rows /\ Days /\ Approved(m)
      /\ UNCHANGED <<install, shared, used>> /\ Hang(m)
  BY TypesAre DEF SeatInv, RecentInv, Active, Revoked, Unreachable, Granted, NotActivated
<1>1. PICK own \in Owners : \A n \in Machine : Seated(own, n)
  BY DEF SeatInv
<1>2. Seated(own, m)
  BY <1>1
<1>3. call'[m] = NoCall /\ \A n \in Machine \ {m} : call'[n] = call[n]
  BY <1>0, HangIs
<1>4. ASSUME \A n \in Machine \ {m} : record'[n] = record[n],
             record'[m].id \in {record[m].id, call[m].copy.id},
             \A k \in Key : record'[m].key = k => Holds(m, k),
             \/ Refuse(m)
             \/ /\ call[m].key \in Key /\ Holds(m, call[m].key)
                /\ Admit(m, call[m].key)
      PROVE  SeatInv'
  <2>1. /\ \A n \in Machine \ {m} : app'[n] = app[n] /\ admitted'[n] = admitted[n]
        /\ app'[m] = "running" =>
             \/ app[m] = "running" /\ admitted'[m] = admitted[m]
             \/ Holds(m, admitted'[m].key)
    <3>1. CASE Refuse(m)
      BY <1>0, <3>1, RefuseIs
    <3>2. CASE call[m].key \in Key /\ Holds(m, call[m].key) /\ Admit(m, call[m].key)
      <4>1. stood[call[m].key] <= day
        BY <1>0, <3>2 DEF Days
      <4>2. /\ \A n \in Machine \ {m} : app'[n] = app[n] /\ admitted'[n] = admitted[n]
            /\ \/ app'[m] = "running" /\ admitted'[m].key = call[m].key
               \/ app'[m] = app[m] /\ admitted'[m] = admitted[m]
        BY <1>0, <3>2, <4>1, AdmitIs
      <4> QED
        BY <3>2, <4>2
    <3> QED
      BY <1>4, <3>1, <3>2
  <2>2. ASSUME NEW k \in Key, Holds(m, k)' PROVE \E i \in Id : own[i] = m /\ install'[i] = k
    <3>1. record'[m].key = k \/ (app'[m] = "running" /\ admitted'[m].key = k)
      BY <1>3, <2>2, NoCallIs, NoRecordIs DEF Holds
    <3>2. Holds(m, k)
      BY <1>4, <2>1, <3>1 DEF Holds
    <3> QED
      BY <1>0, <1>2, <3>2, HeldKept
  <2>3. Seated(own, m)'
    BY <1>0, <1>2, <1>3, <1>4, <2>2, NoCallIs, NoRecordIs DEF Seated
  <2> QED
    BY <1>0, <1>1, <1>3, <1>4, <2>1, <2>3, SeatStep
<1>5. ASSUME record' = record,
             \/ Refuse(m)
             \/ /\ call[m].key \in Key /\ Holds(m, call[m].key)
                /\ Admit(m, call[m].key)
      PROVE  SeatInv'
  <2>1. \A k \in Key : record'[m].key = k => Holds(m, k)
    BY <1>5 DEF Holds
  <2> QED
    BY <1>4, <1>5, <2>1
<1>6. CASE Active(m)
  <2>1. /\ call[m].key \in Key /\ call[m].copy.key = call[m].key
        /\ call[m].copy \in Records /\ day \in 1 .. LastDay
    BY <1>0, <1>6 DEF Active, Approved, Calls, Plain
  <2>2. PICK r : r = [call[m].copy EXCEPT !.verified = day]
    OBVIOUS
  <2>3. r \in Records /\ r.key = call[m].key /\ r.id = call[m].copy.id
    BY <2>1, <2>2 DEF Records
  <2>4. record'[m] \in {record[m], r} /\ \A n \in Machine \ {m} : record'[n] = record[n]
    BY <1>0, <1>6, <2>2, <2>3, WriteIs DEF Active
  <2>5. Holds(m, call[m].key) /\ \A k \in Key : record'[m].key = k => Holds(m, k)
    BY <2>1, <2>3, <2>4 DEF Holds
  <2> QED
    BY <1>4, <1>6, <2>1, <2>3, <2>4, <2>5 DEF Active
<1>7. CASE Granted(m)
  <2>1. call[m].key \in Key /\ Holds(m, call[m].key)
    BY <1>0, <1>7 DEF Granted, Approved, Holds
  <2>2. PICK r : r = [record[m] EXCEPT !.key = call[m].key, !.verified = day]
    OBVIOUS
  <2>3. r \in Records /\ r.key = call[m].key /\ r.id = record[m].id
    <3>1. record[m] \in Records /\ day \in 0 .. LastDay /\ call[m].key \in Key \cup {NoKey}
      BY <1>0, <2>1 DEF Plain
    <3> QED
      BY <2>2, <3>1 DEF Records
  <2>4. record'[m] \in {record[m], r} /\ \A n \in Machine \ {m} : record'[n] = record[n]
    BY <1>0, <1>7, <2>2, <2>3, WriteIs DEF Granted
  <2>5. \A k \in Key : record'[m].key = k => Holds(m, k)
    BY <2>1, <2>3, <2>4 DEF Holds
  <2> QED
    BY <1>4, <1>7, <2>1, <2>3, <2>4, <2>5 DEF Granted
<1>8. CASE Unreachable(m)
  <2>1. record' = record /\ call[m].key \in Key /\ Holds(m, call[m].key)
    BY <1>0, <1>8 DEF Unreachable, Approved, Holds
  <2> QED
    BY <1>5, <1>8, <2>1 DEF Unreachable
<1>9. CASE Revoked(m) \/ NotActivated(m)
  BY <1>5, <1>9 DEF Revoked, NotActivated
<1> QED
  BY <1>6, <1>7, <1>8, <1>9

LEMMA AnswerSeat ==
  ASSUME SeatInv, RecentInv', NEW m \in Machine, Heartbeat(m) \/ Activate(m)
  PROVE  SeatInv'
<1> USE LicenceAssumption DEF server, history
<1>0. /\ TypeOK /\ Rows /\ Approved(m)
      /\ UNCHANGED <<install, shared, used, record, app, admitted>>
  BY DEF SeatInv, RecentInv, Heartbeat, Activate
<1>1. PICK own \in Owners : \A n \in Machine : Seated(own, n)
  BY DEF SeatInv
<1>2. Seated(own, m)
  BY <1>1
<1>3. PICK label \in {"active", "revoked", "seat"} :
        /\ Goto(m, label)
        /\ label \in {"active", "revoked"} => call[m].pc = "beat"
        /\ label = "seat" => /\ call[m].pc = "activate"
                             /\ install[call[m].id] # NoKey \/ HasSeat(call[m].key)
  BY DEF Heartbeat, Activate
<1>4. /\ \A n \in Machine \ {m} : call'[n] = call[n]
      /\ call'[m].pc = label /\ call'[m].id = call[m].id /\ call'[m].key = call[m].key
      /\ call'[m].copy = call[m].copy
  BY <1>0, <1>3, GotoIs DEF Labels
<1>5. ASSUME NEW k \in Key, Holds(m, k)' PROVE \E i \in Id : own[i] = m /\ install'[i] = k
  <2>1. Holds(m, k)
    BY <1>0, <1>4, <1>5 DEF Holds
  <2> QED
    BY <1>0, <1>2, <2>1, HeldKept
<1>6. \A k \in Key : HasSeat(k)' <=> HasSeat(k)
  BY <1>0 DEF HasSeat, Seats
<1>7. call[m].key \in Key
  BY <1>0, <1>3 DEF Approved
<1>8. Seated(own, m)'
  BY <1>0, <1>2, <1>3, <1>4, <1>5, <1>6, <1>7 DEF Seated
<1> QED
  BY <1>0, <1>1, <1>4, <1>8, SeatStep

(* The one step that takes a seat.                                         *)
LEMMA CommitSeat ==
  ASSUME SeatInv, RecentInv', NEW m \in Machine, Commit(m)
  PROVE  SeatInv'
<1> USE LicenceAssumption DEF server, history
<1>1. PICK own \in Owners : \A n \in Machine : Seated(own, n)
  BY DEF SeatInv
<1>2. PICK k \in Key, i \in Id : k = call[m].key /\ i = call[m].id
  BY <1>1 DEF Commit, Seated, SeatInv, RecentInv, Approved
<1>3. /\ TypeOK /\ Plain /\ Rows /\ Counted /\ Seated(own, m) /\ call[m].pc = "seat"
      /\ UNCHANGED <<used, record, app, admitted>>
      /\ \A n \in Machine : call[n].pc = "seat" => call[n].key \in Key
  BY <1>1, TypesAre DEF SeatInv, RecentInv, Commit, Approved
<1>4. /\ i \in used /\ own[i] = m
      /\ install'[i] = k /\ \A j \in Id \ {i} : install'[j] = install[j]
      /\ \A q \in Key \ {k} : shared'[q] = shared[q]
  BY <1>2, <1>3, ZenonT(60) DEF Commit, Seated, Plain
<1>5. ~shared'[k] => /\ ~shared[k] /\ install[i] \in {k, NoKey}
                     /\ \A x \in Machine \ {m} : ~(call[x].pc = "seat" /\ call[x].key = k)
  BY <1>2, <1>3 DEF Commit, Plain
<1>6. /\ \A n \in Machine \ {m} : call'[n] = call[n]
      /\ call'[m].pc = "granted" /\ call'[m].id = i /\ call'[m].key = k
      /\ call'[m].copy = call[m].copy
  BY <1>2, <1>3, GotoIs DEF Commit, Labels
<1>7. /\ Seats(k)' = Seats(k) \cup {i} /\ \A q \in Key \ {k} : Seats(q)' \subseteq Seats(q)
  BY <1>4 DEF Seats
<1>8. \A q \in Key : IsFiniteSet(Seats(q)) /\ Cardinality(Seats(q)) \in Nat
  BY <1>3, FS_CardinalityType DEF Counted
<1>9. \A q \in Key \ {k} : IsFiniteSet(Seats(q)') /\ Cardinality(Seats(q)') <= Cardinality(Seats(q))
                          /\ Cardinality(Seats(q)') \in Nat
  BY <1>7, <1>8, FS_Subset, FS_CardinalityType
<1>10. /\ IsFiniteSet(Seats(k)')
       /\ Cardinality(Seats(k)') = IF i \in Seats(k) THEN Cardinality(Seats(k))
                                   ELSE Cardinality(Seats(k)) + 1
  BY <1>7, <1>8, FS_AddElement
<1>11. Counted'
  <2>1. ASSUME ~shared'[k] PROVE Cardinality(Seats(k)') <= MaxInstalls
    <3>1. ~shared[k] /\ Cardinality(Seats(k)) <= MaxInstalls /\ install[i] \in {k, NoKey}
      BY <1>3, <1>5, <2>1 DEF Counted
    <3>2. CASE install[i] = k
      <4>1. i \in Seats(k)
        BY <3>2 DEF Seats
      <4> QED
        BY <1>10, <3>1, <4>1
    <3>3. CASE install[i] = NoKey
      <4>1. Cardinality(Seats(k)) < MaxInstalls
        BY <1>2, <1>3, <3>1, <3>3 DEF Seated, HasSeat
      <4> QED
        BY <1>8, <1>10, <4>1
    <3> QED
      BY <3>1, <3>2, <3>3
  <2>2. ASSUME NEW q \in Key \ {k}, ~shared'[q] PROVE Cardinality(Seats(q)') <= MaxInstalls
    <3>1. Cardinality(Seats(q)) <= MaxInstalls
      BY <1>3, <1>4, <2>2 DEF Counted
    <3> QED
      BY <1>8, <1>9, <3>1
  <2> QED
    BY <1>9, <1>10, <2>1, <2>2 DEF Counted
<1>12. Rows'
  BY <1>3, <1>4 DEF Rows
<1>13. Seated(own, m)'
  <2>1. app[m] = "launching" /\ record[m].key = NoKey /\ call[m].copy.key = NoKey
    BY <1>3 DEF Seated
  <2>2. \A q \in Key : Holds(m, q)' => q = k
    BY <1>3, <1>6, <2>1 DEF Holds
  <2> QED
    BY <1>2, <1>3, <1>4, <1>6, <2>1, <2>2 DEF Seated
<1>14. ASSUME NEW n \in Machine \ {m} PROVE Seated(own, n)'
  <2>1. Seated(own, n)
    BY <1>1
  <2>2. ASSUME NEW q \in Key, Holds(n, q)' PROVE \E j \in Id : own[j] = n /\ install'[j] = q
    <3>1. Holds(n, q)
      BY <1>3, <1>6, <2>2 DEF Holds
    <3>2. PICK j \in Id : own[j] = n /\ install[j] = q
      BY <2>1, <3>1 DEF Seated
    <3> QED
      BY <1>4, <3>2
  <2>3. ASSUME call[n].pc = "seat", ~shared'[call[n].key]
        PROVE  install'[call[n].id] # NoKey \/ HasSeat(call[n].key)'
    <3>1. call[n].key \in Key /\ call[n].key # k /\ ~shared[call[n].key]
      BY <1>3, <1>4, <1>5, <2>3
    <3>2. call[n].id \in Id /\ call[n].id # i
      BY <1>4, <2>1, <2>3 DEF Seated
    <3>3. CASE install[call[n].id] # NoKey
      BY <1>4, <3>2, <3>3
    <3>4. CASE Cardinality(Seats(call[n].key)) < MaxInstalls
      <4>1. PICK q \in Key \ {k} : q = call[n].key
        BY <3>1
      <4>2. Cardinality(Seats(q)') < MaxInstalls
        BY <1>8, <1>9, <3>4, <4>1
      <4> QED
        BY <1>6, <4>1, <4>2 DEF HasSeat
    <3> QED
      BY <2>1, <2>3, <3>1, <3>3, <3>4 DEF Seated, HasSeat
  <2>4. /\ call'[n] = call[n] /\ record'[n] = record[n] /\ app'[n] = app[n]
        /\ admitted'[n] = admitted[n] /\ used' = used
    BY <1>3, <1>6
  <2> QED
    BY <2>1, <2>2, <2>3, <2>4 DEF Seated
<1> QED
  BY <1>1, <1>11, <1>12, <1>13, <1>14 DEF SeatInv

LEMMA StepSeat == SeatInv /\ [Next]_vars => SeatInv'
<1> SUFFICES ASSUME SeatInv, [Next]_vars PROVE SeatInv'
  OBVIOUS
<1>0. RecentInv'
  BY StepRecent DEF SeatInv
<1>1. ASSUME UNCHANGED <<install, used, record, app, call, admitted, shared>> PROVE SeatInv'
  <2>1. Counted' /\ Rows'
    BY <1>1 DEF SeatInv, Counted, Rows, Seats
  <2>2. PICK own \in Owners : \A n \in Machine : Seated(own, n)
    BY DEF SeatInv
  <2>3. \A n \in Machine : Seated(own, n)'
    BY <1>1, <2>2 DEF Seated, Holds, HasSeat, Seats
  <2> QED
    BY <1>0, <2>1, <2>3 DEF SeatInv
<1>2. CASE UNCHANGED vars
  BY <1>1, <1>2 DEF vars
<1>3. CASE Tick \/ \E k \in Key : Issue(k) \/ Revoke(k) \/ Restore(k)
  BY <1>1, <1>3 DEF Tick, Issue, Revoke, Restore, Set, server
<1>4. CASE \E m \in Machine : Lose(m) \/ Launch(m) \/ Quit(m) \/ Check(m) \/ \E k \in Key : Type(m, k)
  BY <1>0, <1>4, StartSeat
<1>5. CASE \E m \in Machine : Active(m) \/ Revoked(m) \/ Unreachable(m) \/ Granted(m) \/ NotActivated(m)
  BY <1>0, <1>5, EndSeat
<1>6. CASE \E m \in Machine : Heartbeat(m) \/ Activate(m)
  BY <1>0, <1>6, AnswerSeat
<1>7. CASE \E m \in Machine : Commit(m)
  BY <1>0, <1>7, CommitSeat
<1> QED
  BY <1>2, <1>3, <1>4, <1>5, <1>6, <1>7 DEF Next

-----------------------------------------------------------------------------
(* The theorems                                                            *)

(* Every record, copy of a record, call and answer keeps its type.         *)
THEOREM LicenceTypes == Spec => []TypeOK
<1>1. RecentInv => TypeOK
  BY DEF RecentInv
<1> QED
  BY <1>1, InitRecent, StepRecent, PTL DEF Spec

(* check_licence_or_exit: no copy is let in on a key that has not been an  *)
(* active licence within the grace period, whatever answers and records    *)
(* were lost and however licences were revoked and restored.               *)
THEOREM LicenceRecent == Spec => []RunsOnRecentApproval
<1>1. RecentInv => RunsOnRecentApproval
  BY DEF RecentInv, Approved, RunsOnRecentApproval
<1> QED
  BY <1>1, InitRecent, StepRecent, PTL DEF Spec

(* The seats of a key bound the copies that run on it, online or offline,  *)
(* as long as no two activations of it overlapped and none came from an    *)
(* installation of another key.                                            *)
THEOREM LicenceSeats == Spec => []SeatsHold
<1>1. SeatInv => SeatsHold
  <2> SUFFICES ASSUME SeatInv, NEW k \in Key, ~shared[k]
               PROVE  Cardinality({m \in Machine : app[m] = "running" /\ admitted[m].key = k}) <= MaxInstalls
    BY DEF SeatsHold
  <2>1. PICK own \in Owners : \A m \in Machine : Seated(own, m)
    BY DEF SeatInv
  <2>2. PICK R : R = {m \in Machine : app[m] = "running" /\ admitted[m].key = k}
    OBVIOUS
  <2>3. \A m \in R : \E i \in Id : own[i] = m /\ install[i] = k
    BY <2>1, <2>2 DEF Seated, Holds
  <2>4. PICK f : f = [m \in R |-> CHOOSE i \in Id : own[i] = m /\ install[i] = k]
    OBVIOUS
  <2>5. \A m \in R : f[m] \in Id /\ own[f[m]] = m /\ install[f[m]] = k
    BY <2>3, <2>4
  <2>6. f \in [R -> Seats(k)]
    BY <2>4, <2>5 DEF Seats
  <2>7. f \in Injection(R, Seats(k))
    BY <2>5, <2>6, Fun_IsInj
  <2>8. IsFiniteSet(Seats(k)) /\ Cardinality(Seats(k)) <= MaxInstalls
    BY DEF SeatInv, Counted
  <2>9. IsFiniteSet(R) /\ Cardinality(R) <= Cardinality(Seats(k))
    BY <2>7, <2>8, FS_Injection
  <2>10. Cardinality(R) \in Nat /\ Cardinality(Seats(k)) \in Nat
    BY <2>8, <2>9, FS_CardinalityType
  <2> QED
    BY <2>2, <2>8, <2>9, <2>10, LicenceAssumption
<1>2. Spec => []SeatInv
  BY InitSeat, StepSeat, PTL DEF Spec
<1> QED
  BY <1>1, <1>2, PTL
=============================================================================
