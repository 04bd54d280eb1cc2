------------------------- MODULE RiskManager_proofs -------------------------
(***************************************************************************)
(* Proofs about RiskManager, for any number of accounts and threads, any   *)
(* limits and any results recorded.                                        *)
(***************************************************************************)
EXTENDS RiskManager, TLAPS

(* The history variables and the ledger's day never run ahead of the clock. *)
Clock ==
  /\ 1 <= asOf /\ asOf <= today
  /\ \A o \in Owner : sealed[o] <= asOf
  /\ \A t \in Thread : order[t].haltedOn <= today /\ order[t].sealedOn <= today

(* Only a real order that read "not halted" reaches the breaker.           *)
PastTheCheck ==
  \A t \in Thread :
    /\ pc[t] \in {"loss", "trip"} /\ ~order[t].simulated => seen[t] = "no"
    /\ pc[t] = "trip" => ~order[t].simulated

(* While a sealed halt stands no straggler is left that could replace it.  *)
NoStraggler ==
  \A o \in Owner : sealed[o] = asOf =>
    /\ halted[o] # "no" /\ scope[o] = "all"
    /\ \A t \in Thread : ~Straggler(t, o)

(* A validation called under a halt meets that halt, or the next day.      *)
CalledHalted ==
  \A t \in Thread : order[t].haltedOn = today =>
    /\ asOf = today /\ halted[order[t].owner] # "no"
    /\ pc[t] \notin {"idle", "isHalted"} => seen[t] # "no"
    /\ ~(verdict[t] = "accepted" /\ ~order[t].simulated)

SealInv == TypeOK /\ Clock /\ PastTheCheck /\ NoStraggler
HaltInv == TypeOK /\ Clock /\ PastTheCheck /\ CalledHalted

-----------------------------------------------------------------------------
LEMMA Reals == Cap \in Int /\ \A x \in Int : Abs(x) \in Int /\ Neg(x) \in Int
  BY RiskAssumption DEF Cap, Abs, Neg

LEMMA InitType == Init => TypeOK
  BY RiskAssumption DEF Init, TypeOK, Order, Day, Reason, Scope, Verdict

LEMMA StepType == TypeOK /\ [Next]_vars => TypeOK'
<1> SUFFICES ASSUME TypeOK, [Next]_vars PROVE TypeOK'
  OBVIOUS
<1> USE RiskAssumption, Reals DEF TypeOK, Day, Reason, Scope, Verdict, dicts, threads
<1>1. CASE Midnight
  BY <1>1 DEF Midnight
<1>2. CASE AskBudget
  BY <1>2 DEF AskBudget, RollDay, Today, Breaches
<1>3. ASSUME NEW t \in Thread, NEW o \in Owner, NEW q \in Quantity,
             NEW p \in Price, NEW s \in BOOLEAN, Call(t, o, q, p, s)
      PROVE  TypeOK'
  BY <1>3 DEF Call, Order
<1>4. ASSUME NEW t \in Thread, IsHalted(t) PROVE TypeOK'
  BY <1>4 DEF IsHalted, RollDay, Today, Breaches, Order
<1>5. ASSUME NEW t \in Thread, ReadScope(t) PROVE TypeOK'
  BY <1>5 DEF ReadScope, Finish
<1>6. ASSUME NEW t \in Thread, ReadLoss(t) PROVE TypeOK'
  BY <1>6 DEF ReadLoss, Finish, RollDay, Today, Breaches
<1>7. ASSUME NEW t \in Thread, Trip(t) PROVE TypeOK'
  BY <1>7 DEF Trip, Finish, SetHalt, Today, Breaches, Order
<1>8. ASSUME NEW o \in Owner, Halt(o) PROVE TypeOK'
  BY <1>8 DEF Halt, SetHalt, Today, Breaches
<1>9. ASSUME NEW o \in Owner, NEW x \in Pnl, RecordRealizedPnl(o, x, TRUE)
      PROVE  TypeOK'
  BY <1>9 DEF RecordRealizedPnl, Today, Breaches
<1>10. ASSUME NEW o \in Owner, NEW x \in Pnl, SetRealizedPnl(o, x)
       PROVE  TypeOK'
  BY <1>10 DEF SetRealizedPnl, Today, Breaches
<1>11. CASE UNCHANGED vars
  BY <1>11 DEF vars
<1> HIDE RiskAssumption, Reals DEF TypeOK
<1> QED
  BY <1>1, <1>2, <1>3, <1>4, <1>5, <1>6, <1>7, <1>8, <1>9, <1>10, <1>11 DEF Next

(* Every reachable state of the risk manager is well typed.                *)
THEOREM TypeCorrect == Spec => []TypeOK
  BY InitType, StepType, PTL DEF Spec

-----------------------------------------------------------------------------
LEMMA StepSeal == SealInv /\ [Next]_vars => SealInv'
<1> SUFFICES ASSUME SealInv, [Next]_vars PROVE SealInv'
  OBVIOUS
<1> TypeOK /\ TypeOK'
  BY StepType DEF SealInv
<1> USE RiskAssumption DEF SealInv, Clock, PastTheCheck, NoStraggler, Straggler, dicts, threads
<1>1. CASE Midnight
  BY <1>1 DEF Midnight, TypeOK, Day, Order
<1>2. CASE AskBudget
  BY <1>2 DEF AskBudget, RollDay, Today, TypeOK, Day, Order
<1>3. ASSUME NEW t \in Thread, NEW o \in Owner, NEW q \in Quantity,
             NEW p \in Price, NEW s \in BOOLEAN, Call(t, o, q, p, s)
      PROVE  SealInv'
  BY <1>3 DEF Call, TypeOK, Day, Order
<1>4. ASSUME NEW t \in Thread, IsHalted(t) PROVE SealInv'
  BY <1>4 DEF IsHalted, RollDay, Today, TypeOK, Day, Order
<1>5. ASSUME NEW t \in Thread, ReadScope(t) PROVE SealInv'
  BY <1>5 DEF ReadScope, Finish, Blocks, TypeOK, Day, Order
<1>6. ASSUME NEW t \in Thread, ReadLoss(t) PROVE SealInv'
  BY SMTT(30), <1>6 DEF ReadLoss, Finish, RollDay, Today, TypeOK, Day, Order
<1>7. ASSUME NEW t \in Thread, Trip(t) PROVE SealInv'
  BY <1>7 DEF Trip, Finish, SetHalt, Today, TypeOK, Day, Order
<1>8. ASSUME NEW o \in Owner, Halt(o) PROVE SealInv'
  BY <1>8 DEF Halt, SetHalt, Today, TypeOK, Day, Order
<1>9. ASSUME NEW o \in Owner, NEW x \in Pnl, RecordRealizedPnl(o, x, TRUE)
      PROVE  SealInv'
  BY <1>9 DEF RecordRealizedPnl, Today, TypeOK, Day, Order
<1>10. ASSUME NEW o \in Owner, NEW x \in Pnl, SetRealizedPnl(o, x)
       PROVE  SealInv'
  <2>1. /\ halted' = Today(halted, "no") /\ scope' = Today(scope, "all")
        /\ asOf' = today /\ UNCHANGED <<today, pc, order, seen, verdict, sealed>>
    BY <1>10 DEF SetRealizedPnl
  <2> QED
    BY <2>1 DEF Today, TypeOK, Day, Order
<1>11. CASE UNCHANGED vars
  BY <1>11 DEF vars
<1> HIDE RiskAssumption DEF SealInv
<1> QED
  BY <1>1, <1>2, <1>3, <1>4, <1>5, <1>6, <1>7, <1>8, <1>9, <1>10, <1>11 DEF Next

(* A kill switch that no straggler overtook keeps its scope for the day.   *)
THEOREM SealedKillSwitch == Spec => []KillSwitchSeals
<1>1. Init => SealInv
  <2> SUFFICES ASSUME Init PROVE SealInv
    OBVIOUS
  <2>1. \A t \in Thread : order[t].haltedOn = 0 /\ order[t].sealedOn = 0
    BY DEF Init
  <2>2. asOf = 1 /\ today = 1 /\ \A t \in Thread : pc[t] = "idle"
    BY DEF Init
  <2>3. \A o \in Owner : sealed[o] = 0
    BY DEF Init
  <2> QED
    BY <2>1, <2>2, <2>3, InitType DEF SealInv, Clock, PastTheCheck, NoStraggler, Straggler
<1>2. SealInv => KillSwitchSeals
  BY DEF SealInv, NoStraggler, KillSwitchSeals
<1> QED
  BY <1>1, <1>2, StepSeal, PTL DEF Spec

LEMMA StepHalt == HaltInv /\ [Next]_vars => HaltInv'
<1> SUFFICES ASSUME HaltInv, [Next]_vars PROVE HaltInv'
  OBVIOUS
<1> TypeOK /\ TypeOK'
  BY StepType DEF HaltInv
<1> USE RiskAssumption DEF HaltInv, Clock, PastTheCheck, CalledHalted, dicts, threads
<1>1. CASE Midnight
  BY <1>1 DEF Midnight, TypeOK, Day, Order
<1>2. CASE AskBudget
  BY <1>2 DEF AskBudget, RollDay, Today, TypeOK, Day, Order
<1>3. ASSUME NEW t \in Thread, NEW o \in Owner, NEW q \in Quantity,
             NEW p \in Price, NEW s \in BOOLEAN, Call(t, o, q, p, s)
      PROVE  HaltInv'
  BY <1>3 DEF Call, TypeOK, Day, Order
<1>4. ASSUME NEW t \in Thread, IsHalted(t) PROVE HaltInv'
  BY <1>4 DEF IsHalted, RollDay, Today, TypeOK, Day, Order
<1>5. ASSUME NEW t \in Thread, ReadScope(t) PROVE HaltInv'
  BY <1>5 DEF ReadScope, Finish, Blocks, TypeOK, Day, Order
<1>6. ASSUME NEW t \in Thread, ReadLoss(t) PROVE HaltInv'
  BY SMTT(30), <1>6 DEF ReadLoss, Finish, RollDay, Today, TypeOK, Day, Order
<1>7. ASSUME NEW t \in Thread, Trip(t) PROVE HaltInv'
  BY <1>7 DEF Trip, Finish, SetHalt, Today, TypeOK, Day, Order
<1>8. ASSUME NEW o \in Owner, Halt(o) PROVE HaltInv'
  BY <1>8 DEF Halt, SetHalt, Today, TypeOK, Day, Order
<1>9. ASSUME NEW o \in Owner, NEW x \in Pnl, RecordRealizedPnl(o, x, TRUE)
      PROVE  HaltInv'
  BY <1>9 DEF RecordRealizedPnl, Today, TypeOK, Day, Order
<1>10. ASSUME NEW o \in Owner, NEW x \in Pnl, SetRealizedPnl(o, x)
       PROVE  HaltInv'
  <2>1. /\ halted' = Today(halted, "no") /\ scope' = Today(scope, "all")
        /\ asOf' = today /\ UNCHANGED <<today, pc, order, seen, verdict, sealed>>
    BY <1>10 DEF SetRealizedPnl
  <2> QED
    BY <2>1 DEF Today, TypeOK, Day, Order
<1>11. CASE UNCHANGED vars
  BY <1>11 DEF vars
<1> HIDE RiskAssumption DEF HaltInv
<1> QED
  BY <1>1, <1>2, <1>3, <1>4, <1>5, <1>6, <1>7, <1>8, <1>9, <1>10, <1>11 DEF Next

(* A real order called under a halt is not accepted on that day.           *)
THEOREM HaltStopsRealOrders == Spec => []HaltedRefusesReal
<1>1. Init => HaltInv
  <2> SUFFICES ASSUME Init PROVE HaltInv
    OBVIOUS
  <2>1. \A t \in Thread : order[t].haltedOn = 0 /\ order[t].sealedOn = 0
    BY DEF Init
  <2>2. asOf = 1 /\ today = 1 /\ \A t \in Thread : pc[t] = "idle"
    BY DEF Init
  <2>3. \A o \in Owner : sealed[o] = 0
    BY DEF Init
  <2> QED
    BY <2>1, <2>2, <2>3, InitType DEF HaltInv, Clock, PastTheCheck, CalledHalted
<1>2. HaltInv => HaltedRefusesReal
  <2> SUFFICES ASSUME HaltInv, NEW t \in Thread, verdict[t] = "accepted",
                      ~order[t].simulated
               PROVE  order[t].haltedOn < today
    BY DEF HaltedRefusesReal
  <2>1. order[t].haltedOn \in Int /\ today \in Int
    BY RiskAssumption DEF HaltInv, TypeOK, Order, Day
  <2> QED
    BY <2>1 DEF HaltInv, Clock, CalledHalted
<1> QED
  BY <1>1, <1>2, StepHalt, PTL DEF Spec

-----------------------------------------------------------------------------
(* A validation called under a sealed halt never gets past the scope.      *)
CalledSealed ==
  \A t \in Thread : order[t].sealedOn = today =>
    /\ sealed[order[t].owner] = today /\ asOf = today
    /\ pc[t] \notin {"loss", "trip"}
    /\ pc[t] = "scope" => seen[t] # "no"
    /\ verdict[t] # "accepted"

CallInv == SealInv /\ CalledSealed

LEMMA StepCall == CallInv /\ [Next]_vars => CallInv'
<1> SUFFICES ASSUME CallInv, [Next]_vars PROVE CalledSealed'
  BY StepSeal DEF CallInv
<1> TypeOK /\ TypeOK'
  BY StepType DEF CallInv, SealInv
<1> USE RiskAssumption DEF CallInv, SealInv, Clock, PastTheCheck, NoStraggler, CalledSealed, dicts, threads
<1>1. CASE Midnight
  BY <1>1 DEF Midnight, TypeOK, Day, Order
<1>2. CASE AskBudget
  BY <1>2 DEF AskBudget, RollDay, Today, TypeOK, Day, Order
<1>3. ASSUME NEW t \in Thread, NEW o \in Owner, NEW q \in Quantity,
             NEW p \in Price, NEW s \in BOOLEAN, Call(t, o, q, p, s)
      PROVE  CalledSealed'
  BY <1>3 DEF Call, TypeOK, Day, Order
<1>4. ASSUME NEW t \in Thread, IsHalted(t) PROVE CalledSealed'
  BY <1>4 DEF IsHalted, RollDay, Today, TypeOK, Day, Order
<1>5. ASSUME NEW t \in Thread, ReadScope(t) PROVE CalledSealed'
  BY <1>5 DEF ReadScope, Finish, Blocks, TypeOK, Day, Order
<1>6. ASSUME NEW t \in Thread, ReadLoss(t) PROVE CalledSealed'
  BY <1>6 DEF ReadLoss, Finish, RollDay, LossReached, LedgerOf, Today, TypeOK, Day, Order
<1>7. ASSUME NEW t \in Thread, Trip(t) PROVE CalledSealed'
  BY <1>7 DEF Trip, Finish, SetHalt, Today, TypeOK, Day, Order
<1>8. ASSUME NEW o \in Owner, Halt(o) PROVE CalledSealed'
  BY <1>8 DEF Halt, SetHalt, Today, TypeOK, Day, Order
<1>9. ASSUME NEW o \in Owner, NEW x \in Pnl, RecordRealizedPnl(o, x, TRUE)
      PROVE  CalledSealed'
  BY <1>9 DEF RecordRealizedPnl, Today, TypeOK, Day, Order
<1>10. ASSUME NEW o \in Owner, NEW x \in Pnl, SetRealizedPnl(o, x)
       PROVE  CalledSealed'
  BY <1>10 DEF SetRealizedPnl, Today, TypeOK, Day, Order
<1>11. CASE UNCHANGED vars
  BY <1>11 DEF vars
<1> HIDE RiskAssumption DEF CallInv
<1> QED
  BY <1>1, <1>2, <1>3, <1>4, <1>5, <1>6, <1>7, <1>8, <1>9, <1>10, <1>11 DEF Next

(* An order called after a sealed kill switch, simulated or real, is not   *)
(* accepted on that day.                                                   *)
THEOREM SealedKillStopsAll == Spec => []SealedRefusesAll
<1>1. Init => CallInv
  <2> SUFFICES ASSUME Init PROVE CallInv
    OBVIOUS
  <2>1. \A t \in Thread : order[t].haltedOn = 0 /\ order[t].sealedOn = 0
    BY DEF Init
  <2>2. asOf = 1 /\ today = 1 /\ \A t \in Thread : pc[t] = "idle"
    BY DEF Init
  <2>3. \A o \in Owner : sealed[o] = 0
    BY DEF Init
  <2> QED
    BY <2>1, <2>2, <2>3, InitType
       DEF CallInv, SealInv, Clock, PastTheCheck, NoStraggler, Straggler, CalledSealed
<1>2. CallInv => SealedRefusesAll
  <2> SUFFICES ASSUME CallInv, NEW t \in Thread, verdict[t] = "accepted"
               PROVE  order[t].sealedOn < today
    BY DEF SealedRefusesAll
  <2>1. order[t].sealedOn \in Int /\ today \in Int
    BY RiskAssumption DEF CallInv, SealInv, TypeOK, Order, Day
  <2> QED
    BY <2>1 DEF CallInv, SealInv, Clock, CalledSealed
<1> QED
  BY <1>1, <1>2, StepCall, PTL DEF Spec

-----------------------------------------------------------------------------
(* A halt for loss, and a thread about to set one, saw the real ledger at  *)
(* the cap.                                                                *)
LossInv ==
  /\ TypeOK /\ Clock /\ PastTheCheck
  /\ PaperLossSparesReal
  /\ \A t \in Thread : pc[t] = "trip" => breached[order[t].owner] # 0

LEMMA StepLoss == LossInv /\ [Next]_vars => LossInv'
<1> SUFFICES ASSUME LossInv, [Next]_vars PROVE LossInv'
  OBVIOUS
<1> TypeOK /\ TypeOK'
  BY StepType DEF LossInv
<1> USE RiskAssumption DEF LossInv, Clock, PastTheCheck, PaperLossSparesReal, dicts, threads
<1>1. CASE Midnight
  BY <1>1 DEF Midnight, TypeOK, Day, Order
<1>2. CASE AskBudget
  BY <1>2 DEF AskBudget, RollDay, Today, Breaches, TypeOK, Day, Order
<1>3. ASSUME NEW t \in Thread, NEW o \in Owner, NEW q \in Quantity,
             NEW p \in Price, NEW s \in BOOLEAN, Call(t, o, q, p, s)
      PROVE  LossInv'
  BY <1>3 DEF Call, TypeOK, Day, Order
<1>4. ASSUME NEW t \in Thread, IsHalted(t) PROVE LossInv'
  BY <1>4 DEF IsHalted, RollDay, Today, Breaches, TypeOK, Day, Order
<1>5. ASSUME NEW t \in Thread, ReadScope(t) PROVE LossInv'
  BY <1>5 DEF ReadScope, Finish, Blocks, TypeOK, Day, Order
<1>6. ASSUME NEW t \in Thread, ReadLoss(t) PROVE LossInv'
  BY <1>6 DEF ReadLoss, Finish, RollDay, LossReached, LedgerOf, Today, Breaches, TypeOK, Day, Order
<1>7. ASSUME NEW t \in Thread, Trip(t) PROVE LossInv'
  BY <1>7 DEF Trip, Finish, SetHalt, Today, Breaches, TypeOK, Day, Order
<1>8. ASSUME NEW o \in Owner, Halt(o) PROVE LossInv'
  BY <1>8 DEF Halt, SetHalt, Today, Breaches, TypeOK, Day, Order
<1>9. ASSUME NEW o \in Owner, NEW x \in Pnl, RecordRealizedPnl(o, x, TRUE)
      PROVE  LossInv'
  BY <1>9 DEF RecordRealizedPnl, Today, Breaches, TypeOK, Day, Order
<1>10. ASSUME NEW o \in Owner, NEW x \in Pnl, SetRealizedPnl(o, x)
       PROVE  LossInv'
  BY <1>10 DEF SetRealizedPnl, Today, Breaches, TypeOK, Day, Order
<1>11. CASE UNCHANGED vars
  BY <1>11 DEF vars
<1> HIDE RiskAssumption DEF LossInv
<1> QED
  BY <1>1, <1>2, <1>3, <1>4, <1>5, <1>6, <1>7, <1>8, <1>9, <1>10, <1>11 DEF Next

(* Paper losses never halt real trading.                                   *)
THEOREM PaperLossIsHarmless == Spec => []PaperLossSparesReal
<1>1. Init => LossInv
  <2> SUFFICES ASSUME Init PROVE LossInv
    OBVIOUS
  <2>1. \A t \in Thread : order[t].haltedOn = 0 /\ order[t].sealedOn = 0
    BY DEF Init
  <2>2. asOf = 1 /\ today = 1 /\ \A t \in Thread : pc[t] = "idle"
    BY DEF Init
  <2>3. \A o \in Owner : sealed[o] = 0 /\ halted[o] = "no"
    BY DEF Init
  <2> QED
    BY <2>1, <2>2, <2>3, InitType
       DEF LossInv, Clock, PastTheCheck, PaperLossSparesReal
<1>2. LossInv => PaperLossSparesReal
  BY DEF LossInv
<1> QED
  BY <1>1, <1>2, StepLoss, PTL DEF Spec

(* Only the change of day clears a halt.                                   *)
THEOREM HaltsLatch == Spec => HaltLatches
<1>1. TypeOK /\ [Next]_vars =>
        [\A o \in Owner : halted[o] # "no" /\ asOf' = asOf => halted'[o] # "no"]_vars
  <2> SUFFICES ASSUME TypeOK, Next, NEW o \in Owner, halted[o] # "no", asOf' = asOf
               PROVE  halted'[o] # "no"
    OBVIOUS
  <2>1. asOf' = today => Today(halted, "no") = halted
    BY DEF Today
  <2>2. ASSUME NEW u \in Owner, NEW r \in {"kill", "loss"}, NEW s \in Scope,
               SetHalt(u, r, s)
        PROVE  halted'[o] # "no"
    BY <2>1, <2>2 DEF SetHalt, TypeOK
  <2>3. CASE UNCHANGED halted
    BY <2>3
  <2>4. CASE asOf' = today /\ halted' = Today(halted, "no")
    BY <2>1, <2>4
  <2>5. ASSUME NEW t \in Thread, Trip(t) PROVE halted'[o] # "no"
    BY <2>2, <2>5 DEF Trip, Scope, TypeOK, Order
  <2>6. ASSUME NEW u \in Owner, Halt(u) PROVE halted'[o] # "no"
    BY <2>2, <2>6 DEF Halt, Scope
  <2> QED
    BY <2>3, <2>4, <2>5, <2>6 DEF Next, Midnight, AskBudget, Call, IsHalted,
       ReadScope, ReadLoss, RecordRealizedPnl, SetRealizedPnl, RollDay, dicts
<1> QED
  BY <1>1, TypeCorrect, PTL DEF Spec, HaltLatches


(* The allowance budget() shows is gone exactly when the real ledger is at *)
(* the cap, for any result and any cap but zero, negative ones included.   *)
THEOREM BudgetIsForesight == Spec => []BudgetForetells
<1>1. TypeOK => BudgetForetells
  <2> SUFFICES ASSUME TypeOK, NEW o \in Owner
               PROVE  (Budget(o).remaining = 0) <=> (Cap = 0 \/ realized[o] <= -Cap)
    BY DEF BudgetForetells
  <2>1. realized[o] \in Int /\ Cap \in Int /\ Cap >= 0
    BY RiskAssumption DEF TypeOK, Cap, Abs
  <2>2. Budget(o).remaining = IF Cap - Abs(Neg(realized[o])) > 0
                              THEN Cap - Abs(Neg(realized[o])) ELSE 0
    BY DEF Budget
  <2>3. Abs(Neg(realized[o])) = IF realized[o] < 0 THEN -realized[o] ELSE 0
    BY <2>1 DEF Abs, Neg
  <2>4. Cap - Abs(Neg(realized[o])) > 0 <=> ~(Cap = 0 \/ realized[o] <= -Cap)
    BY <2>1, <2>3
  <2>5. Cap - Abs(Neg(realized[o])) \in Int
    BY <2>1, <2>3
  <2> QED
    BY <2>2, <2>4, <2>5
<1> QED
  BY <1>1, TypeCorrect, PTL
=============================================================================
