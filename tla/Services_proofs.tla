-------------------------- MODULE Services_proofs --------------------------
(***************************************************************************)
(* NoNumberTwice of OrderGate, OneSessionPerLink of PartnerLogin and       *)
(* ProgramSurvives of Updater.  They share no state; Services has their    *)
(* parameters.                                                             *)
(***************************************************************************)
EXTENDS Services, Sequences, FiniteSetTheorems, FunctionTheorems, TLAPS

-----------------------------------------------------------------------------
(***************************************************************************)
(* The number an order carries (OrderGate), for any rate, clock and        *)
(* restarts.                                                               *)
(***************************************************************************)
Issue == [number : Nat, at : Nat]

GateTypes ==
  /\ clock \in Nat /\ offset \in 0 .. Modulus - 1
  /\ allowance \in 0 .. Rate * Second /\ refilled \in 0 .. clock
  /\ last \in Nat
  /\ issued \in Seq(Issue)

\* The orders are listed as they were issued.
Listed ==
  /\ \A i \in 1 .. Len(issued) : issued[i].at <= clock
  /\ \A i, j \in 1 .. Len(issued) : i < j => issued[i].at <= issued[j].at

InCycle(at) == at + Rate < Modulus
Wrapped(n) == n < offset
\* The clock a number follows: a wrapped one, that of the cycle begun since the start.
Base(n, at) == IF Wrapped(n) THEN at + offset - Modulus ELSE at + offset

\* No number is further ahead of its clock than a full bucket takes it.
Near ==
  \A i \in 1 .. Len(issued) :
    InCycle(issued[i].at) => issued[i].number <= Base(issued[i].number, issued[i].at) + Rate

\* On either side of the start the numbers grow, through every restart.
Growing ==
  \A i, j \in 1 .. Len(issued) :
    /\ i < j /\ InCycle(issued[j].at)
    /\ Wrapped(issued[i].number) <=> Wrapped(issued[j].number)
    => issued[i].number < issued[j].number

\* The next number is beyond those on its side, and the bucket pays for the lead.
Ahead ==
  InCycle(clock) =>
    /\ last = 0 =>
         \A i \in 1 .. Len(issued) :
           issued[i].number < Base(issued[i].number, clock)
    /\ last > 0 =>
         /\ \A i \in 1 .. Len(issued) :
              (Wrapped(issued[i].number) <=> Wrapped(last)) => issued[i].number <= last
         /\ Base(last, clock) >= 0
         /\ Second * last + Gate!Refill <= Second * (Base(last, clock) + Rate)

GateInv == GateTypes /\ Listed /\ Near /\ Growing /\ Ahead

-----------------------------------------------------------------------------
(* A positive factor cancels on both sides of an order.                   *)
LEMMA Scaled ==
  ASSUME NEW k \in Nat \ {0}, NEW a \in Int, NEW b \in Int, k * a <= k * b
  PROVE  a <= b
  OBVIOUS

(* Products over a sum, and over an order.                                *)
LEMMA Spread ==
  ASSUME NEW k \in Nat, NEW a \in Int, NEW b \in Int
  PROVE  /\ k * a \in Int
         /\ k * (a + b) = k * a + k * b
         /\ k * (a + 1) = k * a + k
         /\ a <= b => k * a <= k * b
  OBVIOUS

(* A clock that has started over once at most is cut by one subtraction.   *)
LEMMA Remainder ==
  ASSUME NEW m \in Nat \ {0}, NEW n \in Nat
  PROVE  /\ n % m \in 0 .. m - 1
         /\ n < m => n % m = n
         /\ m <= n /\ n < 2 * m => n % m = n - m
  OBVIOUS

(* The entries of the history.                                           *)
LEMMA Records ==
  ASSUME GateTypes
  PROVE  \A i \in 1 .. Len(issued) : issued[i].number \in Nat /\ issued[i].at \in Nat
<1>1. issued \in Seq(Issue)
  BY DEF GateTypes
<1>2. \A i \in 1 .. Len(issued) : issued[i] \in Issue
  BY <1>1
<1> QED
  BY <1>2 DEF Issue

(* The bucket never holds more than a second's rate.                      *)
LEMMA Filled ==
  ASSUME LawfulGate, GateTypes
  PROVE  /\ Gate!Refill \in 0 .. Rate * Second
         /\ Rate * Second \in Nat
         /\ Rate * Second = Second * Rate
<1>1. (clock - refilled) * Rate \in Nat /\ Rate * Second \in Nat /\ Rate * Second = Second * Rate
  BY DEF LawfulGate, GateTypes
<1> QED
  BY <1>1 DEF LawfulGate, GateTypes, Gate!Refill, Gate!Least

(* No order gets the number 0, which stands for none since the restart.   *)
LEMMA Numbered == ASSUME LawfulGate, GateTypes PROVE Gate!NextOrderNo \in Nat \ {0}
<1>1. (clock + offset) % Modulus \in Nat
  BY Remainder DEF LawfulGate, GateTypes
<1> QED
  BY <1>1 DEF GateTypes, Gate!NextOrderNo, Gate!Greatest

(* The number an order gets is beyond those before it and near its clock. *)
LEMMA NextBeyond ==
  ASSUME LawfulGate, GateInv, InCycle(clock), Second <= Gate!Refill
  PROVE  /\ Gate!NextOrderNo <= Base(Gate!NextOrderNo, clock) + Rate
         /\ 0 <= Base(Gate!NextOrderNo, clock)
         /\ \A i \in 1 .. Len(issued) :
              (Wrapped(issued[i].number) <=> Wrapped(Gate!NextOrderNo))
                => issued[i].number < Gate!NextOrderNo
         /\ Second * Gate!NextOrderNo + (Gate!Refill - Second)
              <= Second * (Base(Gate!NextOrderNo, clock) + Rate)
<1> DEFINE now == (clock + offset) % Modulus
<1>1. /\ clock \in Nat /\ offset \in 0 .. Modulus - 1 /\ last \in Nat
      /\ Rate \in Nat \ {0} /\ Second \in Nat \ {0} /\ Modulus \in Nat \ {0}
      /\ \A i \in 1 .. Len(issued) : issued[i].number \in Nat
  BY Records DEF GateInv, GateTypes, LawfulGate
<1>2. /\ Gate!Refill \in Nat /\ Gate!Refill <= Second * Rate
  BY Filled DEF GateInv
<1>3. /\ now = IF clock + offset < Modulus THEN clock + offset ELSE clock + offset - Modulus
      /\ clock + Rate < Modulus
      /\ now \in Nat
  <2>1. clock + Rate < Modulus
    BY DEF InCycle
  <2>2. clock + offset \in Nat /\ clock + offset < 2 * Modulus
    BY <1>1, <2>1
  <2>3. /\ now \in 0 .. Modulus - 1
        /\ clock + offset < Modulus => now = clock + offset
        /\ Modulus <= clock + offset => now = clock + offset - Modulus
    <3> DEFINE n == clock + offset
    <3>1. n \in Nat /\ n < 2 * Modulus
      BY <2>2
    <3> HIDE DEF n
    <3>2. /\ n % Modulus \in 0 .. Modulus - 1
          /\ n < Modulus => n % Modulus = n
          /\ Modulus <= n => n % Modulus = n - Modulus
      BY <1>1, <3>1, Remainder
    <3> QED
      BY <1>1, <3>2 DEF n
  <2> QED
    BY <1>1, <2>1, <2>2, <2>3
<1>4. Gate!NextOrderNo = IF now > last + 1 THEN now ELSE last + 1
  BY DEF Gate!NextOrderNo, Gate!Greatest
<1> HIDE DEF now
<1>5. now = Base(now, clock)
  BY <1>1, <1>3 DEF Base, Wrapped
<1>6. CASE last = 0
  <2>1. \A i \in 1 .. Len(issued) : issued[i].number < Base(issued[i].number, clock)
    BY <1>6 DEF GateInv, Ahead
  <2>2. Gate!NextOrderNo = IF now > 1 THEN now ELSE 1
    BY <1>4, <1>6
  <2>3. CASE now >= 1
    <3>1. Gate!NextOrderNo = now
      BY <1>3, <2>2, <2>3
    <3>2. Second * now + (Gate!Refill - Second) <= Second * (now + Rate)
      <4>1. Second * (now + Rate) = Second * now + Second * Rate /\ Second * now \in Int
        BY <1>1, <1>3, Spread
      <4> QED
        BY <1>1, <1>2, <4>1
    <3>3. \A i \in 1 .. Len(issued) :
            (Wrapped(issued[i].number) <=> Wrapped(now)) => issued[i].number < now
      BY <1>1, <1>3, <1>5, <2>1 DEF Base, Wrapped
    <3> QED
      BY <1>1, <1>3, <1>5, <3>1, <3>2, <3>3
  <2>4. CASE now = 0
    <3>1. Gate!NextOrderNo = 1
      BY <2>2, <2>4
    <3>2. /\ 0 <= Base(1, clock)
          /\ \A i \in 1 .. Len(issued) :
               (Wrapped(issued[i].number) <=> Wrapped(1)) => issued[i].number < 1
      BY <1>1, <1>3, <2>1, <2>4 DEF Base, Wrapped
    <3>3. Base(1, clock) \in Int
      BY <1>1 DEF Base, Wrapped
    <3>4. Second * Rate <= Second * (Base(1, clock) + Rate)
      BY <1>1, <3>2, <3>3, Spread
    <3> QED
      BY SMTT(30), <1>1, <1>2, <3>1, <3>2, <3>3, <3>4
  <2> QED
    BY <1>3, <2>3, <2>4
<1>7. CASE last > 0
  <2>1. /\ \A i \in 1 .. Len(issued) :
             (Wrapped(issued[i].number) <=> Wrapped(last)) => issued[i].number <= last
        /\ Base(last, clock) >= 0 /\ Base(last, clock) \in Int
        /\ Second * last + Gate!Refill <= Second * (Base(last, clock) + Rate)
    BY <1>1, <1>7 DEF GateInv, Ahead, Base
  <2>2. last + 1 <= Base(last, clock) + Rate
    <3>1. Second * (last + 1) <= Second * (Base(last, clock) + Rate)
      BY <1>1, <1>2, <2>1, Spread
    <3> QED
      <4> DEFINE most == Base(last, clock) + Rate
      <4>1. most \in Int /\ last + 1 \in Int /\ Second * (last + 1) <= Second * most
        BY <1>1, <2>1, <3>1
      <4> HIDE DEF most
      <4>2. last + 1 <= most
        BY <1>1, <4>1, Scaled
      <4> QED
        BY <4>2 DEF most
  \* The order stays on the side of the last number.
  <2>3. /\ Wrapped(Gate!NextOrderNo) <=> Wrapped(last)
        /\ last < Gate!NextOrderNo
        /\ Gate!NextOrderNo = last + 1 \/ Gate!NextOrderNo = Base(last, clock)
    BY <1>1, <1>3, <1>4, <2>1, <2>2 DEF Base, Wrapped
  <2>4. Base(Gate!NextOrderNo, clock) = Base(last, clock)
    BY <2>3 DEF Base
  <2>5. CASE Gate!NextOrderNo = last + 1
    <3>1. Second * (last + 1) = Second * last + Second /\ Second * last \in Int
      BY <1>1, Spread
    <3>2. Second * (last + 1) + (Gate!Refill - Second) <= Second * (Base(last, clock) + Rate)
      <4>1. Second * (Base(last, clock) + Rate) \in Int
        BY <1>1, <2>1, Spread
      <4> QED
        BY <1>1, <1>2, <2>1, <3>1, <4>1
    <3> QED
      BY <1>1, <2>1, <2>2, <2>3, <2>4, <2>5, <3>2
  <2>6. CASE Gate!NextOrderNo = Base(last, clock)
    <3>1. /\ Second * (Base(last, clock) + Rate) = Second * Base(last, clock) + Second * Rate
          /\ Second * Base(last, clock) \in Int
      <4> DEFINE base == Base(last, clock)
      <4>1. base \in Int
        BY <2>1
      <4> HIDE DEF base
      <4>2. /\ Second * (base + Rate) = Second * base + Second * Rate
            /\ Second * base \in Int
        BY <1>1, <4>1, Spread
      <4> QED
        BY <4>2 DEF base
    <3>2. Second * Base(last, clock) + (Gate!Refill - Second) <= Second * (Base(last, clock) + Rate)
      <4>1. Second * Rate \in Int
        BY <1>1
      <4> QED
        BY <1>1, <1>2, <3>1, <4>1
    <3>3. Base(last, clock) <= Base(last, clock) + Rate
      BY <1>1, <2>1
    <3>4. \A i \in 1 .. Len(issued) :
            (Wrapped(issued[i].number) <=> Wrapped(last)) => issued[i].number < Gate!NextOrderNo
      BY <1>1, <2>1, <2>3
    <3> QED
      BY <2>1, <2>3, <2>4, <2>6, <3>2, <3>3, <3>4
  <2> QED
    BY <2>3, <2>5, <2>6
<1> QED
  BY <1>1, <1>6, <1>7

(* The first process starts with a full bucket and no number.             *)
LEMMA InitGate == ASSUME LawfulGate PROVE Gate!Init => GateInv
<1> SUFFICES ASSUME Gate!Init PROVE GateInv
  OBVIOUS
<1>1. Rate * Second \in Nat /\ 0 \in 0 .. 0
  BY DEF LawfulGate
<1>2. Len(issued) = 0
  BY DEF Gate!Init
<1>3. GateTypes
  BY <1>1 DEF Gate!Init, GateTypes, LawfulGate
<1> QED
  BY <1>2, <1>3 DEF Gate!Init, GateInv, Listed, Near, Growing, Ahead

(* Time that passes without an order leaves the numbers where they were.   *)
LEMMA TickGate == ASSUME LawfulGate, GateInv, Gate!Tick PROVE GateInv'
<1>1. GateTypes'
  BY DEF GateInv, GateTypes, Gate!Tick
<1>2. Listed'
  <2>1. clock' = clock + 1 /\ issued' = issued /\ clock \in Nat
    BY DEF GateInv, GateTypes, Gate!Tick
  <2>2. \A i \in 1 .. Len(issued) : issued[i].at \in Nat
    BY Records DEF GateInv
  <2> QED
    BY <2>1, <2>2 DEF GateInv, Listed
<1>3. Near' /\ Growing'
  BY DEF GateInv, Near, Growing, Gate!Tick, Base, Wrapped, InCycle
<1>4. Ahead'
  <2> SUFFICES ASSUME InCycle(clock') PROVE Ahead'
    BY DEF Ahead, InCycle
  <2>1. /\ clock \in Nat /\ clock' = clock + 1 /\ offset \in 0 .. Modulus - 1 /\ last \in Nat
        /\ Rate \in Nat \ {0} /\ Second \in Nat \ {0} /\ Modulus \in Nat \ {0}
        /\ Rate <= Second
        /\ UNCHANGED <<offset, last, issued, allowance, refilled>>
    BY DEF GateInv, GateTypes, LawfulGate, Gate!Tick
  <2>2. \A i \in 1 .. Len(issued) : issued[i].number \in Nat
    BY Records DEF GateInv
  <2>3. InCycle(clock)
    BY <2>1 DEF InCycle
  <2>4. ASSUME last = 0, NEW i \in 1 .. Len(issued)
        PROVE  issued[i].number < Base(issued[i].number, clock + 1)
    BY <2>1, <2>2, <2>3, <2>4 DEF GateInv, Ahead, Base, Wrapped
  <2>5. ASSUME last > 0
        PROVE  /\ Base(last, clock + 1) = Base(last, clock) + 1 /\ Base(last, clock) \in Nat
               /\ Second * last + Gate!Refill' <= Second * (Base(last, clock + 1) + Rate)
    <3>1. /\ Base(last, clock + 1) = Base(last, clock) + 1 /\ Base(last, clock) \in Nat
          /\ Second * last + Gate!Refill <= Second * (Base(last, clock) + Rate)
      BY <2>1, <2>3, <2>5 DEF GateInv, Ahead, Base, Wrapped
    <3>2. Gate!Refill' <= Gate!Refill + Second /\ Gate!Refill' \in Int /\ Gate!Refill \in Int
      <4>1. (clock + 1 - refilled) * Rate = (clock - refilled) * Rate + Rate
            /\ (clock - refilled) * Rate \in Nat /\ Rate * Second \in Nat
            /\ allowance \in Nat
        BY <2>1 DEF GateInv, GateTypes
      <4> DEFINE full == Rate * Second
                 flow == (clock - refilled) * Rate
      <4>2. /\ Gate!Refill = IF full < allowance + flow THEN full ELSE allowance + flow
            /\ Gate!Refill' = IF full < allowance + (flow + Rate)
                         THEN full ELSE allowance + (flow + Rate)
        <5>1. (clock' - refilled') * Rate = flow + Rate /\ allowance' = allowance
          <6>1. /\ clock' = clock + 1 /\ refilled' = refilled /\ allowance' = allowance
                /\ clock \in Nat /\ refilled \in Nat /\ Rate \in Nat
            BY <2>1 DEF GateInv, GateTypes
          <6> QED
            BY <6>1
        <5>3. Gate!Refill' = Gate!Least(full, allowance' + (clock' - refilled') * Rate)
          BY DEF Gate!Refill
        <5>4. Gate!Refill = Gate!Least(full, allowance + flow)
          BY DEF Gate!Refill
        <5> HIDE DEF full, flow
        <5> QED
          BY <5>1, <5>3, <5>4 DEF Gate!Least
      <4>3. full \in Nat /\ flow \in Nat
        BY <4>1
      <4> HIDE DEF full, flow
      <4> QED
        BY <2>1, <4>1, <4>2, <4>3
    <3>3. /\ Second * (Base(last, clock + 1) + Rate) = Second * (Base(last, clock) + Rate) + Second
          /\ Second * (Base(last, clock) + Rate) \in Int /\ Second * last \in Int
      <4> DEFINE base == Base(last, clock)
      <4>1. base \in Int /\ Base(last, clock + 1) = base + 1
        BY <3>1
      <4> HIDE DEF base
      <4>2. /\ Second * (base + 1 + Rate) = Second * (base + Rate) + Second
            /\ Second * (base + Rate) \in Int /\ Second * last \in Int
        BY <2>1, <4>1, Spread
      <4> QED
        BY <4>1, <4>2 DEF base
    <3> QED
      BY <2>1, <3>1, <3>2, <3>3
  <2>6. last > 0 => \A i \in 1 .. Len(issued) :
          (Wrapped(issued[i].number) <=> Wrapped(last)) => issued[i].number <= last
    BY <2>3 DEF GateInv, Ahead
  <2> QED
    BY <2>1, <2>4, <2>5, <2>6 DEF Ahead, Wrapped, Base
<1> QED
  BY <1>1, <1>2, <1>3, <1>4 DEF GateInv

(* A restart forgets the last number and takes longer than the bucket       *)
(* lets numbers run ahead.                                                 *)
LEMMA RestartGate == ASSUME LawfulGate, GateInv, Gate!Restart PROVE GateInv'
<1>1. /\ clock \in Nat /\ clock' = clock + Down /\ offset \in 0 .. Modulus - 1
      /\ Rate \in Nat \ {0} /\ Modulus \in Nat \ {0} /\ Down \in Nat /\ Rate < Down
      /\ last' = 0 /\ UNCHANGED <<offset, issued>>
  BY DEF GateInv, GateTypes, LawfulGate, Gate!Restart
<1>2. \A i \in 1 .. Len(issued) : issued[i].number \in Nat /\ issued[i].at \in Nat
  BY Records DEF GateInv
<1>3. GateTypes'
  <2>1. Rate * Second \in Nat
    BY DEF LawfulGate
  <2> QED
    BY <1>1, <2>1 DEF GateInv, GateTypes, Gate!Restart
<1>4. Listed'
  BY <1>1, <1>2 DEF GateInv, Listed
<1>5. Near' /\ Growing'
  BY <1>1 DEF GateInv, Near, Growing, Base, Wrapped, InCycle
<1>6. Ahead'
  <2>1. ASSUME InCycle(clock'), NEW i \in 1 .. Len(issued)
        PROVE  issued[i].number < Base(issued[i].number, clock')
    <3>0. issued[i].at <= clock
      BY DEF GateInv, Listed
    <3>1. issued[i].at <= clock /\ InCycle(issued[i].at)
      BY SMTT(30), <1>1, <1>2, <2>1, <3>0 DEF InCycle
    <3>2. issued[i].number <= Base(issued[i].number, issued[i].at) + Rate
      BY <3>1 DEF GateInv, Near
    <3> QED
      BY <1>1, <1>2, <3>1, <3>2 DEF Base, Wrapped
  <2> QED
    BY <1>1, <2>1 DEF Ahead, Base, Wrapped
<1> QED
  BY <1>3, <1>4, <1>5, <1>6 DEF GateInv

(* An order takes the next number, or waits for the bucket.                *)
LEMMA AcquireGate == ASSUME LawfulGate, GateInv, Gate!Acquire PROVE GateInv'
<1> DEFINE n == Gate!NextOrderNo
           one == [number |-> n, at |-> clock]
<1>1. /\ clock \in Nat /\ clock' = clock /\ refilled' = clock /\ offset \in 0 .. Modulus - 1
      /\ Rate \in Nat \ {0} /\ Second \in Nat \ {0} /\ Modulus \in Nat \ {0} /\ offset' = offset
      /\ last \in Nat /\ issued \in Seq(Issue)
  BY DEF GateInv, GateTypes, LawfulGate, Gate!Acquire
<1>2. \A i \in 1 .. Len(issued) : issued[i].number \in Nat /\ issued[i].at \in Nat
  BY Records DEF GateInv
<1>3. n \in Nat \ {0} /\ Gate!Refill \in 0 .. Rate * Second /\ Rate * Second \in Nat
  BY Numbered, Filled DEF GateInv
<1>4. ASSUME allowance' \in 0 .. Rate * Second PROVE Gate!Refill' = allowance'
  <2>1. (clock' - refilled') * Rate = 0
    BY <1>1
  <2> QED
    BY <1>3, <1>4, <2>1 DEF Gate!Refill, Gate!Least
<1>5. CASE Gate!Refill < Second
  <2>1. allowance' = Gate!Refill /\ UNCHANGED <<last, issued>>
    BY <1>5 DEF Gate!Acquire
  <2>2. GateTypes'
    BY <1>1, <1>3, <2>1 DEF GateInv, GateTypes
  <2>3. Gate!Refill' = Gate!Refill
    BY <1>3, <1>4, <2>1
  <2>4. Listed' /\ Near' /\ Growing'
    BY <1>1, <2>1 DEF GateInv, Listed, Near, Growing, Base, Wrapped, InCycle
  <2>5. Ahead'
    BY <1>1, <2>1, <2>3 DEF GateInv, Ahead, Base, Wrapped, InCycle
  <2> QED
    BY <2>2, <2>4, <2>5 DEF GateInv
<1>6. CASE Second <= Gate!Refill
  <2>1. allowance' = Gate!Refill - Second /\ last' = n /\ issued' = Append(issued, one)
    BY <1>1, <1>3, <1>6 DEF Gate!Acquire
  <2>2. allowance' \in 0 .. Rate * Second /\ Gate!Refill' = Gate!Refill - Second
    <3>1. allowance' \in 0 .. Rate * Second
      BY <1>1, <1>3, <1>6, <2>1
    <3> QED
      BY <1>4, <2>1, <3>1
  <2>3. /\ Len(issued') = Len(issued) + 1 /\ Len(issued) \in Nat
        /\ \A i \in 1 .. Len(issued) : issued'[i] = issued[i]
        /\ issued'[Len(issued) + 1] = one
        /\ issued' \in Seq(Issue)
    <3>1. one \in Issue
      BY <1>1, <1>3 DEF Issue
    <3> HIDE DEF one
    <3> QED
      BY <1>1, <2>1, <3>1
  <2>4. one.number = n /\ one.at = clock
    OBVIOUS
  <2> HIDE DEF n, one
  <2>5. GateTypes'
    BY <1>1, <1>3, <2>1, <2>2, <2>3 DEF GateInv, GateTypes
  <2>6. Listed'
    <3>1. \A i \in 1 .. Len(issued') : issued'[i].at <= clock
      <4> SUFFICES ASSUME NEW i \in 1 .. Len(issued') PROVE issued'[i].at <= clock
        OBVIOUS
      <4>1. CASE i \in 1 .. Len(issued)
        BY <2>3, <4>1 DEF GateInv, Listed
      <4>2. CASE i = Len(issued) + 1
        BY <1>1, <2>3, <2>4, <4>2
      <4> QED
        BY <2>3, <4>1, <4>2
    <3>2. ASSUME NEW i \in 1 .. Len(issued'), NEW j \in 1 .. Len(issued'), i < j
          PROVE  issued'[i].at <= issued'[j].at
      <4>1. CASE j \in 1 .. Len(issued)
        BY <2>3, <3>2, <4>1 DEF GateInv, Listed
      <4>2. CASE j = Len(issued) + 1
        BY <2>3, <2>4, <3>1, <4>2
      <4> QED
        BY <2>3, <4>1, <4>2
    <3> QED
      BY <1>1, <3>1, <3>2 DEF Listed
  <2>7. InCycle(clock) =>
          /\ n <= Base(n, clock) + Rate
          /\ 0 <= Base(n, clock)
          /\ \A i \in 1 .. Len(issued) :
               (Wrapped(issued[i].number) <=> Wrapped(n)) => issued[i].number < n
          /\ Second * n + (Gate!Refill - Second) <= Second * (Base(n, clock) + Rate)
    BY <1>6, NextBeyond DEF n
  <2>8. Near'
    BY <1>1, <2>3, <2>4, <2>7 DEF GateInv, Near, Base, Wrapped, InCycle
  <2>9. Growing'
    <3> SUFFICES ASSUME NEW i \in 1 .. Len(issued'), NEW j \in 1 .. Len(issued'), i < j,
                        InCycle(issued'[j].at),
                        Wrapped(issued'[i].number) <=> Wrapped(issued'[j].number)
                 PROVE  issued'[i].number < issued'[j].number
      BY <1>1 DEF Growing, Wrapped, InCycle
    <3>1. i \in 1 .. Len(issued) /\ issued'[i] = issued[i]
      BY <2>3
    <3>2. CASE j \in 1 .. Len(issued)
      BY <2>3, <3>1, <3>2 DEF GateInv, Growing
    <3>3. CASE j = Len(issued) + 1
      BY <2>3, <2>4, <2>7, <3>1, <3>3
    <3> QED
      BY <2>3, <3>2, <3>3
  <2>10. Ahead'
    <3> SUFFICES ASSUME InCycle(clock) PROVE Ahead'
      BY <1>1 DEF Ahead, InCycle
    <3>1. \A i \in 1 .. Len(issued') :
            (Wrapped(issued'[i].number) <=> Wrapped(n)) => issued'[i].number <= n
      <4> SUFFICES ASSUME NEW i \in 1 .. Len(issued'),
                          Wrapped(issued'[i].number) <=> Wrapped(n)
                   PROVE  issued'[i].number <= n
        OBVIOUS
      <4>1. CASE i \in 1 .. Len(issued)
        BY <1>2, <1>3, <2>3, <2>7, <4>1
      <4>2. CASE i = Len(issued) + 1
        BY <1>3, <2>3, <2>4, <4>2
      <4> QED
        BY <2>3, <4>1, <4>2
    <3>2. last' > 0 /\ last' # 0
      BY <1>3, <2>1
    <3> QED
      BY <1>1, <2>1, <2>2, <2>7, <3>1, <3>2 DEF Ahead, Base, Wrapped
  <2> QED
    BY <2>5, <2>6, <2>8, <2>9, <2>10 DEF GateInv
<1> QED
  BY <1>1, <1>3, <1>5, <1>6

(* For any rate, second, cycle and reboots: the number by which an order  *)
(* is amended, cancelled and reconciled is given to no other within a      *)
(* cycle of the clock, less a burst, through bursts, reboots and the      *)
(* cycle starting over.                                                    *)
THEOREM NumbersUnique ==
  Gate!Spec => []NoNumberTwice
<1>0. LawfulGate
  BY GateAssumption
<1>1. Gate!Init => GateInv
  BY <1>0, InitGate
<1>2. GateInv /\ [Gate!Next]_Gate!vars => GateInv'
  <2> SUFFICES ASSUME GateInv, [Gate!Next]_Gate!vars PROVE GateInv'
    OBVIOUS
  <2>1. CASE UNCHANGED Gate!vars
    BY <2>1
       DEF Gate!vars, GateInv, GateTypes, Listed, Near, Growing, Ahead, Base, Wrapped, InCycle,
           Gate!Refill
  <2> QED
    BY <1>0, <2>1, TickGate, RestartGate, AcquireGate DEF Gate!Next
<1>3. GateInv => NoNumberTwice
  <2> SUFFICES ASSUME GateInv, NEW i \in 1 .. Len(issued), NEW j \in 1 .. Len(issued), i < j,
                      issued[j].at + Rate < Modulus
               PROVE  issued[i].number # issued[j].number
    BY DEF NoNumberTwice, Gate!NoNumberTwice
  <2>1. issued[i].number \in Nat /\ issued[j].number \in Nat
    BY Records DEF GateInv
  <2>2. CASE Wrapped(issued[i].number) <=> Wrapped(issued[j].number)
    <3>1. issued[i].number < issued[j].number
      BY <2>2 DEF GateInv, Growing, InCycle
    <3> QED
      BY <2>1, <3>1
  <2>3. CASE ~(Wrapped(issued[i].number) <=> Wrapped(issued[j].number))
    BY <2>3
  <2> QED
    BY <2>2, <2>3
<1> QED
  BY <1>1, <1>2, <1>3, PTL DEF Gate!Spec

-----------------------------------------------------------------------------
(***************************************************************************)
(* How a partner's redirect attaches a session (PartnerLogin), for any     *)
(* users, tokens, threads and lifetime.  The invariant says where a token  *)
(* is: not issued yet, in the store, carried by one thread, or used.       *)
(***************************************************************************)
Callback == [pc : {"idle", "decrypt", "user", "attach"},
             state : State \cup {"no"}, user : User \cup {"no"}]

LinkTypes ==
  /\ store \subseteq State
  /\ bound \in [State -> User \cup {"no"}]
  /\ callback \in [Redirected -> Callback]
  /\ attached \in [State -> Seq(User)]

\* Nothing has come of a token that was not issued or is still in the store.
Unused ==
  \A s \in State : bound[s] = "no" \/ s \in store =>
    /\ attached[s] = <<>>
    /\ \A t \in Redirected : ~Login!Carries(t, s)

Issued == \A s \in store : bound[s] # "no"

\* A thread that got past the store carries the token of the user it serves.
Carried ==
  \A t \in Redirected : callback[t].pc # "idle" =>
    /\ callback[t].state \in State /\ callback[t].user \in User
    /\ callback[t].user = bound[callback[t].state]

LinkInv == LinkTypes /\ Unused /\ Issued /\ Carried /\ Login!OneSessionPerLink

-----------------------------------------------------------------------------
(* In the beginning no token has been issued.                              *)
LEMMA InitLink == Login!Init => LinkInv
  BY DEF Login!Init, LinkInv, LinkTypes, Unused, Issued, Carried, Login!OneSessionPerLink,
     Login!Carries,
         Callback, Login!Idle

(* A step of a thread past the store that keeps its token or drops it      *)
(* keeps the invariant.                                                    *)
LEMMA GoesLink ==
  ASSUME LinkInv, NEW t \in Redirected, callback[t].pc # "idle", NEW r \in Callback,
         r = Login!Idle \/ (r.pc # "idle" /\ r.state = callback[t].state /\ r.user = callback[t].user),
         Login!Goes(t, r), UNCHANGED attached
  PROVE  LinkInv'
<1>1. \A u \in Redirected \ {t} : callback'[u] = callback[u]
  BY DEF Login!Goes, LinkInv, LinkTypes
<1>2. callback'[t] = r
  BY DEF Login!Goes, LinkInv, LinkTypes
<1>3. \A u \in Redirected, s \in State : Login!Carries(u, s)' => Login!Carries(u, s)
  BY <1>1, <1>2 DEF Login!Carries, Login!Idle
<1>4. LinkTypes'
  BY DEF Login!Goes, LinkInv, LinkTypes
<1>5. Unused' /\ Issued'
  BY <1>3 DEF Login!Goes, LinkInv, Unused, Issued
<1>6. Carried'
  BY <1>1, <1>2 DEF Login!Goes, LinkInv, Carried, Login!Idle
<1>7. \A u \in Redirected, s \in State : Login!Carries(u, s)' => callback'[u].user = callback[u].user
  BY <1>1, <1>2 DEF Login!Carries, Login!Idle
<1>8. Login!OneSessionPerLink'
  BY <1>3, <1>7 DEF Login!Goes, LinkInv, Login!OneSessionPerLink
<1> QED
  BY <1>4, <1>5, <1>6, <1>8 DEF LinkInv

(* Every step keeps the invariant, if "no" names no user.                  *)
LEMMA StepLink ==
  ASSUME "no" \notin User, LinkInv, [Login!Next]_Login!vars
  PROVE  LinkInv'
<1> USE DEF LinkInv
<1>1. ASSUME NEW u \in User, Login!SetActive(u) PROVE LinkInv'
  BY <1>1
     DEF Login!SetActive, LinkTypes, Unused, Issued, Carried, Login!OneSessionPerLink, Login!Carries
<1>2. ASSUME NEW u \in User, NEW s \in State, Login!Issue(u, s) PROVE LinkInv'
  <2>1. bound' = [bound EXCEPT ![s] = u] /\ store' \subseteq store \cup {s} /\ bound[s] = "no"
    BY <1>2 DEF Login!Issue, Login!Purged
  <2>2. UNCHANGED <<callback, attached, punctual>>
    BY <1>2 DEF Login!Issue
  <2>3. attached[s] = <<>> /\ \A t \in Redirected : ~Login!Carries(t, s)
    BY <2>1 DEF Unused
  <2>4. LinkTypes'
    BY <2>1, <2>2 DEF LinkTypes
  <2>5. Unused' /\ Issued'
    BY <2>1, <2>2, <2>3 DEF Unused, Issued, LinkTypes, Login!Carries
  <2>6. Carried'
    BY <2>1, <2>2, <2>3 DEF Carried, Login!Carries, LinkTypes
  <2>7. Login!OneSessionPerLink'
    BY <2>1, <2>2, <2>3 DEF Login!OneSessionPerLink, Login!Carries, LinkTypes
  <2> QED
    BY <2>4, <2>5, <2>6, <2>7
<1>3. ASSUME NEW t \in Redirected, NEW s \in State, Login!Consume(t, s) PROVE LinkInv'
  <2>1. CASE s \in Login!Purged(store)
    <3>1. s \in store /\ bound[s] \in User
      BY <2>1 DEF Login!Purged, Issued, LinkTypes
    <3>2. callback' = [callback EXCEPT ![t] = [pc |-> "decrypt", state |-> s, user |-> bound[s]]]
      BY <1>3, <2>1 DEF Login!Consume
    <3>3. store' \subseteq store \ {s} /\ punctual' = (punctual /\ age[s] <= LinkTtl)
      BY <1>3, <2>1 DEF Login!Consume, Login!Taken, Login!Purged
    <3>4. age[s] <= LinkTtl
      BY <2>1 DEF Login!Purged
    <3>5. UNCHANGED <<bound, attached>>
      BY <1>3 DEF Login!Consume
    <3>6. attached[s] = <<>> /\ \A u \in Redirected : ~Login!Carries(u, s)
      BY <3>1 DEF Unused
    <3>11. callback'[t] = [pc |-> "decrypt", state |-> s, user |-> bound[s]]
           /\ \A u \in Redirected \ {t} : callback'[u] = callback[u]
      BY <3>2 DEF LinkTypes
    <3>7. ASSUME NEW u \in Redirected, NEW x \in State, Login!Carries(u, x)'
          PROVE  (u = t /\ x = s) \/ (Login!Carries(u, x) /\ x # s)
      <4>1. CASE u = t
        BY <3>7, <3>11, <4>1 DEF Login!Carries
      <4>2. CASE u # t
        BY <3>6, <3>7, <3>11, <4>2 DEF Login!Carries
      <4> QED
        BY <4>1, <4>2
    <3>8. LinkTypes'
      BY <3>1, <3>2, <3>3, <3>5 DEF LinkTypes, Callback
    <3>9. Unused' /\ Issued'
      BY <3>1, <3>3, <3>5, <3>7 DEF Unused, Issued
    <3>10. Carried'
      BY <3>1, <3>2, <3>5 DEF Carried, LinkTypes
    <3>12. \A u \in Redirected, x \in State : Login!Carries(u, x)' /\ x # s => u # t /\ Login!Carries(u, x)
      BY <3>7, <3>11 DEF Login!Carries
    <3>13. punctual'
      BY <3>3, <3>4 DEF Login!OneSessionPerLink
    <3>14. Login!OneSessionPerLink'
      BY <3>5, <3>6, <3>7, <3>11, <3>12, <3>13 DEF Login!OneSessionPerLink
    <3> QED
      BY <3>8, <3>9, <3>10, <3>14
  <2>2. CASE s \notin Login!Purged(store)
    <3>1. callback' = [callback EXCEPT ![t] = Login!Idle] /\ punctual' = punctual
      BY <1>3, <2>2 DEF Login!Consume, Login!OneSessionPerLink
    <3>2. store' \subseteq store /\ UNCHANGED <<bound, attached>>
      BY <1>3 DEF Login!Consume, Login!Taken, Login!Purged
    <3>3. \A u \in Redirected, x \in State :
            Login!Carries(u, x)' => Login!Carries(u, x) /\ callback'[u] = callback[u]
      BY <3>1 DEF Login!Carries, Login!Idle, LinkTypes
    <3>4. LinkTypes'
      BY <3>1, <3>2 DEF LinkTypes, Callback, Login!Idle
    <3>5. Unused' /\ Issued'
      BY <3>2, <3>3 DEF Unused, Issued
    <3>6. Carried'
      BY <3>1, <3>2 DEF Carried, Login!Idle, LinkTypes
    <3>7. Login!OneSessionPerLink'
      BY <3>1, <3>2, <3>3 DEF Login!OneSessionPerLink
    <3> QED
      BY <3>4, <3>5, <3>6, <3>7
  <2> QED
    BY <2>1, <2>2
<1>4. ASSUME NEW t \in Redirected, Login!Decrypt(t) PROVE LinkInv'
  <2>1. callback[t] \in Callback /\ callback[t].pc = "decrypt" /\ UNCHANGED attached
    BY <1>4 DEF Login!Decrypt, LinkTypes
  <2> DEFINE next == [callback[t] EXCEPT !.pc = "user"]
  <2>2. next \in Callback /\ next.pc = "user"
        /\ next.state = callback[t].state /\ next.user = callback[t].user
    BY <2>1 DEF Callback
  <2>3. Login!Idle \in Callback
    BY DEF Login!Idle, Callback
  <2>4. Login!Goes(t, next) \/ Login!Goes(t, Login!Idle)
    BY <1>4 DEF Login!Decrypt
  <2> HIDE DEF next
  <2>5. CASE Login!Goes(t, next)
    BY <2>1, <2>2, <2>5, GoesLink
  <2>6. CASE Login!Goes(t, Login!Idle)
    BY <2>1, <2>3, <2>6, GoesLink
  <2> QED
    BY <2>4, <2>5, <2>6
<1>5. ASSUME NEW t \in Redirected, Login!FindUser(t) PROVE LinkInv'
  <2>1. callback[t] \in Callback /\ callback[t].pc = "user" /\ UNCHANGED attached
    BY <1>5 DEF Login!FindUser, LinkTypes
  <2> DEFINE next == [callback[t] EXCEPT !.pc = "attach"]
  <2>2. next \in Callback /\ next.pc = "attach"
        /\ next.state = callback[t].state /\ next.user = callback[t].user
    BY <2>1 DEF Callback
  <2>3. Login!Idle \in Callback
    BY DEF Login!Idle, Callback
  <2>4. Login!Goes(t, next) \/ Login!Goes(t, Login!Idle)
    BY <1>5 DEF Login!FindUser
  <2> HIDE DEF next
  <2>5. CASE Login!Goes(t, next)
    BY <2>1, <2>2, <2>5, GoesLink
  <2>6. CASE Login!Goes(t, Login!Idle)
    BY <2>1, <2>3, <2>6, GoesLink
  <2> QED
    BY <2>4, <2>5, <2>6
<1>6. ASSUME NEW t \in Redirected, Login!Attach(t) PROVE LinkInv'
  <2>0. PICK s \in State : s = callback[t].state
    BY <1>6 DEF Login!Attach, Carried
  <2>1. callback[t].user \in User /\ callback[t].user = bound[s] /\ Login!Carries(t, s)
    BY <1>6, <2>0 DEF Login!Attach, Carried, Login!Carries
  <2>2. attached[s] = <<>> /\ s \notin store /\ bound[s] # "no"
    BY <2>1 DEF Login!OneSessionPerLink, Unused
  <2>3. attached' = [attached EXCEPT ![s] = <<bound[s]>>]
    BY <1>6, <2>0, <2>1, <2>2 DEF Login!Attach
  <2>4. callback' = [callback EXCEPT ![t] = Login!Idle] /\ UNCHANGED <<store, bound, punctual>>
    BY <1>6 DEF Login!Attach, Login!Goes
  <2>5. \A u \in Redirected, x \in State :
          Login!Carries(u, x)' => Login!Carries(u, x) /\ callback'[u] = callback[u] /\ u # t
    BY <2>4 DEF Login!Carries, Login!Idle, LinkTypes
  <2>6. \A u \in Redirected : ~Login!Carries(u, s)'
    BY <2>1, <2>5 DEF Login!OneSessionPerLink
  <2>7. LinkTypes'
    BY <2>1, <2>3, <2>4 DEF LinkTypes, Callback, Login!Idle
  <2>8. Unused' /\ Issued'
    BY <2>1, <2>2, <2>3, <2>4, <2>5 DEF Unused, Issued, LinkTypes
  <2>9. Carried'
    BY <2>4 DEF Carried, Login!Idle, LinkTypes
  <2>10. attached'[s] = <<bound[s]>> /\ \A x \in State \ {s} : attached'[x] = attached[x]
    BY <2>1, <2>3 DEF LinkTypes
  <2>11. ASSUME NEW x \in State
         PROVE  /\ Len(attached'[x]) <= 1
                /\ \A i \in DOMAIN attached'[x] : attached'[x][i] = bound'[x]
                /\ \A u \in Redirected : Login!Carries(u, x)' =>
                     /\ attached'[x] = <<>> /\ callback'[u].user = bound'[x]
                     /\ \A other \in Redirected : Login!Carries(other, x)' => other = u
    <3>1. CASE x = s
      <4>1. Len(<<bound[s]>>) = 1 /\ DOMAIN <<bound[s]>> = {1} /\ <<bound[s]>>[1] = bound[s]
        OBVIOUS
      <4>2. bound'[s] = bound[s]
        BY <2>4
      <4>3. attached'[x] = <<bound[s]>>
        BY <2>10, <3>1
      <4>4. \A u \in Redirected : ~Login!Carries(u, x)'
        BY <2>6, <3>1 DEF Login!Carries
      <4>5. \A i \in DOMAIN attached'[x] : attached'[x][i] = bound'[x]
        BY <3>1, <4>1, <4>2, <4>3
      <4>6. Len(attached'[x]) <= 1
        BY <4>1, <4>3
      <4> QED
        BY <4>4, <4>5, <4>6
    <3>2. CASE x # s
      BY <2>4, <2>5, <2>10, <3>2 DEF Login!OneSessionPerLink
    <3> QED
      BY <3>1, <3>2
  <2>12. Login!OneSessionPerLink'
    BY <2>4, <2>11 DEF Login!OneSessionPerLink
  <2> QED
    BY <2>7, <2>8, <2>9, <2>12
<1>7. ASSUME Login!Tick PROVE LinkInv'
  BY <1>7 DEF Login!Tick, LinkTypes, Unused, Issued, Carried, Login!OneSessionPerLink, Login!Carries
<1>8. ASSUME Login!Restart PROVE LinkInv'
  <2>1. \A t \in Redirected, s \in State : ~Login!Carries(t, s)'
    BY <1>8 DEF Login!Restart, Login!Carries, Login!Idle
  <2> QED
    BY <1>8, <2>1
       DEF Login!Restart, LinkTypes, Unused, Issued, Carried, Login!OneSessionPerLink, Login!Idle,
           Callback
<1>9. ASSUME UNCHANGED Login!vars PROVE LinkInv'
  BY <1>9 DEF Login!vars, LinkTypes, Unused, Issued, Carried, Login!OneSessionPerLink, Login!Carries
<1> QED
  BY <1>1, <1>2, <1>3, <1>4, <1>5, <1>6, <1>7, <1>8, <1>9 DEF Login!Next

(* consume() pops a token under its lock, so that whatever redirects come, *)
(* and whenever, a link attaches one session at most, of the user it was   *)
(* issued to, within its time.                                             *)
THEOREM LinkGoodForOneSession ==
  Login!Spec => []OneSessionPerLink
<1>1. Login!Init => LinkInv
  BY InitLink
<1>2. LinkInv /\ [Login!Next]_Login!vars => LinkInv'
  BY StepLink, LoginAssumption
<1>3. LinkInv => OneSessionPerLink
  BY DEF LinkInv, OneSessionPerLink
<1> QED
  BY <1>1, <1>2, <1>3, PTL DEF Login!Spec

-----------------------------------------------------------------------------
(***************************************************************************)
(* The update of the desktop program (Updater), for any copies and         *)
(* updates.  The invariant follows the one update that is under way and    *)
(* what the files hold at each of its steps.                               *)
(***************************************************************************)
Steps == {"no", "done"} \cup Desktop!Downloading \cup Desktop!Scripted
Updates == [pc : Steps, copy : Copy \cup {"no"}, fetches : {"none", "program", "page"}]

UpdateTypes ==
  /\ backend \in [Copy -> {"off", "starting", "up"}]
  /\ offer \in {"none", "program", "page"}
  /\ update \in [Update -> Updates]
  /\ orderly \in BOOLEAN
  /\ \A n \in Update :
       /\ update[n].pc \in Desktop!Downloading \cup Desktop!Scripted => update[n].fetches # "none"
       /\ update[n].pc = "no" => update[n].fetches = "none"

Busy(n) == update[n].pc \in Desktop!Downloading \cup Desktop!Scripted

\* What ProgramSurvives supposes.
Good == orderly /\ \A n \in Update : update[n].fetches # "page"

OneBusy == \A n, m \in Update : Busy(n) /\ Busy(m) => n = m

\* From the end of the download to the move, the new file is the program.
Fetched ==
  \A n \in Update :
    update[n].pc \in {"ready", "kill", "wait", "delete", "aside", "install"} => new = "program"

\* Up to the moves the executable is the one the update was asked from.
InPlace ==
  /\ \A n \in Update :
       update[n].pc \in Desktop!Downloading \cup {"kill", "wait", "delete", "aside"} => exe = "program"
  /\ \A c \in Copy : backend[c] # "off" => exe = "program"

\* The files are moved when no backend is left.
Quiet ==
  \A n \in Update : update[n].pc \in {"delete", "aside"} =>
    \A c \in Copy : backend[c] = "off"

Body == OneBusy /\ Fetched /\ InPlace /\ Quiet /\ "program" \in {exe, old}
UpdateInv == UpdateTypes /\ (Good => Body)

-----------------------------------------------------------------------------
(* In the beginning there is the program, and no update.                   *)
LEMMA InitUpdate == Desktop!Init => UpdateInv
  BY DEF Desktop!Init, Desktop!NoUpdate, UpdateInv, UpdateTypes, Steps, Updates, Desktop!Downloading,
     Desktop!Scripted, Body, OneBusy,
         Busy, Fetched, InPlace, Quiet

(* What is lost stays lost: if no update changes what it fetches, and the  *)
(* order is not restored, then the supposition held before it holds.       *)
LEMMA GoodBefore ==
  ASSUME orderly' => orderly, \A n \in Update : update'[n].fetches = update[n].fetches, Good'
  PROVE  Good
  BY DEF Good

(* A step that leaves the files and ends updates at most keeps the         *)
(* invariant, if a backend it starts is one of the program and not under a *)
(* script that moves the files.                                            *)
LEMMA Follows ==
  ASSUME UpdateInv, UNCHANGED Desktop!Files, orderly' \in BOOLEAN, orderly' => orderly,
         offer' \in {"none", "program", "page"},
         backend' \in [Copy -> {"off", "starting", "up"}], update' \in [Update -> Updates],
         \A n \in Update : update'[n].fetches = update[n].fetches
                           /\ (update'[n].pc = update[n].pc \/ update'[n].pc = "done"),
         \A c \in Copy : Good' /\ backend'[c] # "off" =>
           backend[c] # "off" \/ (/\ exe = "program"
                                  /\ \A n \in Update : update[n].pc \notin {"delete", "aside"})
  PROVE  UpdateInv'
<1> USE DEF Desktop!Downloading, Desktop!Scripted
<1>1. UpdateTypes'
  BY DEF UpdateTypes, UpdateInv
<1>2. ASSUME Good' PROVE Body'
  <2>1. Good /\ Body
    BY <1>2, GoodBefore DEF UpdateInv
  <2>2. exe' = exe /\ old' = old /\ new' = new
    BY DEF Desktop!Files
  <2>3. OneBusy'
    BY <2>1 DEF Body, OneBusy, Busy
  <2>4. Fetched'
    BY <2>1, <2>2 DEF Body, Fetched
  <2>5. InPlace'
    BY <1>2, <2>1, <2>2 DEF Body, InPlace
  <2>6. Quiet'
    BY <1>2, <2>1 DEF Body, Quiet
  <2> QED
    BY <2>1, <2>2, <2>3, <2>4, <2>5, <2>6 DEF Body
<1> QED
  BY <1>1, <1>2 DEF UpdateInv

(* What becomes of the updates when backends end.                          *)
LEMMA SurvivorsType ==
  ASSUME UpdateTypes, NEW alive
  PROVE  /\ Desktop!Survivors(alive) \in [Update -> Updates]
         /\ \A n \in Update :
              /\ Desktop!Survivors(alive)[n].fetches = update[n].fetches
              /\ Desktop!Survivors(alive)[n].pc = update[n].pc \/ Desktop!Survivors(alive)[n].pc = "done"
              /\ update[n].pc \notin Desktop!Downloading => Desktop!Survivors(alive)[n] = update[n]
<1>1. ASSUME NEW n \in Update
      PROVE  /\ update[n] \in Updates /\ [update[n] EXCEPT !.pc = "done"] \in Updates
             /\ [update[n] EXCEPT !.pc = "done"].fetches = update[n].fetches
             /\ [update[n] EXCEPT !.pc = "done"].pc = "done"
  <2>1. update[n] \in Updates
    BY DEF UpdateTypes
  <2> QED
    BY <2>1 DEF Updates, Steps
<1> QED
  BY <1>1 DEF Desktop!Survivors

\* What the invariant says of update n, and of the backends.
Here(n) ==
  /\ update[n].pc \in {"ready", "kill", "wait", "delete", "aside", "install"} => new = "program"
  /\ update[n].pc \in Desktop!Downloading \cup {"kill", "wait", "delete", "aside"} => exe = "program"
  /\ update[n].pc \in {"delete", "aside"} => \A c \in Copy : backend[c] = "off"
  /\ \A c \in Copy : backend[c] # "off" => exe = "program"
  /\ "program" \in {exe, old}

(* A step of update n keeps the invariant if it keeps what it says of n:   *)
(* there is no other update.                                               *)
LEMMA Advance ==
  ASSUME UpdateInv, NEW n \in Update, Busy(n), orderly' = orderly, offer' = offer,
         backend' \in [Copy -> {"off", "starting", "up"}], update' \in [Update -> Updates],
         \A m \in Update : update'[m].fetches = update[m].fetches, update'[n].pc # "no",
         \A m \in Update \ {n} : update'[m].pc = update[m].pc \/ update'[m].pc = "done",
         Good /\ Body /\ Here(n) /\ (\A m \in Update \ {n} : ~Busy(m)) => Here(n)'
  PROVE  UpdateInv'
<1> USE DEF Desktop!Downloading, Desktop!Scripted, Busy
<1>1. UpdateTypes'
  BY DEF UpdateTypes, UpdateInv
<1>2. ASSUME Good' PROVE Body'
  <2>1. Good /\ Body
    BY <1>2, GoodBefore DEF UpdateInv
  <2>2. \A m \in Update \ {n} : ~Busy(m) /\ ~Busy(m)'
    BY <2>1 DEF Body, OneBusy
  <2>3. Here(n)
    BY <2>1 DEF Body, Fetched, InPlace, Quiet, Here
  <2>4. Here(n)'
    BY <2>1, <2>2, <2>3
  <2>5. OneBusy'
    BY <2>2 DEF OneBusy
  <2>6. Fetched' /\ InPlace' /\ Quiet'
    BY <2>2, <2>4 DEF Fetched, InPlace, Quiet, Here
  <2> QED
    BY <2>4, <2>5, <2>6 DEF Body, Here
<1> QED
  BY <1>1, <1>2 DEF UpdateInv

(* The steps of an update that go from one of its steps to the next.       *)
LEMMA GoesType ==
  ASSUME UpdateTypes, NEW n \in Update, NEW pc \in Steps, Desktop!Goes(n, pc)
  PROVE  /\ update' \in [Update -> Updates] /\ update'[n].pc = pc
         /\ \A m \in Update : update'[m].fetches = update[m].fetches
         /\ \A m \in Update \ {n} : update'[m] = update[m]
<1>1. update[n] \in Updates
  BY DEF UpdateTypes
<1>2. /\ [update[n] EXCEPT !.pc = pc] \in Updates /\ [update[n] EXCEPT !.pc = pc].pc = pc
      /\ [update[n] EXCEPT !.pc = pc].fetches = update[n].fetches
  BY <1>1 DEF Updates
<1>3. update' = [update EXCEPT ![n] = [update[n] EXCEPT !.pc = pc]]
  BY DEF Desktop!Goes
<1> QED
  BY <1>2, <1>3 DEF UpdateTypes

(* Every step keeps the invariant, if a release offers the program or its  *)
(* page.                                                                   *)
LEMMA StepUpdate ==
  ASSUME Asset \subseteq {"program", "page"}, UpdateInv, [Desktop!Next]_Desktop!vars
  PROVE  UpdateInv'
<1>0. UpdateTypes
  BY DEF UpdateInv
<1>1. ASSUME NEW c \in Copy, Desktop!Launch(c) PROVE UpdateInv'
  <2>1. Good' => \A n \in Update : update[n].pc \notin {"delete", "aside"}
    BY <1>1 DEF Desktop!Launch, Good, Desktop!Underway, Desktop!Scripted
  <2> QED
    BY <1>0, <1>1, <2>1, Follows DEF Desktop!Launch, UpdateTypes
<1>2. ASSUME NEW c \in Copy, Desktop!OpenWindow(c) \/ Desktop!BackendUp(c) \/ Desktop!Quit(c) \/ Desktop!LauncherKilled(c)
      PROVE  UpdateInv'
  BY <1>0, <1>2, Follows
     DEF Desktop!OpenWindow, Desktop!BackendUp, Desktop!Quit, Desktop!LauncherKilled, UpdateTypes
<1>3. ASSUME NEW c \in Copy, Desktop!BackendDies(c) \/ Desktop!Closed(c) PROVE UpdateInv'
  <2>1. /\ backend' = [backend EXCEPT ![c] = "off"] /\ update' = Desktop!Survivors(Copy \ {c})
        /\ UNCHANGED <<offer, Desktop!Files, orderly>>
    BY <1>3 DEF Desktop!BackendDies, Desktop!Closed
  <2> QED
    BY <1>0, <2>1, SurvivorsType, Follows DEF UpdateTypes
<1>4. ASSUME Desktop!PowerFails PROVE UpdateInv'
  <2>1. ASSUME NEW n \in Update
        PROVE  /\ update'[n] \in Updates /\ update'[n].fetches = update[n].fetches
               /\ update'[n].pc = update[n].pc \/ update'[n].pc = "done"
    <3>1. update[n] \in Updates
      BY <1>0 DEF UpdateTypes
    <3>2. update'[n] = IF update[n].pc = "no" THEN update[n] ELSE [update[n] EXCEPT !.pc = "done"]
      BY <1>4 DEF Desktop!PowerFails
    <3> QED
      BY <3>1, <3>2 DEF Updates, Steps
  <2>2. update' \in [Update -> Updates]
    BY <1>4, <2>1 DEF Desktop!PowerFails
  <2> QED
    BY <1>0, <1>4, <2>1, <2>2, Follows DEF Desktop!PowerFails, Desktop!Off, UpdateTypes
<1>5. ASSUME NEW c \in Copy, Desktop!Check(c) PROVE UpdateInv'
  BY <1>0, <1>5, Follows DEF Desktop!Check, UpdateTypes
<1>6. ASSUME NEW c \in Copy, NEW n \in Update, Desktop!Apply(c, n) PROVE UpdateInv'
  <2> DEFINE asked == [pc |-> "asked", copy |-> c, fetches |-> offer]
  <2>1. /\ update' = [update EXCEPT ![n] = asked] /\ offer # "none" /\ update[n].pc = "no"
        /\ backend[c] = "up" /\ UNCHANGED <<backend, offer, exe, old, new>>
        /\ orderly' = (orderly /\ Desktop!Underway(Desktop!Downloading \cup Desktop!Scripted) = {})
    BY <1>6 DEF Desktop!Apply, Desktop!Files
  <2>2. asked \in Updates /\ asked.pc = "asked" /\ asked.fetches = offer
    BY <1>0 DEF UpdateTypes, Updates, Steps, Desktop!Downloading
  <2> HIDE DEF asked
  <2>3. update'[n] = asked /\ \A m \in Update \ {n} : update'[m] = update[m]
    BY <1>0, <2>1 DEF UpdateTypes
  <2>4. UpdateTypes'
    BY <1>0, <2>1, <2>2, <2>3 DEF UpdateTypes
  <2>5. ASSUME Good' PROVE Body'
    <3>1. \A m \in Update : ~Busy(m)
      BY <2>1, <2>5 DEF Good, Desktop!Underway, Busy
    <3>2. Good
      BY <1>0, <2>1, <2>3, <2>5 DEF Good, UpdateTypes
    <3>3. Body
      BY <3>2 DEF UpdateInv
    <3>4. exe = "program"
      BY <2>1, <3>3 DEF Body, InPlace
    <3>5. \A m \in Update \ {n} : ~Busy(m)'
      BY <2>3, <3>1 DEF Busy
    <3>6. OneBusy'
      BY <3>5 DEF OneBusy
    <3>7. Fetched' /\ InPlace' /\ Quiet'
      BY <2>1, <2>2, <2>3, <3>3, <3>4 DEF Body, Fetched, InPlace, Quiet
    <3> QED
      BY <2>1, <3>3, <3>6, <3>7 DEF Body
  <2> QED
    BY <2>4, <2>5 DEF UpdateInv
<1>7. ASSUME NEW n \in Update, Desktop!BeginDownload(n) PROVE UpdateInv'
  <2>1. update[n].pc = "asked" /\ Desktop!Goes(n, "download") /\ UNCHANGED <<backend, offer, orderly, exe, old>>
    BY <1>7 DEF Desktop!BeginDownload, Desktop!Processes
  <2>2. Busy(n) /\ "download" \in Steps
    BY <2>1 DEF Busy, Desktop!Downloading, Steps
  <2>3. Here(n) => Here(n)'
    BY <1>0, <2>1, <2>2, GoesType DEF Here, Desktop!Downloading
  <2> QED
    BY <1>0, <2>1, <2>2, <2>3, GoesType, Advance DEF UpdateTypes
<1>8. ASSUME NEW n \in Update, Desktop!EndDownload(n) PROVE UpdateInv'
  <2>1. update[n].pc = "download" /\ UNCHANGED <<backend, offer, orderly, exe, old>>
    BY <1>8 DEF Desktop!EndDownload, Desktop!Processes
  <2>2. Busy(n) /\ {"ready", "done"} \subseteq Steps
    BY <2>1 DEF Busy, Desktop!Downloading, Steps
  <2>3. CASE /\ Desktop!Goes(n, "ready")
             /\ new' \in IF Desktop!Underway({"download"}) = {n} /\ orderly THEN {update[n].fetches}
                         ELSE {update[n].fetches, "partial"}
    <3>1. ASSUME Good, \A m \in Update \ {n} : ~Busy(m), Here(n) PROVE Here(n)'
      <4>1. Desktop!Underway({"download"}) = {n} /\ orderly
        BY <2>1, <3>1 DEF Desktop!Underway, Busy, Desktop!Downloading, Good
      <4>2. update[n].fetches = "program"
        BY <1>0, <2>2, <3>1 DEF UpdateTypes, Updates, Good, Busy
      <4>3. new' = "program"
        BY <2>3, <4>1, <4>2
      <4> QED
        BY <1>0, <2>1, <2>2, <2>3, <3>1, <4>3, GoesType DEF Here, Desktop!Downloading
    <3> QED
      BY <1>0, <2>1, <2>2, <2>3, <3>1, GoesType, Advance DEF UpdateTypes
  <2>4. CASE Desktop!Goes(n, "done") /\ UNCHANGED new
    BY <1>0, <2>1, <2>2, <2>4, GoesType, Follows DEF UpdateTypes, Desktop!Files
  <2> QED
    BY <1>8, <2>3, <2>4 DEF Desktop!EndDownload
<1>9. ASSUME NEW n \in Update, Desktop!StartScript(n) \/ Desktop!KillCopies(n) PROVE UpdateInv'
  <2>1. \E alive \in SUBSET Copy, pc \in {"kill", "wait"} :
          update' = [Desktop!Survivors(alive) EXCEPT ![n] = [update[n] EXCEPT !.pc = pc]]
    <3>1. CASE Desktop!StartScript(n)
      <4>1. update' = [Desktop!Survivors(Copy \ {update[n].copy}) EXCEPT ![n] = [update[n] EXCEPT !.pc = "kill"]]
        BY <3>1 DEF Desktop!StartScript
      <4>2. Copy \ {update[n].copy} \in SUBSET Copy
        OBVIOUS
      <4> QED
        BY <4>1, <4>2
    <3>2. CASE Desktop!KillCopies(n)
      <4>1. Desktop!Survivors({})[n] = update[n]
        BY <1>0, <3>2, SurvivorsType DEF Desktop!KillCopies, Desktop!Downloading
      <4>2. update' = [Desktop!Survivors({}) EXCEPT ![n] = [update[n] EXCEPT !.pc = "wait"]]
        BY <3>2, <4>1 DEF Desktop!KillCopies
      <4> QED
        BY <4>2
    <3> QED
      BY <1>9, <3>1, <3>2
  <2>2. PICK alive \in SUBSET Copy, pc \in {"kill", "wait"} :
          update' = [Desktop!Survivors(alive) EXCEPT ![n] = [update[n] EXCEPT !.pc = pc]]
    BY <2>1
  <2>3. update[n] \in Updates
    BY <1>0 DEF UpdateTypes
  <2>4. /\ [update[n] EXCEPT !.pc = pc] \in Updates /\ [update[n] EXCEPT !.pc = pc].pc = pc
        /\ [update[n] EXCEPT !.pc = pc].fetches = update[n].fetches
    BY <2>3 DEF Updates, Steps, Desktop!Scripted
  <2>5. /\ update' \in [Update -> Updates] /\ update'[n].pc = pc
        /\ \A m \in Update : update'[m].fetches = update[m].fetches
        /\ \A m \in Update \ {n} : update'[m].pc = update[m].pc \/ update'[m].pc = "done"
    BY <1>0, <2>2, <2>4, SurvivorsType
  <2>6. update[n].pc \in {"ready", "kill"} /\ UNCHANGED <<offer, orderly, exe, old, new>>
        /\ (\A c \in Copy : backend'[c] # "off" => backend[c] # "off")
        /\ backend' \in [Copy -> {"off", "starting", "up"}]
    BY <1>0, <1>9 DEF Desktop!StartScript, Desktop!KillCopies, Desktop!Off, Desktop!Files, UpdateTypes
  <2>7. Busy(n)
    BY <2>6 DEF Busy, Desktop!Downloading, Desktop!Scripted
  <2>8. Here(n) => Here(n)'
    BY <2>5, <2>6 DEF Here, Desktop!Downloading
  <2> QED
    BY <2>5, <2>6, <2>7, <2>8, Advance
<1>10. ASSUME NEW n \in Update, NEW from \in {"wait", "delete", "aside", "install"},
              NEW to \in {"delete", "aside", "install", "start"},
              update[n].pc = from, Desktop!Goes(n, to), Desktop!Processes, Good /\ Here(n) => Here(n)'
       PROVE  UpdateInv'
  <2>1. Busy(n) /\ to \in Steps
    BY <1>10 DEF Busy, Desktop!Scripted, Steps
  <2> QED
    BY <1>0, <1>10, <2>1, GoesType, Advance DEF Desktop!Processes, UpdateTypes
<1>11. ASSUME NEW n \in Update, Desktop!Gone(n) PROVE UpdateInv'
  <2>1. Here(n) => Here(n)'
    BY <1>0, <1>11, GoesType
       DEF Desktop!Gone, Here, Desktop!Off, Desktop!Processes, Desktop!Files,
           Desktop!Downloading, Desktop!Scripted, Steps
  <2> QED
    BY <1>10, <1>11, <2>1 DEF Desktop!Gone
<1>12. ASSUME NEW n \in Update, Desktop!DeleteOld(n) PROVE UpdateInv'
  <2>1. Here(n) => Here(n)'
    BY <1>0, <1>12, GoesType
       DEF Desktop!DeleteOld, Here, Desktop!Processes, Desktop!Downloading, Desktop!Scripted, Steps
  <2> QED
    BY <1>10, <1>12, <2>1 DEF Desktop!DeleteOld
<1>13. ASSUME NEW n \in Update, Desktop!MoveAside(n) PROVE UpdateInv'
  <2>1. Here(n) => Here(n)'
    BY <1>0, <1>13, GoesType
       DEF Desktop!MoveAside, Here, Desktop!Processes, Desktop!Downloading, Desktop!Scripted, Steps
  <2> QED
    BY <1>10, <1>13, <2>1 DEF Desktop!MoveAside
<1>14. ASSUME NEW n \in Update, Desktop!Install(n) PROVE UpdateInv'
  <2>1. Here(n) => Here(n)'
    BY <1>0, <1>14, GoesType
       DEF Desktop!Install, Here, Desktop!Processes, Desktop!Downloading, Desktop!Scripted, Steps
  <2> QED
    BY <1>10, <1>14, <2>1 DEF Desktop!Install
<1>15. ASSUME NEW n \in Update, Desktop!StartProgram(n) PROVE UpdateInv'
  <2>1. update[n].pc = "start" /\ Desktop!Goes(n, "done") /\ UNCHANGED <<offer, Desktop!Files, orderly>>
    BY <1>15 DEF Desktop!StartProgram
  <2>2. backend' \in [Copy -> {"off", "starting", "up"}]
        /\ \A c \in Copy : backend'[c] # "off" => backend[c] # "off" \/ exe = "program"
    BY <1>0, <1>15 DEF Desktop!StartProgram, UpdateTypes
  <2>3. "done" \in Steps
    BY DEF Steps
  <2>4. ASSUME Good' PROVE \A m \in Update : update[m].pc \notin {"delete", "aside"}
    <3>1. Good
      BY <1>0, <2>1, <2>3, <2>4, GoesType, GoodBefore
    <3> QED
      BY <2>1, <3>1 DEF UpdateInv, Body, OneBusy, Busy, Desktop!Scripted
  <2> QED
    BY <1>0, <2>1, <2>2, <2>3, <2>4, GoesType, Follows DEF UpdateTypes
<1>16. ASSUME UNCHANGED Desktop!vars PROVE UpdateInv'
  BY <1>0, <1>16, Follows DEF Desktop!vars, Desktop!Files, UpdateTypes
<1> QED
  BY <1>1, <1>2, <1>3, <1>4, <1>5, <1>6, <1>7, <1>8, <1>9, <1>11, <1>12, <1>13, <1>14, <1>15,
     <1>16 DEF Desktop!Next

(* For any copies and updates: the script moves the executable aside when  *)
(* no backend runs and only after a complete download, so that the program *)
(* stays on the machine at every step.                                     *)
THEOREM ProgramStays ==
  Desktop!Spec => []ProgramSurvives
<1>1. Desktop!Init => UpdateInv
  BY InitUpdate
<1>2. UpdateInv /\ [Desktop!Next]_Desktop!vars => UpdateInv'
  BY StepUpdate, UpdateAssumption
<1>3. UpdateInv => ProgramSurvives
  BY DEF UpdateInv, Body, Good, ProgramSurvives, Desktop!ProgramSurvives
<1> QED
  BY <1>1, <1>2, <1>3, PTL DEF Desktop!Spec
=============================================================================
