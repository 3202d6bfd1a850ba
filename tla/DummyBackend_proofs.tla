------------------------ MODULE DummyBackend_proofs ------------------------
(***************************************************************************)
(* Proof that the dummy backend's throttle keeps two calls per interval,   *)
(* for every clock resolution, configuration and timing.                   *)
(***************************************************************************)
EXTENDS DummyBackend, TLAPS

(* Time only moves on: nothing noted lies ahead of the clock, and a call    *)
(* entered the throttle after the one before it had left.                   *)
Latest == passed[Len(passed)]

PacingInv ==
    /\ now <= clock
    /\ passed # << >> =>
         /\ next_tx_ns = Latest.now + Latest.interval
         /\ Latest.now <= Latest.at
         /\ Latest.at <= clock
         /\ pc # "idle" => Latest.at <= now
    /\ \A k \in 1..Len(passed) :
         k + 1 <= Len(passed) =>
           /\ passed[k].at <= passed[k + 1].now
           /\ passed[k].now + passed[k].interval <= passed[k + 1].at

IInv == TypeOK /\ PacingInv

(* The invariant implies the property: the second of three calls entered    *)
(* after the first had left, and its interval holds back the third.         *)
LEMMA PacingImplies == IInv => TwoPerInterval /\ DelayBounded
  <1> SUFFICES ASSUME IInv PROVE TwoPerInterval /\ DelayBounded
      OBVIOUS
  <1> USE DEF IInv
  <1>1. TwoPerInterval
    <2> SUFFICES ASSUME NEW k \in 1..Len(passed), k + 2 <= Len(passed)
                 PROVE  passed[k].at + passed[k + 1].interval <= passed[k + 2].at
        BY DEF TwoPerInterval
    <2>1. k + 1 \in 1..Len(passed) /\ k + 2 \in 1..Len(passed)
                                   /\ (k + 1) + 1 = k + 2
        OBVIOUS
    <2>2. /\ passed[k] \in Passed
          /\ passed[k + 1] \in Passed
          /\ passed[k + 2] \in Passed
        BY <2>1 DEF TypeOK
    <2>3. passed[k].at <= passed[k + 1].now
        BY <2>1 DEF PacingInv
    <2>4. passed[k + 1].now + passed[k + 1].interval <= passed[k + 2].at
        BY <2>1 DEF PacingInv
    <2>. QED  BY <2>2, <2>3, <2>4 DEF Passed
  <1>2. DelayBounded
    <2> SUFFICES ASSUME pc = "throttle", passed # << >>
                 PROVE  next_tx_ns <= now + passed[Len(passed)].interval
        BY DEF DelayBounded
    <2>1. Latest \in Passed
        BY DEF TypeOK, Latest
    <2>2. /\ next_tx_ns = Latest.now + Latest.interval
          /\ Latest.now <= Latest.at
          /\ Latest.at <= now
        BY DEF PacingInv
    <2>. QED  BY <2>1, <2>2 DEF Latest, TypeOK, Passed
  <1>. QED  BY <1>1, <1>2

(* The interval of a throttled call is a number of time units.              *)
LEMMA IntervalNat ==
    ASSUME TypeOK, pc = "throttle"
    PROVE  Interval \in Nat
  <1>1. call.rate \in Nat /\ call.rate # 0 /\ Second \in Nat
      BY PacingAssumption DEF TypeOK, Call
  <1>2. \A a \in Nat, b \in Nat : b # 0 => a \div b \in Nat
      OBVIOUS
  <1>. QED  BY <1>1, <1>2 DEF Interval

(* A call that leaves the throttle keeps the invariant.                     *)
LEMMA ThrottleStep ==
    ASSUME IInv, ThrottleOver
    PROVE  IInv'
  <1> USE DEF IInv
  <1> DEFINE new == [now |-> now, at |-> clock, interval |-> Interval]
  <1>1. Interval \in Nat
      BY IntervalNat DEF ThrottleOver
  <1>2. new \in Passed
      BY <1>1 DEF TypeOK, Passed
  <1>3. passed' = Append(passed, new)
      BY DEF ThrottleOver
  <1>4. passed' \in Seq(Passed) /\ Len(passed') = Len(passed) + 1
      BY <1>2, <1>3 DEF TypeOK
  <1>5. passed'[Len(passed) + 1] = new
      BY <1>2, <1>3 DEF TypeOK
  <1>6. \A k \in 1..Len(passed) : passed'[k] = passed[k]
      BY <1>2, <1>3 DEF TypeOK
  <1>7. TypeOK'
    <2>1. count' \in 0..Limit
        BY PacingAssumption DEF TypeOK, ThrottleOver, Return
    <2>2. next_tx_ns' \in Nat
        BY <1>1 DEF TypeOK, ThrottleOver
    <2>. QED  BY <1>4, <2>1, <2>2 DEF TypeOK, ThrottleOver, Return
  <1>8. PacingInv'
    <2>1. now' <= clock'
        BY DEF PacingInv, ThrottleOver
    <2>2. Latest' = new
        BY <1>4, <1>5 DEF Latest
    <2>3. passed' # << >> =>
            /\ next_tx_ns' = Latest'.now + Latest'.interval
            /\ Latest'.now <= Latest'.at
            /\ Latest'.at <= clock'
            /\ pc' # "idle" => Latest'.at <= now'
        BY <2>2 DEF PacingInv, ThrottleOver, Return, TypeOK
    <2>4. ASSUME NEW k \in 1..Len(passed'), k + 1 <= Len(passed')
          PROVE  /\ passed'[k].at <= passed'[k + 1].now
                 /\ passed'[k].now + passed'[k].interval <= passed'[k + 1].at
      <3>1. CASE k + 1 <= Len(passed)
          BY <3>1, <1>6 DEF PacingInv, TypeOK
      <3>2. CASE k = Len(passed)
        <4>1. passed'[k] = Latest /\ passed'[k + 1] = new /\ passed # << >>
            BY <3>2, <1>5, <1>6 DEF Latest, TypeOK
        <4>2. Latest.at <= now /\ Latest.now + Latest.interval <= clock
            BY <4>1 DEF PacingInv, ThrottleOver
        <4>. QED  BY <4>1, <4>2
      <3>. QED  BY <1>4, <2>4, <3>1, <3>2 DEF TypeOK
    <2>. QED  BY <2>1, <2>3, <2>4 DEF PacingInv
  <1>. QED  BY <1>7, <1>8

(* The invariant holds of the initial states and is kept by every step.     *)
LEMMA PacingInvHolds == Spec => []IInv
  <1>1. Init => IInv
      BY PacingAssumption DEF Init, IInv, TypeOK, PacingInv
  <1>2. IInv /\ [Next]_vars => IInv'
    <2> SUFFICES ASSUME IInv, [Next]_vars PROVE IInv'
        OBVIOUS
    <2> USE DEF IInv
    <2>1. CASE Tick
      <3>1. TypeOK'
          BY <2>1 DEF Tick, TypeOK
      <3>2. passed # << >> => Latest \in Passed
          BY DEF TypeOK, Latest
      <3>. QED  BY <2>1, <3>1, <3>2 DEF Tick, TypeOK, PacingInv, Latest, Passed
    <2>2. ASSUME NEW c \in Call, Enter(c) PROVE IInv'
      <3>1. TypeOK'
          BY <2>2 DEF Enter, TypeOK
      <3>. QED  BY <2>2, <3>1 DEF Enter, TypeOK, PacingInv, Latest
    <2>3. CASE LatencyOver
      <3>1. TypeOK'
          BY <2>3, PacingAssumption DEF LatencyOver, Return, TypeOK
      <3>. QED  BY <2>3, <3>1 DEF LatencyOver, Return, TypeOK, PacingInv, Latest
    <2>4. CASE ThrottleOver
        BY <2>4, ThrottleStep
    <2>5. CASE Restart
        BY <2>5, PacingAssumption DEF Restart, TypeOK, PacingInv
    <2>6. CASE UNCHANGED vars
        BY <2>6 DEF vars, TypeOK, PacingInv, Latest
    <2>. QED  BY <2>1, <2>2, <2>3, <2>4, <2>5, <2>6 DEF Next
  <1>. QED  BY <1>1, <1>2, PTL DEF Spec

(* The pacing state always has its types.                                   *)
THEOREM PacingTypeCorrect == Spec => []TypeOK
  <1>1. IInv => TypeOK
      BY DEF IInv
  <1>. QED  BY <1>1, PacingInvHolds, PTL

(* At most two throttled calls pass in an interval.                         *)
THEOREM ThrottleTwoPerInterval == Spec => []TwoPerInterval
  BY PacingImplies, PacingInvHolds, PTL

(* No throttled call sleeps for more than an interval.                      *)
THEOREM ThrottleDelayBounded == Spec => []DelayBounded
  BY PacingImplies, PacingInvHolds, PTL
=============================================================================
