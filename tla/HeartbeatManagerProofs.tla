------------------------ MODULE HeartbeatManagerProofs ------------------------
(***************************************************************************)
(* Proofs that HeartbeatManager keeps its types, has one thread at most    *)
(* and follows HeartbeatContract, for any intervals.                       *)
(***************************************************************************)
EXTENDS HeartbeatManager, WellFoundedInduction, TLAPS

(* While stop() waits its flag is up, so that the loop cannot get past a   *)
(* check: nothing but start() takes the flag down, and Client calls        *)
(* start() and stop() one at a time.                                       *)
StopIsSeen == stopping => stopRequested

(* After a failure the wait is within the limits of the backoff, until a   *)
(* request succeeds or the manager starts anew; only then does the server  *)
(* set it.                                                                 *)
BackoffIsBounded ==
  failures > 0 => currentInterval >= MinBackoff /\ currentInterval <= MaxBackoff
SuccessForgets == loop \in {"handle", "override"} => failures = 0

IInv == TypeOK /\ OneThread /\ StopIsSeen /\ BackoffIsBounded /\ SuccessForgets

LEMMA BackoffHasLimits ==
  ASSUME NEW interval \in Nat \ {0}
  PROVE  /\ Backoff(interval) \in Nat \ {0}
         /\ Backoff(interval) >= MinBackoff /\ Backoff(interval) <= MaxBackoff
<1> DEFINE doubled == interval * 2
           capped == IF doubled > MaxBackoff THEN MaxBackoff ELSE doubled
<1>1. MinBackoff \in Nat \ {0} /\ MaxBackoff \in Nat /\ MinBackoff <= MaxBackoff
  BY HeartbeatAssumption
<1>2. doubled \in Nat
  OBVIOUS
<1>3. capped \in Nat /\ capped <= MaxBackoff
  <2> HIDE DEF doubled
  <2>1. QED
    BY <1>1, <1>2
<1>4. Backoff(interval) = IF capped < MinBackoff THEN MinBackoff ELSE capped
  BY DEF Backoff
<1>5. QED
  <2> HIDE DEF capped
  <2>1. QED
    BY <1>1, <1>3, <1>4

AnyResponse == [status : Statuses, file : BOOLEAN, interval : Int]

LEMMA ResponseIsTyped == NoResponse \in AnyResponse /\ Response \subseteq AnyResponse
<1>1. ServerIntervals \subseteq Int
  BY HeartbeatAssumption
<1>2. ASSUME NEW r \in Response PROVE r \in AnyResponse
  BY <1>1 DEF Response, AnyResponse
<1>3. NoResponse \in AnyResponse
  BY DEF NoResponse, AnyResponse, Statuses
<1>4. QED
  BY <1>2, <1>3

LEMMA Initial == Init => IInv
<1>1. Interval \in Nat \ {0} /\ 0 \in 0 .. MaxFailures
  BY HeartbeatAssumption
<1> SUFFICES ASSUME Init PROVE IInv
  OBVIOUS
<1>2. resp \in AnyResponse
  BY ResponseIsTyped DEF Init
<1>3. TypeOK
  BY <1>1, <1>2 DEF Init, TypeOK, Steps, AnyResponse
<1>4. QED
  BY <1>3 DEF Init, IInv, OneThread, StopIsSeen, BackoffIsBounded, SuccessForgets

LEMMA Inductive == IInv /\ [Next]_vars => IInv'
<1> SUFFICES ASSUME IInv, [Next]_vars PROVE IInv'
  OBVIOUS
<1> USE DEF IInv, TypeOK, OneThread, StopIsSeen, BackoffIsBounded, SuccessForgets,
            Steps, control, history, Goto
<1>1. CASE Start
  <2>1. Interval \in Nat \ {0} /\ 0 \in 0 .. MaxFailures
    BY HeartbeatAssumption
  <2>2. failures' = 0
    BY <1>1 DEF Start
  <2>3. BackoffIsBounded'
    BY <2>2 DEF BackoffIsBounded
  <2>4. TypeOK'
    BY <1>1, <2>1 DEF Start
  <2>5. QED
    BY <1>1, <2>3, <2>4 DEF Start
<1>2. CASE Pause
  BY <1>2 DEF Pause
<1>3. CASE Resume
  BY <1>3 DEF Resume
<1>4. CASE Stop
  BY <1>4 DEF Stop
<1>5. CASE Join
  BY <1>5 DEF Join, Joinable
<1>6. CASE LoopTop
  BY <1>6 DEF LoopTop
<1>7. CASE Sleep
  BY <1>7 DEF Sleep, SleepsOn
<1>8. CASE WakeUp
  BY <1>8 DEF WakeUp
<1>9. CASE CheckStop
  BY <1>9 DEF CheckStop
<1>10. CASE CheckPaused
  BY <1>10 DEF CheckPaused
<1>11. CASE SendFails
  <2>1. /\ currentInterval' \in Nat \ {0}
        /\ currentInterval' >= MinBackoff /\ currentInterval' <= MaxBackoff
    BY <1>11, BackoffHasLimits DEF SendFails
  <2>2. failures' \in 0 .. MaxFailures
    BY <1>11, HeartbeatAssumption DEF SendFails
  <2>3. QED
    BY <1>11, <2>1, <2>2 DEF SendFails
<1>12. CASE SendSucceeds
  <2>1. Interval \in Nat \ {0} /\ 0 \in 0 .. MaxFailures
    BY HeartbeatAssumption
  <2>2. resp' \in AnyResponse
    BY <1>12, ResponseIsTyped DEF SendSucceeds
  <2>3. failures' = 0
    BY <1>12 DEF SendSucceeds
  <2>4. BackoffIsBounded'
    BY <2>3 DEF BackoffIsBounded
  <2>5. TypeOK'
    BY <1>12, <2>1, <2>2 DEF SendSucceeds, AnyResponse
  <2>6. QED
    BY <1>12, <2>3, <2>4, <2>5 DEF SendSucceeds
<1>13. CASE Handle
  BY <1>13 DEF Handle
<1>14. CASE OverrideInterval
  <2>1. currentInterval' \in Nat \ {0} /\ from' \in Nat \ {0}
    BY <1>14 DEF OverrideInterval, Overrides
  <2>2. failures' = 0
    BY <1>14 DEF OverrideInterval
  <2>3. BackoffIsBounded'
    BY <2>2 DEF BackoffIsBounded
  <2>4. TypeOK'
    BY <1>14, <2>1, ResponseIsTyped DEF OverrideInterval, AnyResponse
  <2>5. QED
    BY <1>14, <2>3, <2>4 DEF OverrideInterval
<1>15. CASE UNCHANGED vars
  BY <1>15 DEF vars
<1>16. QED
  BY <1>1, <1>2, <1>3, <1>4, <1>5, <1>6, <1>7, <1>8, <1>9, <1>10, <1>11, <1>12,
     <1>13, <1>14, <1>15 DEF Next, Loop

(* The inductive invariant, through every step of the loop and every call  *)
(* of its owner (heartbeat.cpp 14-203).                                    *)
THEOREM Invariance == Spec => []IInv
BY Initial, Inductive, PTL DEF Spec

(* All variables keep their types; the wait is never zero (heartbeat.cpp   *)
(* 207-257).                                                               *)
THEOREM TypeCorrect == Spec => []TypeOK
<1>1. IInv => TypeOK
  BY DEF IInv
<1>2. QED
  BY <1>1, Invariance, PTL

(* There is a thread exactly while the manager is running (heartbeat.cpp   *)
(* 179-196).                                                               *)
THEOREM ThreadIsJoined == Spec => []OneThread
<1>1. IInv => OneThread
  BY DEF IInv
<1>2. QED
  BY <1>1, Invariance, PTL

(* Failures never make the wait shorter than thirty seconds nor longer     *)
(* than thirty minutes, whatever interval was configured or came from the  *)
(* server (heartbeat.cpp 229-236).                                         *)
THEOREM BackoffStaysWithin == Spec => []BackoffIsBounded
<1>1. IInv => BackoffIsBounded
  BY DEF IInv
<1>2. QED
  BY <1>1, Invariance, PTL

-----------------------------------------------------------------------------
(* Backoff.                                                                *)

(* What holds of zero, and of n + 1 when it holds of n, holds of every     *)
(* number.                                                                 *)
LEMMA Induction ==
  ASSUME NEW S, 0 \in S, \A n \in Nat : n \in S => n + 1 \in S
  PROVE  Nat \subseteq S
<1> DEFINE before == {p \in Nat \X Nat : p[1] < p[2]}
           T == Nat \ S
<1>1. SUFFICES ASSUME T # {} PROVE FALSE
  OBVIOUS
<1>2. IsWellFoundedOn(before, Nat)
  BY NatLessThanWellFounded DEF OpToRel
<1>3. PICK n \in T : \A m \in T : ~(<<m, n>> \in before)
  <2>1. T \subseteq Nat
    OBVIOUS
  <2> HIDE DEF before, T
  <2>2. QED
    BY <1>1, <1>2, <2>1, WFMin
<1>4. n # 0 /\ n - 1 \in Nat /\ n - 1 < n
  OBVIOUS
<1>5. n - 1 \in S
  BY <1>3, <1>4
<1>6. n - 1 + 1 = n
  BY <1>4
<1>7. QED
  BY <1>4, <1>5, <1>6

(* The doublings are what their recursive definition says.                 *)
LEMMA DoublingsDouble ==
  /\ Doublings \in [0 .. MaxFailures -> Nat \ {0}]
  /\ Doublings[0] = 1
  /\ \A n \in 1 .. MaxFailures : Doublings[n] = 2 * Doublings[n - 1]
<1> DEFINE Doubles(m, f) == f[0] = 1 /\ \A n \in 1 .. m : f[n] = 2 * f[n - 1]
           S == {m \in Nat : \E f \in [0 .. m -> Nat \ {0}] : Doubles(m, f)}
           Is(f) == f = [n \in 0 .. MaxFailures |-> IF n = 0 THEN 1 ELSE 2 * f[n - 1]]
<1>1. 0 \in S
  <2> DEFINE one == [n \in 0 .. 0 |-> 1]
  <2>1. one \in [0 .. 0 -> Nat \ {0}] /\ one[0] = 1 /\ 1 .. 0 = {}
    OBVIOUS
  <2> HIDE DEF one
  <2>2. Doubles(0, one)
    BY <2>1
  <2> HIDE DEF Doubles
  <2>3. QED
    BY <2>1, <2>2
<1>2. ASSUME NEW m \in Nat, m \in S PROVE m + 1 \in S
  <2>1. PICK f \in [0 .. m -> Nat \ {0}] : Doubles(m, f)
    BY <1>2
  <2> DEFINE g == [n \in 0 .. m + 1 |-> IF n <= m THEN f[n] ELSE 2 * f[m]]
  <2>2. g \in [0 .. m + 1 -> Nat \ {0}]
    OBVIOUS
  <2>3. ASSUME NEW n \in 1 .. m + 1 PROVE g[n] = 2 * g[n - 1]
    <3>1. CASE n \in 1 .. m
      BY <2>1, <3>1
    <3>2. CASE n = m + 1
      BY <3>2
    <3>3. QED
      BY <3>1, <3>2
  <2>4. g[0] = 1
    BY <2>1
  <2> HIDE DEF g
  <2>5. Doubles(m + 1, g)
    BY <2>3, <2>4
  <2> HIDE DEF Doubles
  <2>6. QED
    BY <2>2, <2>5
<1>3. MaxFailures \in Nat /\ MaxFailures \in S
  <2>1. Nat \subseteq S
    <3> HIDE DEF S
    <3>1. QED
      BY <1>1, <1>2, Induction
  <2>2. QED
    BY <2>1, HeartbeatAssumption
<1>4. PICK f \in [0 .. MaxFailures -> Nat \ {0}] : Doubles(MaxFailures, f)
  BY <1>3
<1>5. Is(f)
  BY <1>3, <1>4
<1>6. Doublings = CHOOSE h : Is(h)
  BY DEF Doublings
<1>7. Is(Doublings)
  <2> HIDE DEF Is
  <2>1. QED
    BY <1>5, <1>6
<1>8. \A n \in 0 .. MaxFailures :
        Doublings[n] = IF n = 0 THEN 1 ELSE 2 * Doublings[n - 1]
  BY <1>7
<1>9. \A m \in 0 .. MaxFailures : Doublings[m] = f[m]
  <2> DEFINE A == {m \in Nat : m <= MaxFailures => Doublings[m] = f[m]}
  <2>1. 0 \in A
    BY <1>3, <1>4, <1>8
  <2>2. ASSUME NEW m \in Nat, m \in A PROVE m + 1 \in A
    <3>1. CASE m + 1 <= MaxFailures
      <4>1. m + 1 \in 1 .. MaxFailures /\ m + 1 # 0 /\ m + 1 - 1 = m
        BY <1>3, <3>1
      <4>2. Doublings[m + 1] = 2 * Doublings[m] /\ f[m + 1] = 2 * f[m]
        BY <1>4, <1>8, <4>1
      <4>3. QED
        BY <1>3, <2>2, <4>1, <4>2
    <3>2. QED
      BY <3>1
  <2>3. Nat \subseteq A
    <3> HIDE DEF A
    <3>1. QED
      BY <2>1, <2>2, Induction
  <2>4. QED
    BY <1>3, <2>3
<1>10. Doublings = [n \in 0 .. MaxFailures |-> f[n]]
  BY <1>7, <1>8, <1>9
<1>11. QED
  BY <1>3, <1>4, <1>10

(* Failures are counted until the cap is reached from any interval.        *)
CountsUpToTheCap ==
  MaxFailures # 0 /\ MinBackoff * Doublings[MaxFailures - 1] >= MaxBackoff

(* The wait at every step of the loop, not only where it is used.          *)
Wait ==
  IF failures = 0 THEN from
  ELSE Smaller(MaxBackoff, Larger(MinBackoff, 2 * from) * Doublings[failures - 1])
WaitIsExponential == currentInterval = Wait

(* The first failure doubles what lies above the minimum.                  *)
LEMMA FirstBackoff ==
  ASSUME NEW interval \in Nat \ {0}
  PROVE  Backoff(interval) = Smaller(MaxBackoff, Larger(MinBackoff, 2 * interval))
BY HeartbeatAssumption DEF Backoff, Smaller, Larger

(* The next ones double what has been reached, up to the cap.              *)
LEMMA NextBackoff ==
  ASSUME NEW reached \in Nat \ {0}, reached >= MinBackoff
  PROVE  Backoff(Smaller(MaxBackoff, reached)) = Smaller(MaxBackoff, 2 * reached)
BY HeartbeatAssumption DEF Backoff, Smaller

(* A multiple of what is above the minimum is above it.                    *)
LEMMA MultipleIsAbove ==
  ASSUME NEW base \in Nat \ {0}, base >= MinBackoff, NEW k \in Nat \ {0}
  PROVE  base * k \in Nat \ {0} /\ base * k >= MinBackoff * k /\ base * k >= MinBackoff
<1>1. MinBackoff \in Nat \ {0} /\ base - MinBackoff \in Nat /\ k - 1 \in Nat
  BY HeartbeatAssumption
<1>2. (base - MinBackoff) * k \in Nat /\ base * (k - 1) \in Nat
  BY <1>1
<1>3. /\ base * k = MinBackoff * k + (base - MinBackoff) * k
      /\ base * k = base + base * (k - 1)
  BY <1>1
<1>4. MinBackoff * k \in Nat /\ base * k \in Nat
  BY <1>1
<1>5. QED
  BY <1>1, <1>2, <1>3, <1>4

LEMMA FailureDoubles ==
  ASSUME CountsUpToTheCap, TypeOK, SendFails, currentInterval = Wait
  PROVE  currentInterval' = Wait'
<1> DEFINE base == Larger(MinBackoff, 2 * from)
<1>1. /\ from \in Nat \ {0} /\ failures \in 0 .. MaxFailures /\ MaxFailures \in Nat
      /\ MinBackoff \in Nat \ {0} /\ MaxBackoff \in Nat
  BY HeartbeatAssumption DEF TypeOK
<1>2. base \in Nat \ {0} /\ base >= MinBackoff
  BY <1>1 DEF Larger
<1>3. currentInterval' = Backoff(currentInterval) /\ from' = from
  BY DEF SendFails
<1>4. CASE failures = 0
  <2>1. failures' = 1
    BY <1>1, <1>4 DEF SendFails, CountsUpToTheCap
  <2>2. Wait' = Smaller(MaxBackoff, base * Doublings[0])
    BY <1>3, <2>1 DEF Wait
  <2>3. base * Doublings[0] = base
    BY <1>2, DoublingsDouble
  <2>4. currentInterval' = Backoff(from)
    BY <1>3, <1>4 DEF Wait
  <2>5. QED
    BY <1>1, <2>2, <2>3, <2>4, FirstBackoff
<1>5. CASE failures # 0
  <2> DEFINE power == Doublings[failures - 1]
             reached == base * power
  <2>1. failures - 1 \in 0 .. MaxFailures /\ power \in Nat \ {0}
    BY <1>1, <1>5, DoublingsDouble
  <2>2. Doublings[failures] = 2 * power
    BY <1>1, <1>5, DoublingsDouble
  <2>3. reached \in Nat \ {0} /\ reached >= MinBackoff * power /\ reached >= MinBackoff
    <3> HIDE DEF base, power
    <3>1. QED
      BY <1>2, <2>1, MultipleIsAbove
  <2>4. currentInterval = Smaller(MaxBackoff, reached)
    BY <1>5 DEF Wait
  <2> HIDE DEF reached
  <2>5. currentInterval' = Smaller(MaxBackoff, 2 * reached)
    BY <1>3, <2>3, <2>4, NextBackoff
  <2>6. CASE failures < MaxFailures
    <3>1. failures' = failures + 1 /\ failures' # 0 /\ failures' - 1 = failures
      BY <1>1, <2>6 DEF SendFails
    <3>2. Wait' = Smaller(MaxBackoff, base * Doublings[failures])
      BY <1>3, <3>1 DEF Wait
    <3>3. base * (2 * power) = 2 * (base * power)
      <4> HIDE DEF base, power
      <4>1. QED
        BY <1>2, <2>1
    <3>4. QED
      BY <2>2, <2>5, <3>2, <3>3 DEF reached
  <2>7. CASE ~(failures < MaxFailures)
    <3>1. failures = MaxFailures /\ failures' = failures
      BY <1>1, <2>7 DEF SendFails
    <3>2. reached >= MaxBackoff
      <4>1. MinBackoff * power >= MaxBackoff /\ MinBackoff * power \in Nat
        BY <1>1, <2>1, <3>1 DEF CountsUpToTheCap
      <4>2. QED
        BY <1>1, <2>3, <4>1
    <3>3. Wait' = Smaller(MaxBackoff, reached)
      BY <1>3, <1>5, <3>1 DEF Wait, reached
    <3>4. QED
      BY <1>1, <2>3, <2>5, <3>2, <3>3 DEF Smaller
  <2>8. QED
    BY <2>6, <2>7
<1>6. QED
  BY <1>4, <1>5

LEMMA WaitIsKept ==
  ASSUME CountsUpToTheCap, IInv, WaitIsExponential, [Next]_vars
  PROVE  WaitIsExponential'
<1> USE DEF WaitIsExponential
<1>1. CASE SendFails
  BY <1>1, FailureDoubles DEF IInv
<1>2. CASE Start \/ SendSucceeds
  BY <1>2 DEF Start, SendSucceeds, Wait
<1>3. CASE OverrideInterval
  <2>1. failures = 0 /\ failures' = 0
    BY <1>3 DEF OverrideInterval, IInv, SuccessForgets
  <2>2. QED
    BY <1>3, <2>1 DEF OverrideInterval, Wait
<1>4. CASE UNCHANGED <<currentInterval, history>>
  BY <1>4 DEF Wait, history
<1>5. CASE \/ Pause \/ Resume \/ Stop \/ Join \/ LoopTop \/ Sleep \/ WakeUp
           \/ CheckStop \/ CheckPaused \/ Handle \/ UNCHANGED vars
  BY <1>4, <1>5
     DEF Pause, Resume, Stop, Join, LoopTop, Sleep, WakeUp, CheckStop,
         CheckPaused, Handle, vars, history
<1>6. QED
  BY <1>1, <1>2, <1>3, <1>5 DEF Next, Loop

(* After n failures in a row the wait is the last regular one doubled n    *)
(* times, within the limits: for any intervals, and any number of          *)
(* failures (heartbeat.cpp 228-257).                                       *)
THEOREM WaitsDouble ==
  ASSUME CountsUpToTheCap
  PROVE  Spec => []ExponentialBackoff
<1>1. Init => WaitIsExponential
  BY DEF Init, Wait, WaitIsExponential
<1>2. IInv /\ WaitIsExponential /\ [Next]_vars => WaitIsExponential'
  BY WaitIsKept
<1>3. WaitIsExponential => ExponentialBackoff
  BY DEF WaitIsExponential, ExponentialBackoff, Wait
<1>4. QED
  BY <1>1, <1>2, <1>3, Invariance, PTL DEF Spec

-----------------------------------------------------------------------------
(* The contract.                                                           *)

LEMMA StartsAsPromised == Init => Contract!CInit
BY DEF Init, Contract!CInit

(* Every step of the manager is one of the contract or changes nothing it  *)
(* speaks of.                                                              *)
LEMMA StepIsPromised ==
  IInv /\ [Next]_vars => [Contract!CNext]_(Contract!cvars)
<1> SUFFICES ASSUME IInv, [Next]_vars PROVE [Contract!CNext]_(Contract!cvars)
  OBVIOUS
<1> USE DEF IInv, TypeOK, OneThread, StopIsSeen, control, history, Goto,
            Contract!CNext, Contract!cvars
<1>1. CASE Start
  BY <1>1 DEF Start, Contract!CStart
<1>2. CASE Pause
  BY <1>2 DEF Pause, Contract!CHold
<1>3. CASE Resume
  BY <1>3 DEF Resume, Contract!CHold
<1>4. CASE Stop
  BY <1>4 DEF Stop, Contract!CRequestStop
<1>5. CASE Join
  BY <1>5 DEF Join, Joinable, Contract!CStopped
<1>6. CASE LoopTop
  BY <1>6 DEF LoopTop
<1>7. CASE Sleep
  BY <1>7 DEF Sleep
<1>8. CASE WakeUp
  BY <1>8 DEF WakeUp
<1>9. CASE CheckStop
  BY <1>9 DEF CheckStop, Contract!CArm
<1>10. CASE CheckPaused
  BY <1>10 DEF CheckPaused, Held, Contract!CFire
<1>11. CASE SendFails
  BY <1>11 DEF SendFails, Contract!CFinish
<1>12. CASE SendSucceeds
  BY <1>12 DEF SendSucceeds, Contract!CFinish
<1>13. CASE Handle
  BY <1>13 DEF Handle
<1>14. CASE OverrideInterval
  BY <1>14 DEF OverrideInterval
<1>15. CASE UNCHANGED vars
  BY <1>15 DEF vars
<1>16. QED
  BY <1>1, <1>2, <1>3, <1>4, <1>5, <1>6, <1>7, <1>8, <1>9, <1>10, <1>11, <1>12,
     <1>13, <1>14, <1>15 DEF Next, Loop

(* No request leaves a manager that was stopped or paused but the one that *)
(* had passed the checks, and stop() leaves none behind, whatever the      *)
(* intervals (heartbeat.cpp 190-226).                                      *)
THEOREM ImplementsContract == Spec => FollowsContract
<1>1. IInv /\ [Next]_vars => [Contract!CNext]_(Contract!cvars)
  BY StepIsPromised
<1>2. QED
  BY <1>1, StartsAsPromised, Invariance, PTL DEF Spec, FollowsContract, Contract!CSpec

=============================================================================
