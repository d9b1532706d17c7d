---------------------------- MODULE RunCalls_proofs ----------------------------
(* Proofs about one call of run (TimeMarch) and about a program of calls      *)
(* (RunCalls), for any number of calls and iterations, every total_time and   *)
(* every set of time steps.                                                   *)
EXTENDS RunCalls, TLAPS

TimeInv == TypeOK /\ AtMostOneStepTooMany

LEMMA TimeInvInductive == Spec => []TimeInv
<1> USE TimeAssumption DEF TypeOK, AtMostOneStepTooMany, TimeInv
<1>1. Init => TimeInv BY DEF Init, Stops
<1>2. ASSUME TimeInv, [Next]_tvars PROVE TimeInv'
  <2>1. CASE TimeStep BY <1>2, <2>1 DEF TimeStep
  <2>2. CASE Converge BY <1>2, <2>2 DEF Converge
  <2>3. CASE NextIteration
    <3>1. /\ phase' = "dt" /\ iter' = iter + 1 /\ time' = time + dt /\ dt' = dt
          /\ iter < MaxIters /\ (Unsteady => time < TotalTime)
      BY <1>2, <2>3 DEF NextIteration, BeginIteration, Stops
    <3>2. dt \in Nat BY <1>2
    <3> QED BY <1>2, <3>1, <3>2
  <2>4. CASE LeaveLoop BY <1>2, <2>4 DEF LeaveLoop
  <2>5. CASE Abort BY <1>2, <2>5 DEF Abort
  <2>6. CASE UNCHANGED tvars BY <1>2, <2>6 DEF tvars
  <2> QED BY <1>2, <2>1, <2>2, <2>3, <2>4, <2>5, <2>6 DEF Next
<1> QED BY <1>1, <1>2, PTL DEF Spec

(* The iterations never exceed max_iters, and no time step is ever zero or    *)
(* negative once one has been computed.                                       *)
THEOREM TypeCorrect == Spec => []TypeOK
BY TimeInvInductive, PTL DEF TimeInv

(* An unsteady run begins at most one iteration at or past total_time,        *)
(* whatever the time steps are.                                               *)
THEOREM AtMostOneStepTooManyAlways == Spec => []AtMostOneStepTooMany
BY TimeInvInductive, PTL DEF TimeInv

------------------------------------------------------------------------------

lag == elapsed - origin - time

(* A call is behind by what the calls before it lost, and one that has ended  *)
(* by another step; while it runs, unsteady, its clock is short of a step     *)
(* beyond total_time.                                                         *)
IInv ==
    /\ TypeOK
    /\ calls \in Nat \ {0} /\ origin \in Nat /\ elapsed \in Nat
    /\ phase \in {"dt", "stages"} =>
           /\ lag \in 0 .. (calls - 1) * MaxDt
           /\ Unsteady => time < TotalTime + MaxDt
    /\ phase = "done" => lag \in 0 .. calls * MaxDt

LEMMA MaxDtBounds == MaxDt \in Nat /\ \A d \in Dts \cup {0} : d <= MaxDt
<1>1. MaxDt \in Dts /\ \A e \in Dts : e <= MaxDt
  BY CallsAssumption DEF MaxDt
<1> QED BY <1>1, TimeAssumption

(* One call more, one step more.                                              *)
LEMMA OneMore ==
    ASSUME NEW n \in Nat \ {0}
    PROVE  /\ (n - 1) * MaxDt \in Nat /\ n * MaxDt \in Nat
           /\ (n - 1) * MaxDt + MaxDt = n * MaxDt
           /\ (n + 1 - 1) * MaxDt = n * MaxDt
<1>1. n - 1 \in Nat /\ MaxDt \in Nat
  BY MaxDtBounds
<1> QED BY <1>1, SMTT(30)

LEMMA IInvInductive == RunSpec => []IInv
<1> USE TimeAssumption DEF TypeOK
<1>1. RunInit => IInv
  <2> SUFFICES ASSUME RunInit PROVE IInv
    OBVIOUS
  <2>1. calls = 1 /\ origin \in Nat /\ elapsed = origin /\ time = 0
    BY CallsAssumption DEF RunInit, Init
  <2>2. (calls - 1) * MaxDt \in Nat /\ calls * MaxDt \in Nat /\ MaxDt \in Nat
    BY <2>1, OneMore, MaxDtBounds
  <2>3. TypeOK /\ (phase = "dt" /\ Unsteady => time < TotalTime) /\ phase \in {"dt", "done"}
    BY DEF RunInit, Init, Stops
  <2> QED BY <2>1, <2>2, <2>3 DEF IInv, lag
<1>2. ASSUME IInv, [RunNext]_rvars PROVE IInv'
  <2>0. /\ calls \in Nat \ {0} /\ origin \in Nat /\ elapsed \in Nat /\ time \in Nat
        /\ dt \in Nat /\ dt <= MaxDt /\ MaxDt \in Nat
        /\ (calls - 1) * MaxDt \in Nat /\ calls * MaxDt \in Nat
        /\ (calls - 1) * MaxDt + MaxDt = calls * MaxDt
        /\ (calls + 1 - 1) * MaxDt = calls * MaxDt
    BY <1>2, MaxDtBounds, OneMore DEF IInv
  <2>1. CASE Step
    BY <1>2, <2>0, <2>1 DEF Step, TimeStep, IInv, lag
  <2>2. CASE GoOn
    <3>1. /\ phase = "stages" /\ phase' = "dt" /\ iter' = iter + 1 /\ time' = time + dt
          /\ elapsed' = elapsed + dt /\ UNCHANGED <<calls, origin, dt>>
          /\ iter < MaxIters /\ (Unsteady => time < TotalTime)
      BY <1>2, <2>2 DEF GoOn, NextIteration, BeginIteration, EndIteration, Stops, IInv
    <3>2. lag' = lag
      BY <2>0, <3>1 DEF lag
    <3>3. TypeOK'
      BY <1>2, <2>0, <3>1 DEF IInv
    <3> QED BY <1>2, <2>0, <3>1, <3>2, <3>3 DEF IInv
  <2>3. CASE Return
    <3>1. /\ phase = "stages" /\ phase' = "done"
          /\ elapsed' = elapsed + dt /\ UNCHANGED <<calls, origin, iter, time, dt>>
      BY <2>3 DEF Return, Converge, LeaveLoop, EndIteration
    <3>2. lag' = lag + dt /\ lag \in 0 .. (calls - 1) * MaxDt
      BY <1>2, <2>0, <3>1 DEF lag, IInv
    <3>3. lag' \in 0 .. calls * MaxDt
      BY <2>0, <3>2
    <3> QED BY <1>2, <2>0, <3>1, <3>3 DEF IInv
  <2>4. CASE Throw
    BY <1>2, <2>0, <2>4 DEF Throw, Abort, IInv
  <2>5. CASE Call
    <3>1. /\ phase = "done" /\ calls' = calls + 1 /\ UNCHANGED <<dt, origin, elapsed>>
          /\ time' = time + 0
          /\ \/ phase' = "done" /\ iter' = 0
             \/ phase' = "dt" /\ iter' = 1 /\ ~ Stops(0, time)
      BY <2>0, <2>5 DEF Call, BeginIteration
    <3>2. lag' = lag /\ lag \in 0 .. calls * MaxDt /\ time' = time
      BY <1>2, <2>0, <3>1 DEF lag, IInv
    <3>3. /\ calls' \in Nat \ {0} /\ calls' * MaxDt \in Nat
          /\ calls * MaxDt <= calls' * MaxDt
      <4>1. calls' \in Nat \ {0} /\ calls' - 1 = calls
        BY <2>0, <3>1
      <4>2. calls' * MaxDt \in Nat /\ (calls' - 1) * MaxDt + MaxDt = calls' * MaxDt
        BY <4>1, OneMore
      <4>3. calls * MaxDt + MaxDt = calls' * MaxDt
        BY <4>1, <4>2
      <4> DEFINE a == calls * MaxDt
                 b == calls' * MaxDt
      <4>4. a \in Nat /\ b \in Nat /\ MaxDt \in Nat /\ a + MaxDt = b
        BY <2>0, <4>2, <4>3
      <4> HIDE DEF a, b
      <4>5. a <= b
        BY <4>4
      <4> QED BY <4>1, <4>2, <4>5 DEF a, b
    <3>4. phase' \in {"dt", "stages"} => lag' \in 0 .. (calls' - 1) * MaxDt
      BY <2>0, <3>1, <3>2
    <3>5. phase' = "dt" => 0 < MaxIters /\ (Unsteady => time < TotalTime)
      BY <2>0, <3>1 DEF Stops
    <3>6. phase' = "done" => lag' \in 0 .. calls' * MaxDt
      <4> DEFINE a == calls * MaxDt
                 b == calls' * MaxDt
      <4>1. lag' \in 0 .. a /\ a \in Nat /\ b \in Nat /\ a <= b
        BY <2>0, <3>2, <3>3
      <4> HIDE DEF a, b
      <4>2. lag' \in 0 .. b
        BY <4>1
      <4> QED BY <4>2 DEF b
    <3>7. TypeOK'
      BY <1>2, <3>1, <3>2, <3>5 DEF IInv
    <3>8. phase' \in {"dt", "stages"} => (Unsteady => time' < TotalTime + MaxDt)
      BY <2>0, <3>1, <3>2, <3>5
    <3> QED BY <2>0, <3>1, <3>3, <3>4, <3>6, <3>7, <3>8 DEF IInv
  <2>6. CASE UNCHANGED rvars
    BY <1>2, <2>6 DEF rvars, tvars, IInv, lag
  <2> QED BY <1>2, <2>1, <2>2, <2>3, <2>4, <2>5, <2>6 DEF RunNext
<1> QED BY <1>1, <1>2, PTL DEF RunSpec

(* However often run is called and whatever its steps are, time_ is behind by *)
(* at most a step for each call that has ended, and an unsteady call begins   *)
(* no iteration later than as many steps after total_time.                    *)
THEOREM ClockLagsAlways == RunSpec => []ClockLags
<1>1. IInv => ClockLags
  <2> SUFFICES ASSUME IInv, phase = "dt" PROVE ClockLags
    BY DEF ClockLags
  <2>1. lag \in 0 .. (calls - 1) * MaxDt /\ (Unsteady => time < TotalTime + MaxDt)
    BY DEF IInv
  <2>2. /\ (calls - 1) * MaxDt \in Nat /\ (calls - 1) * MaxDt + MaxDt = calls * MaxDt
        /\ calls * MaxDt \in Nat /\ MaxDt \in Nat
        /\ time \in Nat /\ elapsed \in Nat /\ origin \in Nat
    BY OneMore, MaxDtBounds DEF IInv, TypeOK
  <2>3. Unsteady => elapsed - origin < TotalTime + calls * MaxDt
    BY <2>1, <2>2, TimeAssumption DEF lag
  <2> QED BY <2>1, <2>3 DEF ClockLags, lag
<1> QED BY <1>1, IInvInductive, PTL

(* What holds besides while a call runs, and when it has returned.            *)
Counted ==
    /\ phase \in {"dt", "stages"} => iter \in Nat \ {0}
    /\ phase = "done" => returned = iter_done

LEMMA CountedInductive == RunSpec => []Counted
<1>1. RunInit => Counted
  BY DEF RunInit, Init, Counted
<1>2. ASSUME Counted, [RunNext]_rvars PROVE Counted'
  <2>1. CASE Step
    BY <1>2, <2>1 DEF Step, TimeStep, Counted
  <2>2. CASE GoOn
    BY <1>2, <2>2 DEF GoOn, NextIteration, BeginIteration, Counted
  <2>3. CASE Return
    BY <2>3 DEF Return, EndIteration, Converge, LeaveLoop, Counted
  <2>4. CASE Throw
    BY <2>4 DEF Throw, Abort, Counted
  <2>5. CASE Call
    BY <1>2, <2>5 DEF Call, BeginIteration, Counted
  <2>6. CASE UNCHANGED rvars
    BY <1>2, <2>6 DEF rvars, tvars, Counted
  <2> QED BY <1>2, <2>1, <2>2, <2>3, <2>4, <2>5, <2>6 DEF RunNext
<1> QED BY <1>1, <1>2, PTL DEF RunSpec

(* A call returns the iterations it has made, or what the call before it      *)
(* returned if it makes none.                                                 *)
THEOREM ReturnsIterationsAlways == RunSpec => ReturnsIterations
<1> DEFINE A == phase' = "done" =>
                    IF iter' > 0 THEN returned' = iter' ELSE returned' = returned
<1>1. ASSUME Counted, RunNext PROVE A
  <2>1. CASE Step
    BY <2>1 DEF Step, TimeStep
  <2>2. CASE GoOn
    BY <2>2 DEF GoOn, NextIteration, BeginIteration
  <2>3. CASE Return
    <3>1. phase = "stages" /\ iter' = iter /\ returned' = iter
      BY <2>3 DEF Return, Converge, LeaveLoop
    <3> QED BY <1>1, <3>1 DEF Counted
  <2>4. CASE Throw
    BY <2>4 DEF Throw, Abort
  <2>5. CASE Call
    BY <1>1, <2>5 DEF Call, BeginIteration, Counted
  <2> QED BY <1>1, <2>1, <2>2, <2>3, <2>4, <2>5 DEF RunNext
<1>2. Counted /\ [RunNext]_rvars => [A]_rvars
  BY <1>1
<1> HIDE DEF A
<1>3. RunSpec => [][A]_rvars
  BY <1>2, CountedInductive, PTL DEF RunSpec
<1> QED BY <1>3 DEF ReturnsIterations, A
=============================================================================
