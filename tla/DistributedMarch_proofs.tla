----------------------- MODULE DistributedMarch_proofs -----------------------
(* Proofs about DistributedMarch, for every number of ranks, iterations and   *)
(* stages, every set of time steps and every set of failures.                 *)
EXTENDS DistributedMarch, TLAPS

\* What a rank may bring to a collective, and what comes out of it.
Offer(kind) == IF kind = "dt" THEN Dts ELSE {0, 1}

Agreement ==
    \A r \in Ranks :
        /\ rc[r] = 1 => pc[r] \in {"finalize", "exit"}
        /\ cs[r] # "out" => pc[r] \in Collective
        /\ cs[r] = "in" => contrib[r] \in Offer(pc[r])
        /\ cs[r] = "go" => red \in Offer(pc[r])
        /\ cs[r] = "go" => \A s \in Ranks : cs[s] = "go" => Local(s) = Local(r)

IInv == TypeOK /\ Agreement /\ Lockstep

------------------------------------------------------------------------------
LEMMA ViewFrame ==
    ASSUME NEW s \in Ranks,
           pc'[s] = pc[s], iter'[s] = iter[s], stage'[s] = stage[s],
           time'[s] = time[s], dt'[s] = dt[s], dtp'[s] = dtp[s],
           res'[s] = res[s], cs'[s] = cs[s], cs[s] = "go" => red' = red
    PROVE  View(s)' = View(s)
BY DEF View, Local

Rec(p, n, s, t, d, q, z) ==
    [pc |-> p, iter |-> n, stage |-> s, time |-> t, dt |-> d, dtp |-> q, res |-> z]

LEMMA ArrivedIs ==
    ASSUME NEW p, NEW n, NEW s, NEW t, NEW d, NEW q, NEW z
    PROVE  /\ p \in BeforeLoop /\ Stops(n, t) =>
                 Arrived(Rec(p, n, s, t, d, q, z)) = Rec("end", n, 0, t, d, q, z)
           /\ p \in BeforeLoop /\ ~ Stops(n, t) =>
                 Arrived(Rec(p, n, s, t, d, q, z)) = Rec("dt", n + 1, 1, t + q, d, q, z)
           /\ p \in InStage /\ GlobalEmax /\ s < NStages =>
                 Arrived(Rec(p, n, s, t, d, q, z)) = Rec("emax", n, s + 1, t, d, q, z)
           /\ p \in InStage /\ ~ (GlobalEmax /\ s < NStages) =>
                 Arrived(Rec(p, n, s, t, d, q, z)) = Rec("rn", n, NStages, t, d, q, z)
           /\ p \in Collective => Arrived(Rec(p, n, s, t, d, q, z)) = Rec(p, n, s, t, d, q, z)
           /\ p \in AfterLoop => Arrived(Rec(p, n, s, t, d, q, z)) = Rec("end", n, 0, t, d, q, z)
BY DEF Arrived, Rec, BeforeLoop, InStage, Collective, AfterLoop

LEMMA ReleasedIs ==
    ASSUME NEW n, NEW s, NEW t, NEW d, NEW q, NEW z, NEW m
    PROVE  /\ Released(Rec("dt", n, s, t, d, q, z), m) = Rec(FluxPoint, n, s, t, m, q, z)
           /\ Released(Rec("emax", n, s, t, d, q, z), m) = Rec("blend", n, s, t, d, q, z)
           /\ Released(Rec("rn", n, s, t, d, q, z), m) = Rec("lv", n, s, t, d, q, m)
           /\ m > 0 => Released(Rec("lv", n, s, t, d, q, z), m) = Rec("loc", n, s, t, d, q, z)
           /\ ~ m > 0 => Released(Rec("lv", n, s, t, d, q, z), m)
                 = Rec(IF n > 1 /\ z = 0 THEN "gather" ELSE "loop", n, s, t, d, d, z)
           /\ Released(Rec("loc", n, s, t, d, q, z), m)
                 = Rec(IF n > 1 /\ z = 0 THEN "gather" ELSE "loop", n, s, t, d, d, z)
BY DEF Released, Ended, Rec

\* The view of a rank before and after a step.
LEMMA ViewIs ==
    ASSUME NEW r
    PROVE  /\ cs[r] # "go" => View(r) =
                 Arrived(Rec(pc[r], iter[r], stage[r], time[r], dt[r], dtp[r], res[r]))
           /\ cs[r] = "go" => View(r) = Arrived(Released(
                 Rec(pc[r], iter[r], stage[r], time[r], dt[r], dtp[r], res[r]), red))
BY DEF View, Local, Rec

LEMMA NextViewIs ==
    ASSUME NEW r
    PROVE  /\ cs'[r] # "go" => View(r)' =
                 Arrived(Rec(pc'[r], iter'[r], stage'[r], time'[r], dt'[r], dtp'[r], res'[r]))
           /\ cs'[r] = "go" => View(r)' = Arrived(Released(
                 Rec(pc'[r], iter'[r], stage'[r], time'[r], dt'[r], dtp'[r], res'[r]), red'))
BY DEF View, Local, Rec

\* A step between two points with the same next collective.
LEMMA StraightOn ==
    ASSUME TypeOK, NEW r \in Ranks, cs[r] = "out", UNCHANGED <<loopVars, cs>>,
           NEW from, NEW to, Goto(r, from, to),
           \/ from \in BeforeLoop /\ to \in BeforeLoop
           \/ from \in InStage /\ to \in InStage
           \/ from \in AfterLoop /\ to \in AfterLoop
    PROVE  View(r)' = View(r)
<1>1. pc'[r] = to /\ pc[r] = from BY DEF Goto, TypeOK
<1>2. View(r) = Arrived(Rec(from, iter[r], stage[r], time[r], dt[r], dtp[r], res[r]))
  BY <1>1, ViewIs
<1>3. View(r)' = Arrived(Rec(to, iter[r], stage[r], time[r], dt[r], dtp[r], res[r]))
  BY <1>1, NextViewIs DEF loopVars
<1>4. from \in BeforeLoop /\ to \in BeforeLoop => View(r)' = View(r)
  BY <1>2, <1>3, ArrivedIs
<1>5. from \in InStage /\ to \in InStage => View(r)' = View(r)
  BY <1>2, <1>3, ArrivedIs
<1>6. from \in AfterLoop /\ to \in AfterLoop => View(r)' = View(r)
  BY <1>2, <1>3, ArrivedIs
<1> QED BY <1>4, <1>5, <1>6
------------------------------------------------------------------------------
LEMMA TypeInit == Init => TypeOK
<1> SUFFICES ASSUME Init PROVE TypeOK
  OBVIOUS
<1> USE MarchAssumption, WorldAssumption DEF Init
<1>1. inputs \in BOOLEAN /\ scattered \in BOOLEAN /\ written \in BOOLEAN
  OBVIOUS
<1>2. pc \in [Ranks -> BeforeLoop \cup InStage \cup Collective \cup AfterLoop]
  BY DEF BeforeLoop
<1>3. /\ iter \in [Ranks -> 0 .. MaxIters] /\ stage \in [Ranks -> 0 .. NStages]
      /\ time \in [Ranks -> Nat] /\ dt \in [Ranks -> Dts \cup {0}]
      /\ dtp \in [Ranks -> Dts \cup {0}] /\ res \in [Ranks -> {0, 1}]
  OBVIOUS
<1>4. ver \in [Ranks -> Nat] /\ posted \in [Ranks -> Seq(Nat)]
  OBVIOUS
<1>5. /\ cs \in [Ranks -> {"out", "in", "go"}]
      /\ contrib \in [Ranks -> Dts \cup {0, 1}] /\ red \in Dts \cup {0, 1}
  OBVIOUS
<1>6. gk \in [Ranks -> 0 .. NPlanes] /\ src \in 1 .. NRanks /\ rc \in [Ranks -> {0, 1}]
  OBVIOUS
<1>7. mail \in [Ranks -> Seq((0 .. NPlanes) \X (0 .. MaxIters) \X Nat)]
  OBVIOUS
<1> QED BY <1>1, <1>2, <1>3, <1>4, <1>5, <1>6, <1>7 DEF TypeOK

LEMMA TypeFacts ==
    ASSUME TypeOK, NEW r \in Ranks
    PROVE  /\ pc[r] \in BeforeLoop \cup InStage \cup Collective \cup AfterLoop
           /\ iter[r] \in 0 .. MaxIters /\ stage[r] \in 0 .. NStages
           /\ time[r] \in Nat /\ ver[r] \in Nat
           /\ dt[r] \in Dts \cup {0} /\ dtp[r] \in Dts \cup {0}
           /\ dt[r] \in Nat /\ dtp[r] \in Nat /\ res[r] \in {0, 1}
           /\ cs[r] \in {"out", "in", "go"} /\ rc[r] \in {0, 1}
           /\ contrib[r] \in Dts \cup {0, 1} /\ contrib[r] \in Nat
           /\ gk[r] \in 0 .. NPlanes
<1>1. Dts \subseteq Nat BY MarchAssumption
<1>2. dt[r] \in Dts \cup {0} /\ dtp[r] \in Dts \cup {0} /\ contrib[r] \in Dts \cup {0, 1}
  BY DEF TypeOK
<1>3. dt[r] \in Nat /\ dtp[r] \in Nat /\ contrib[r] \in Nat
  BY <1>1, <1>2
<1>4. pc[r] \in BeforeLoop \cup InStage \cup Collective \cup AfterLoop BY DEF TypeOK
<1>5. iter[r] \in 0 .. MaxIters /\ stage[r] \in 0 .. NStages BY DEF TypeOK
<1>6. time[r] \in Nat /\ ver[r] \in Nat /\ res[r] \in {0, 1} BY DEF TypeOK
<1>7. cs[r] \in {"out", "in", "go"} /\ rc[r] \in {0, 1} /\ gk[r] \in 0 .. NPlanes BY DEF TypeOK
<1> QED BY <1>2, <1>3, <1>4, <1>5, <1>6, <1>7

LEMMA TypeStep ==
    ASSUME TypeOK, Agreement, [Next]_vars
    PROVE  TypeOK'
<1> USE MarchAssumption DEF loopVars, haloVars, collVars, outVars
<1> DEFINE Points == BeforeLoop \cup InStage \cup Collective \cup AfterLoop
<1>1. CASE UNCHANGED vars
  BY <1>1 DEF TypeOK, vars
<1>2. ASSUME NEW r \in Ranks, NEW from, NEW to \in Points, Goto(r, from, to)
      PROVE  pc' \in [Ranks -> Points]
  BY <1>2 DEF Goto, TypeOK
<1> HIDE DEF Points
<1>3. ASSUME NEW r \in Ranks, NEW from, NEW to \in Points, PostHalo(r, from, to)
      PROVE  TypeOK'
  <2>1. pc' \in [Ranks -> Points] BY <1>2, <1>3 DEF PostHalo
  <2>2. posted' \in [Ranks -> Seq(Nat)] BY <1>3 DEF PostHalo, TypeOK
  <2> QED BY <1>3, <2>1, <2>2 DEF PostHalo, TypeOK, Points
<1>4. ASSUME NEW r \in Ranks, NEW from, NEW to \in Points, WaitHalo(r, from, to),
             iter' = iter, time' = time, dt' = dt, dtp' = dtp, res' = res,
             stage' \in [Ranks -> 0 .. NStages]
      PROVE  TypeOK'
  <2>1. pc' \in [Ranks -> Points] BY <1>2, <1>4 DEF WaitHalo
  <2> QED BY <1>4, <2>1 DEF WaitHalo, TypeOK, Points
<1>5. ASSUME NEW r \in Ranks, NEW kind, NEW value \in Dts \cup {0, 1}, Enter(r, kind, value)
      PROVE  TypeOK'
  <2>1. contrib' \in [Ranks -> Dts \cup {0, 1}] BY <1>5 DEF Enter, TypeOK
  <2>2. cs' \in [Ranks -> {"out", "in", "go"}]
    <3>1. cs' = [s \in Ranks |-> "go"] \/ cs' = [cs EXCEPT ![r] = "in"] BY <1>5 DEF Enter
    <3>2. CASE cs' = [s \in Ranks |-> "go"] BY <3>2
    <3>3. CASE cs' = [cs EXCEPT ![r] = "in"] BY <3>3 DEF TypeOK
    <3> QED BY <3>1, <3>2, <3>3
  <2>3. red' \in Dts \cup {0, 1}
    <3>1. Reductions(kind, contrib') \subseteq Dts \cup {0, 1} BY <2>1 DEF Reductions
    <3> QED BY <1>5, <3>1 DEF Enter, TypeOK
  <2> QED BY <1>5, <2>1, <2>2, <2>3 DEF Enter, TypeOK
<1>6. ASSUME NEW r \in Ranks, NEW from, NEW to \in Points, Goto(r, from, to),
             UNCHANGED <<inputs, loopVars, haloVars, collVars, scattered, outVars>>,
             rc' = rc \/ rc' = [rc EXCEPT ![r] = 1]
      PROVE  TypeOK'
  <2>1. pc' \in [Ranks -> Points] BY <1>2, <1>6
  <2> QED BY <1>6, <2>1 DEF TypeOK, Points
<1>7. ASSUME NEW r \in Ranks, NEW kind, NEW to \in Points, Leave(r, kind), Goto(r, kind, to),
             iter' = iter, time' = time, stage' = stage,
             dt' \in [Ranks -> Dts \cup {0}], dtp' \in [Ranks -> Dts \cup {0}],
             res' \in [Ranks -> {0, 1}]
      PROVE  TypeOK'
  <2>1. pc' \in [Ranks -> Points] BY <1>2, <1>7
  <2>2. cs' \in [Ranks -> {"out", "in", "go"}] BY <1>7 DEF Leave, TypeOK
  <2> QED BY <1>7, <2>1, <2>2 DEF Leave, TypeOK, Points
<1>8. \A p \in {"start", "post0", "wait0", "post1", "wait1", "scatter", "post2", "wait2",
                 "residue", "loop", "blend", "posts", "waits", "dt", "emax", "rn", "lv",
                 "loc", "gather", "gsync", "vtk", "finalize", "exit"} : p \in Points
  BY DEF Points, BeforeLoop, InStage, Collective, AfterLoop
<1>9. FluxPoint \in Points BY <1>8 DEF FluxPoint
<1> DEFINE Parcels == Seq((0 .. NPlanes) \X (0 .. MaxIters) \X Nat)
<1> HIDE DEF Parcels
<1>14. mail \in [Ranks -> Parcels] BY DEF TypeOK, Parcels
<1>13. ASSUME NEW r \in Ranks, gk[r] < NPlanes PROVE gk[r] + 1 \in 0 .. NPlanes
  <2>1. gk[r] \in 0 .. NPlanes BY DEF TypeOK
  <2> QED BY <1>13, <2>1
<1>11. ASSUME NEW r \in Ranks, Fails(r) PROVE TypeOK'
  <2>1. ASSUME NEW from, NEW point, Throw(r, from, point) PROVE TypeOK'
    BY <1>6, <1>8, <2>1 DEF Throw
  <2> QED BY <1>11, <2>1 DEF Fails
<1>12. ASSUME NEW r \in Ranks, Rank(r) PROVE TypeOK'
  <2>1. CASE Load(r) BY <1>6, <1>8, <2>1 DEF Load
  <2>2. CASE LoadFails(r) BY <1>6, <1>8, <2>2 DEF LoadFails
  <2>3. CASE FinishInit(r)
    BY <1>3, <1>4, <1>8, <2>3 DEF FinishInit, TypeOK
  <2>4. CASE LoadRestart(r)
    <3>1. CASE Scatter(r)
      <4>1. pc' \in [Ranks -> Points] BY <1>2, <1>8, <3>1 DEF Scatter
      <4>2. ver' \in [Ranks -> Nat]
        <5>1. ver[r] + 1 \in Nat BY TypeFacts
        <5> QED BY <3>1, <5>1 DEF Scatter, TypeOK
      <4> QED BY <3>1, <4>1, <4>2 DEF Scatter, TypeOK, Points
    <3> QED BY <1>3, <1>4, <1>8, <2>4, <3>1 DEF LoadRestart, TypeOK
  <2>5. CASE OpenResidue(r) BY <1>6, <1>8, <2>5 DEF OpenResidue
  <2>6. CASE LeaveLoop(r) BY <1>6, <1>8, <2>6 DEF LeaveLoop
  <2>7. CASE BeginIteration(r)
    <3>1. pc' \in [Ranks -> Points] BY <1>2, <1>8, <2>7 DEF BeginIteration
    <3>2. iter[r] + 1 \in 0 .. MaxIters
      <4>1. iter[r] \in 0 .. MaxIters BY TypeFacts
      <4>2. iter[r] < MaxIters BY <2>7, <4>1 DEF BeginIteration, Stops
      <4> QED BY <4>1, <4>2
    <3>3. time[r] + dtp[r] \in Nat
      <4>1. time[r] \in Nat /\ dtp[r] \in Nat BY TypeFacts
      <4> QED BY <4>1
    <3>4. iter' \in [Ranks -> 0 .. MaxIters] BY <2>7, <3>2 DEF BeginIteration, TypeOK
    <3>5. time' \in [Ranks -> Nat] BY <2>7, <3>3 DEF BeginIteration, TypeOK
    <3>6. stage' \in [Ranks -> 0 .. NStages] BY <2>7 DEF BeginIteration, TypeOK
    <3> QED BY <2>7, <3>1, <3>4, <3>5, <3>6 DEF BeginIteration, TypeOK, Points
  <2>8. CASE TimeStep(r)
    <3>1. ASSUME NEW d \in Dts, Enter(r, "dt", d) PROVE TypeOK' BY <1>5, <3>1
    <3>2. ASSUME Leave(r, "dt"), dt' = [dt EXCEPT ![r] = red] PROVE dt' \in [Ranks -> Dts \cup {0}]
      BY <3>2 DEF Leave, Agreement, Offer, TypeOK
    <3>3. ASSUME Leave(r, "dt"), Goto(r, "dt", FluxPoint), dt' = [dt EXCEPT ![r] = red],
                 UNCHANGED <<iter, stage, time, dtp, res>>
          PROVE  TypeOK'
      BY <1>7, <1>9, <3>2, <3>3 DEF TypeOK
    <3> QED BY <2>8, <3>1, <3>3 DEF TimeStep
  <2>9. CASE Emax(r)
    BY <1>5, <1>7, <1>8, <2>9 DEF Emax, TypeOK
  <2>10. CASE Blend(r)
    <3>1. pc' \in [Ranks -> Points] BY <1>2, <1>8, <2>10 DEF Blend
    <3>2. ver' \in [Ranks -> Nat]
      <4>1. ver[r] + 1 \in Nat BY TypeFacts
      <4> QED BY <2>10, <4>1 DEF Blend, TypeOK
    <3> QED BY <2>10, <3>1, <3>2 DEF Blend, TypeOK, Points
  <2>11. CASE EndStage(r)
    <3>1. CASE PostHalo(r, "posts", "waits") BY <1>3, <1>8, <3>1
    <3>2. CASE /\ stage[r] < NStages
               /\ WaitHalo(r, "waits", FluxPoint)
               /\ stage' = [stage EXCEPT ![r] = @ + 1]
               /\ UNCHANGED <<iter, time, dt, dtp, res>>
      <4>2. stage[r] \in 0 .. NStages BY TypeFacts
      <4>3. stage[r] + 1 \in 0 .. NStages BY <3>2, <4>2
      <4>1. stage' \in [Ranks -> 0 .. NStages] BY <3>2, <4>3 DEF TypeOK
      <4> QED BY <1>4, <1>9, <3>2, <4>1
    <3> QED BY <1>4, <1>8, <2>11, <3>1, <3>2 DEF EndStage, TypeOK
  <2>12. CASE Residual(r)
    <3>1. ASSUME Leave(r, "rn"), res' = [res EXCEPT ![r] = red] PROVE res' \in [Ranks -> {0, 1}]
      BY <3>1 DEF Leave, Agreement, Offer, TypeOK
    <3>2. ASSUME Leave(r, "rn"), Goto(r, "rn", "lv"), res' = [res EXCEPT ![r] = red],
                 UNCHANGED <<iter, stage, time, dt, dtp>>
          PROVE  TypeOK'
      BY <1>7, <1>8, <3>1, <3>2 DEF TypeOK
    <3> QED BY <1>5, <2>12, <3>2 DEF Residual
  <2>13. CASE Location(r)
    <3>1. ASSUME NEW v \in contrib[r] .. 1, Enter(r, "lv", v) PROVE TypeOK'
      <4>2. contrib[r] \in Nat BY TypeFacts
      <4>1. v \in {0, 1} BY <3>1, <4>2
      <4> QED BY <1>5, <3>1, <4>1
    <3>2. ASSUME NEW kind, Leave(r, kind), EndIteration(r, kind) PROVE TypeOK'
      <4>1. dtp' \in [Ranks -> Dts \cup {0}] BY <3>2 DEF EndIteration, TypeOK
      <4> DEFINE to == IF iter[r] > 1 /\ res[r] = 0 THEN "gather" ELSE "loop"
      <4>2. to \in Points BY <1>8
      <4>3. Goto(r, kind, to) BY <3>2 DEF EndIteration
      <4> QED BY <1>7, <3>2, <4>1, <4>2, <4>3 DEF EndIteration, TypeOK
    <3>3. ASSUME Leave(r, "lv"), Goto(r, "lv", "loc"), UNCHANGED loopVars PROVE TypeOK'
      BY <1>7, <1>8, <3>3 DEF TypeOK
    <3> QED BY <1>5, <2>13, <3>1, <3>2, <3>3 DEF Location
  <2>14. CASE SendPlane(r)
    <3>1. pc' \in [Ranks -> Points] BY <1>2, <1>8, <2>14 DEF SendPlane
    <3>2. Origin(r, gk[r]) \in (0 .. NPlanes) \X (0 .. MaxIters) \X Nat
      BY DEF Origin, TypeOK
    <3>3. mail' \in [Ranks -> Parcels]
      <4>1. Append(mail[r], Origin(r, gk[r])) \in Parcels
        BY <1>14, <3>2 DEF Parcels
      <4> QED BY <1>14, <2>14, <4>1 DEF SendPlane
    <3>4. gk' \in [Ranks -> 0 .. NPlanes] BY <2>14, <1>13 DEF SendPlane, TypeOK
    <3> QED BY <2>14, <3>1, <3>3, <3>4 DEF SendPlane, TypeOK, Points, Parcels
  <2>15. CASE SendReturns(r) BY <1>6, <1>8, <2>15 DEF SendReturns
  <2>16. CASE RecvPlane(r)
    <3>1. mail' \in [Ranks -> Parcels]
      <4>1. mail[src] \in Parcels /\ mail[src] # << >> BY <1>14, <2>16 DEF RecvPlane
      <4>2. Tail(mail[src]) \in Parcels BY <4>1 DEF Parcels
      <4> QED BY <1>14, <2>16, <4>2 DEF RecvPlane
    <3>2. src' \in 1 .. NRanks
      <4>1. src \in 1 .. NRanks /\ src \in 0 .. NRanks - 1 /\ src' = src + 1
        BY <2>16 DEF RecvPlane, TypeOK, Ranks
      <4> QED BY <4>1, WorldAssumption
    <3> QED BY <2>16, <3>1, <3>2 DEF RecvPlane, TypeOK, Points, Parcels
  <2>17. CASE NextPlane(r)
    <3>1. gk' \in [Ranks -> 0 .. NPlanes] BY <2>17, <1>13 DEF NextPlane, TypeOK
    <3>2. src' \in 1 .. NRanks
      <4>1. 1 \in 1 .. NRanks BY WorldAssumption
      <4> QED BY <2>17, <4>1 DEF NextPlane
    <3> QED BY <2>17, <3>1, <3>2 DEF NextPlane, TypeOK, Points
  <2>18. CASE WriteSolution(r)
    <3>1. pc' \in [Ranks -> Points] BY <1>2, <1>8, <2>18 DEF WriteSolution
    <3> QED BY <2>18, <3>1 DEF WriteSolution, TypeOK, Points
  <2>19. CASE WriteVtk(r) BY <1>6, <1>8, <2>19 DEF WriteVtk
  <2>20. CASE Finalize(r) BY <1>6, <1>8, <2>20 DEF Finalize
  <2> QED BY <1>12, <2>1, <2>2, <2>3, <2>4, <2>5, <2>6, <2>7, <2>8, <2>9, <2>10, <2>11,
             <2>12, <2>13, <2>14, <2>15, <2>16, <2>17, <2>18, <2>19, <2>20 DEF Rank
<1> QED BY <1>1, <1>11, <1>12 DEF Next
------------------------------------------------------------------------------
\* A step of rank r leaves the other ranks' part of the loop alone.
OthersKeep(r) ==
    \A s \in Ranks \ {r} :
        /\ pc'[s] = pc[s] /\ iter'[s] = iter[s] /\ stage'[s] = stage[s]
        /\ time'[s] = time[s] /\ dt'[s] = dt[s] /\ dtp'[s] = dtp[s]
        /\ res'[s] = res[s] /\ cs'[s] = cs[s] /\ contrib'[s] = contrib[s]
        /\ rc'[s] = rc[s]

\* No view changes, except that a rank that throws has none any more.
SameViews == \A s \in Ranks : rc'[s] = 0 => rc[s] = 0 /\ View(s)' = View(s)

\* A collective completes: all views change, in the same way.
Reduced ==
    \E kind \in Collective :
        /\ red' \in Offer(kind)
        /\ \A s \in Ranks :
            /\ pc[s] = kind /\ rc[s] = 0 /\ rc'[s] = 0
            /\ View(s) = Local(s) /\ View(s)' = Arrived(Released(Local(s), red'))

Advance == Agreement' /\ Lockstep' /\ (SameViews \/ Reduced)

LEMMA Solo ==
    ASSUME Agreement, Lockstep, NEW r \in Ranks, OthersKeep(r), red' = red,
           rc'[r] = 1 => pc'[r] \in {"finalize", "exit"},
           cs'[r] # "go",
           cs'[r] # "out" => pc'[r] \in Collective,
           cs'[r] = "in" => contrib'[r] \in Offer(pc'[r]),
           rc'[r] = 0 => rc[r] = 0 /\ View(r)' = View(r)
    PROVE  Advance
<1>1. \A s \in Ranks \ {r} : View(s)' = View(s) /\ Local(s)' = Local(s)
  BY DEF OthersKeep, View, Local
<1>2. \A s \in Ranks : rc'[s] = 0 => rc[s] = 0 /\ View(s)' = View(s)
  BY <1>1 DEF OthersKeep
<1>3. Lockstep' BY <1>2 DEF Lockstep
<1>4. ASSUME NEW s \in Ranks
      PROVE  /\ rc'[s] = 1 => pc'[s] \in {"finalize", "exit"}
             /\ cs'[s] # "out" => pc'[s] \in Collective
             /\ cs'[s] = "in" => contrib'[s] \in Offer(pc'[s])
             /\ cs'[s] = "go" => red' \in Offer(pc'[s])
  <2>1. CASE s = r BY <2>1
  <2>2. CASE s # r BY <2>2 DEF OthersKeep, Agreement
  <2> QED BY <2>1, <2>2
<1>5. ASSUME NEW s \in Ranks, NEW u \in Ranks, cs'[s] = "go", cs'[u] = "go"
      PROVE  Local(u)' = Local(s)'
  <2>1. s # r /\ u # r BY <1>5
  <2>2. cs[s] = "go" /\ cs[u] = "go" BY <1>5, <2>1 DEF OthersKeep
  <2>3. Local(u) = Local(s) BY <2>2 DEF Agreement
  <2> QED BY <1>1, <2>1, <2>3
<1>6. Agreement' BY <1>4, <1>5 DEF Agreement, Offer
<1> QED BY <1>2, <1>3, <1>6 DEF Advance, SameViews

\* Outside of the collectives a rank is "out".
LEMMA OutsideIsOut ==
    ASSUME TypeOK, Agreement, NEW r \in Ranks, pc[r] \notin Collective
    PROVE  cs[r] = "out"
BY TypeFacts DEF Agreement

LEMMA Move ==
    ASSUME TypeOK, Agreement, Lockstep, NEW r \in Ranks,
           NEW from, NEW to, Goto(r, from, to),
           \/ from \in BeforeLoop /\ to \in BeforeLoop
           \/ from \in InStage /\ to \in InStage
           \/ from \in AfterLoop /\ to \in AfterLoop /\ (from = "finalize" => to = "exit"),
           from # "exit",
           UNCHANGED <<loopVars, collVars, rc>>
    PROVE  Advance
<1>1. pc[r] = from /\ pc'[r] = to BY DEF Goto, TypeOK
<1>2. from \notin Collective BY DEF BeforeLoop, InStage, AfterLoop, Collective
<1>3. cs[r] = "out" BY <1>1, <1>2, OutsideIsOut
<1>4. cs' = cs /\ red' = red /\ UNCHANGED <<loopVars, cs>> BY DEF collVars
<1>5. View(r)' = View(r) BY <1>3, <1>4, StraightOn
<1>6. OthersKeep(r) BY DEF OthersKeep, Goto, TypeOK, loopVars, collVars
<1>7. rc'[r] = 1 => pc'[r] \in {"finalize", "exit"}
  BY <1>1 DEF Agreement, BeforeLoop, InStage
<1> QED BY <1>3, <1>4, <1>5, <1>6, <1>7, Solo

\* A rank that throws is not compared with the others any more.
LEMMA Gone ==
    ASSUME TypeOK, Agreement, Lockstep, NEW r \in Ranks,
           NEW from, Goto(r, from, "finalize"), cs[r] = "out",
           UNCHANGED <<loopVars, collVars>>, rc' = [rc EXCEPT ![r] = 1]
    PROVE  Advance
<1>1. pc'[r] = "finalize" /\ rc'[r] = 1 BY DEF Goto, TypeOK
<1>2. cs' = cs /\ red' = red BY DEF collVars
<1>3. OthersKeep(r) BY DEF OthersKeep, Goto, TypeOK, loopVars, collVars
<1> QED BY <1>1, <1>2, <1>3, Solo

LEMMA LeaveLoopStep ==
    ASSUME TypeOK, Agreement, Lockstep, NEW r \in Ranks, LeaveLoop(r)
    PROVE  Advance
<1>1. /\ pc[r] = "loop" /\ pc'[r] = "gather" /\ Stops(iter[r], time[r])
      /\ UNCHANGED <<loopVars, collVars, rc>>
  BY DEF LeaveLoop, Goto, TypeOK
<1>2. cs[r] = "out" BY <1>1, OutsideIsOut DEF Collective
<1>3. View(r) = Rec("end", iter[r], 0, time[r], dt[r], dtp[r], res[r])
  BY <1>1, <1>2, ViewIs, ArrivedIs DEF BeforeLoop
<1>4. View(r)' = Rec("end", iter[r], 0, time[r], dt[r], dtp[r], res[r])
  <2>1. cs'[r] # "go" BY <1>1, <1>2 DEF collVars
  <2> QED BY <1>1, <2>1, NextViewIs, ArrivedIs DEF AfterLoop, loopVars
<1>5. OthersKeep(r) BY <1>1 DEF LeaveLoop, OthersKeep, Goto, TypeOK, loopVars, collVars
<1>6. rc[r] # 1 BY <1>1 DEF Agreement
<1> QED BY <1>1, <1>2, <1>3, <1>4, <1>5, <1>6, TypeFacts, Solo DEF collVars

LEMMA BeginIterationStep ==
    ASSUME TypeOK, Agreement, Lockstep, NEW r \in Ranks, BeginIteration(r)
    PROVE  Advance
<1>1. /\ pc[r] = "loop" /\ pc'[r] = "dt" /\ ~ Stops(iter[r], time[r])
      /\ iter'[r] = iter[r] + 1 /\ time'[r] = time[r] + dtp[r] /\ stage'[r] = 1
      /\ dt' = dt /\ dtp' = dtp /\ res' = res /\ UNCHANGED <<collVars, rc>>
  BY DEF BeginIteration, Goto, TypeOK
<1>2. cs[r] = "out" BY <1>1, OutsideIsOut DEF Collective
<1>3. View(r) = Rec("dt", iter[r] + 1, 1, time[r] + dtp[r], dt[r], dtp[r], res[r])
  BY <1>1, <1>2, ViewIs, ArrivedIs DEF BeforeLoop
<1>4. View(r)' = Rec("dt", iter[r] + 1, 1, time[r] + dtp[r], dt[r], dtp[r], res[r])
  <2>1. cs'[r] # "go" BY <1>1, <1>2 DEF collVars
  <2> QED BY <1>1, <2>1, NextViewIs, ArrivedIs DEF Collective
<1>5. OthersKeep(r) BY <1>1 DEF BeginIteration, OthersKeep, Goto, TypeOK, collVars
<1>6. rc[r] # 1 BY <1>1 DEF Agreement
<1> QED BY <1>1, <1>2, <1>3, <1>4, <1>5, <1>6, TypeFacts, Solo DEF collVars

LEMMA EndStageStep ==
    ASSUME TypeOK, Agreement, Lockstep, NEW r \in Ranks, EndStage(r)
    PROVE  Advance
<1>1. CASE PostHalo(r, "posts", "waits")
  <2>1. Goto(r, "posts", "waits") /\ UNCHANGED <<loopVars, collVars, rc>> BY <1>1 DEF PostHalo
  <2> QED BY <2>1, Move DEF InStage
<1>2. CASE /\ stage[r] < NStages
           /\ WaitHalo(r, "waits", FluxPoint)
           /\ stage' = [stage EXCEPT ![r] = @ + 1]
           /\ UNCHANGED <<iter, time, dt, dtp, res>>
  <2>1. /\ pc[r] = "waits" /\ pc'[r] = FluxPoint /\ stage'[r] = stage[r] + 1
        /\ UNCHANGED <<collVars, rc>>
    BY <1>2 DEF WaitHalo, Goto, TypeOK
  <2>2. cs[r] = "out" BY <2>1, OutsideIsOut DEF Collective
  <2>3. cs'[r] # "go" BY <2>1, <2>2 DEF collVars
  <2>4. View(r) = Arrived(Rec("waits", iter[r], stage[r], time[r], dt[r], dtp[r], res[r]))
    BY <2>1, <2>2, ViewIs
  <2>5. View(r)' = Arrived(Rec(FluxPoint, iter[r], stage[r] + 1, time[r], dt[r], dtp[r], res[r]))
    BY <1>2, <2>1, <2>3, NextViewIs
  <2>6. ASSUME GlobalEmax PROVE View(r)' = View(r)
    BY <1>2, <2>4, <2>5, <2>6, ArrivedIs DEF FluxPoint, InStage, Collective
  <2>7. ASSUME ~ GlobalEmax PROVE View(r)' = View(r)
    BY <1>2, <2>4, <2>5, <2>7, ArrivedIs DEF FluxPoint, InStage, Collective
  <2>8. OthersKeep(r) BY <1>2 DEF WaitHalo, OthersKeep, Goto, TypeOK, collVars
  <2>9. rc[r] # 1 BY <2>1 DEF Agreement
  <2> QED BY <2>1, <2>2, <2>6, <2>7, <2>8, <2>9, TypeFacts, Solo DEF collVars
<1>3. CASE stage[r] = NStages /\ WaitHalo(r, "waits", "rn") /\ UNCHANGED loopVars
  <2>1. pc[r] = "waits" /\ pc'[r] = "rn" /\ UNCHANGED <<loopVars, collVars, rc>>
    BY <1>3 DEF WaitHalo, Goto, TypeOK
  <2>2. cs[r] = "out" BY <2>1, OutsideIsOut DEF Collective
  <2>3. cs'[r] # "go" BY <2>1, <2>2 DEF collVars
  <2>4. View(r) = Rec("rn", iter[r], NStages, time[r], dt[r], dtp[r], res[r])
    <3>1. ~ (stage[r] < NStages) BY <1>3, MarchAssumption
    <3> QED BY <2>1, <2>2, <3>1, ViewIs, ArrivedIs DEF InStage
  <2>5. View(r)' = Rec("rn", iter[r], NStages, time[r], dt[r], dtp[r], res[r])
    BY <1>3, <2>1, <2>3, NextViewIs, ArrivedIs DEF Collective, loopVars
  <2>6. OthersKeep(r) BY <1>3 DEF WaitHalo, OthersKeep, Goto, TypeOK, loopVars, collVars
  <2>7. rc[r] # 1 BY <2>1 DEF Agreement
  <2> QED BY <2>1, <2>2, <2>4, <2>5, <2>6, <2>7, TypeFacts, Solo DEF collVars
<1> QED BY <1>1, <1>2, <1>3 DEF EndStage

\* Leaving a collective, whatever comes next.
LEMMA LeaveStep ==
    ASSUME TypeOK, Agreement, Lockstep, NEW r \in Ranks, NEW kind \in Collective,
           NEW to, Leave(r, kind), Goto(r, kind, to), OthersKeep(r),
           Released(Rec(kind, iter[r], stage[r], time[r], dt[r], dtp[r], res[r]), red)
             = Rec(to, iter'[r], stage'[r], time'[r], dt'[r], dtp'[r], res'[r])
    PROVE  Advance
<1>1. /\ pc[r] = kind /\ pc'[r] = to /\ cs[r] = "go" /\ cs'[r] = "out"
      /\ red' = red /\ rc' = rc
  BY DEF Leave, Goto, TypeOK
<1>2. View(r)' = View(r) BY <1>1, ViewIs, NextViewIs
<1>3. rc[r] # 1 BY <1>1 DEF Agreement, Collective
<1> QED BY <1>1, <1>2, <1>3, TypeFacts, Solo

LEMMA EnterStep ==
    ASSUME TypeOK, Agreement, Lockstep, NEW r \in Ranks, NEW kind \in Collective,
           NEW value \in Offer(kind), Enter(r, kind, value)
    PROVE  Advance
<1>1. /\ pc[r] = kind /\ cs[r] = "out" /\ pc' = pc /\ rc' = rc /\ UNCHANGED loopVars
      /\ contrib' = [contrib EXCEPT ![r] = value]
  BY DEF Enter
<1>2. contrib'[r] = value /\ \A s \in Ranks \ {r} : contrib'[s] = contrib[s]
  BY <1>1 DEF TypeOK
<1>3. rc[r] # 1 BY <1>1 DEF Agreement, Collective
<1>4. CASE ~ \A s \in Ranks \ {r} : cs[s] = "in"
  <2>1. cs' = [cs EXCEPT ![r] = "in"] /\ red' = red BY <1>4 DEF Enter
  <2>2. cs'[r] = "in" /\ OthersKeep(r) BY <1>1, <1>2, <2>1 DEF OthersKeep, TypeOK, loopVars
  <2>3. View(r)' = View(r)
    BY <1>1, <2>2, ViewIs, NextViewIs DEF loopVars
  <2> QED BY <1>1, <1>2, <1>3, <2>1, <2>2, <2>3, TypeFacts, Solo
<1>5. CASE \A s \in Ranks \ {r} : cs[s] = "in"
  <2>1. cs' = [s \in Ranks |-> "go"] /\ red' \in Reductions(kind, contrib') BY <1>5 DEF Enter
  <2>2. \A s \in Ranks : pc[s] \in Collective /\ cs[s] # "go" /\ rc[s] = 0
    BY <1>1, <1>5, TypeFacts DEF Agreement, Collective
  <2>3. \A s \in Ranks : View(s) = Local(s)
    <3>1. ASSUME NEW s \in Ranks PROVE View(s) = Local(s)
      <4>1. View(s) = Rec(pc[s], iter[s], stage[s], time[s], dt[s], dtp[s], res[s])
        BY <2>2, ViewIs, ArrivedIs
      <4> QED BY <4>1 DEF Local, Rec
    <3> QED BY <3>1
  <2>4. \A s, u \in Ranks : Local(s) = Local(u) BY <2>2, <2>3 DEF Lockstep
  <2>5. \A s \in Ranks : pc[s] = kind
    <3>1. ASSUME NEW s \in Ranks PROVE pc[s] = pc[r]
      <4>1. Local(s).pc = Local(r).pc BY <2>4
      <4> QED BY <4>1 DEF Local
    <3> QED BY <1>1, <3>1
  <2>6. \A s \in Ranks : contrib'[s] \in Offer(kind)
    BY <1>2, <1>5, <2>5 DEF Agreement
  <2>7. red' \in Offer(kind)
    <3>1. CASE kind = "dt"
      <4>1. Reductions(kind, contrib') \subseteq {contrib'[s] : s \in Ranks}
        BY <3>1 DEF Reductions
      <4> QED BY <2>1, <2>6, <4>1
    <3>2. CASE kind # "dt"
      <4>1. Reductions(kind, contrib') \subseteq {contrib'[s] : s \in Ranks} \cup {0}
        BY <3>2 DEF Reductions
      <4> QED BY <2>1, <2>6, <3>2, <4>1 DEF Offer
    <3> QED BY <3>1, <3>2
  <2>8. \A s \in Ranks : Local(s)' = Local(s) BY <1>1 DEF Local, loopVars
  <2>9. Agreement'
    BY <1>1, <2>1, <2>2, <2>4, <2>5, <2>7, <2>8 DEF Agreement, Offer
  <2>10. \A s \in Ranks : View(s)' = Arrived(Released(Local(s)', red')) BY <2>1 DEF View
  <2>11. Lockstep' BY <2>4, <2>8, <2>10 DEF Lockstep
  <2>12. Reduced
    <3>1. \A s \in Ranks : View(s)' = Arrived(Released(Local(s), red')) BY <2>8, <2>10
    <3> QED BY <1>1, <2>2, <2>3, <2>5, <2>7, <3>1 DEF Reduced
  <2> QED BY <2>9, <2>11, <2>12 DEF Advance
<1> QED BY <1>4, <1>5

LEMMA EndIterationStep ==
    ASSUME TypeOK, Agreement, Lockstep, NEW r \in Ranks, NEW kind \in {"lv", "loc"},
           Leave(r, kind), EndIteration(r, kind), kind = "lv" => red = 0
    PROVE  Advance
<1> DEFINE to == IF iter[r] > 1 /\ res[r] = 0 THEN "gather" ELSE "loop"
<1>1. Goto(r, kind, to) BY DEF EndIteration
<1>2. /\ iter' = iter /\ stage' = stage /\ time' = time /\ dt' = dt /\ res' = res
      /\ dtp'[r] = dt[r]
  BY DEF EndIteration, TypeOK
<1>3. OthersKeep(r) BY DEF Leave, EndIteration, OthersKeep, Goto, TypeOK
<1>4. Released(Rec(kind, iter[r], stage[r], time[r], dt[r], dtp[r], res[r]), red)
        = Rec(to, iter[r], stage[r], time[r], dt[r], dt[r], res[r])
  <2>1. kind = "lv" => ~ red > 0 OBVIOUS
  <2> QED BY <2>1, ReleasedIs
<1> QED BY <1>1, <1>2, <1>3, <1>4, LeaveStep DEF Collective

LEMMA LoopStep ==
    ASSUME TypeOK, Agreement, Lockstep, NEW r \in Ranks,
           TimeStep(r) \/ Emax(r) \/ Residual(r) \/ Location(r)
    PROVE  Advance
<1>1. CASE TimeStep(r)
  <2>1. ASSUME NEW d \in Dts, Enter(r, "dt", d) PROVE Advance
    BY <2>1, EnterStep DEF Offer, Collective
  <2>2. ASSUME Leave(r, "dt"), Goto(r, "dt", FluxPoint), dt' = [dt EXCEPT ![r] = red],
               UNCHANGED <<iter, stage, time, dtp, res>>
        PROVE  Advance
    <3>1. OthersKeep(r) BY <2>2 DEF Leave, OthersKeep, Goto, TypeOK
    <3>2. dt'[r] = red BY <2>2 DEF TypeOK
    <3> QED BY <2>2, <3>1, <3>2, ReleasedIs, LeaveStep DEF Collective
  <2> QED BY <1>1, <2>1, <2>2 DEF TimeStep
<1>2. CASE Emax(r)
  <2>1. ASSUME Enter(r, "emax", 0) PROVE Advance
    BY <2>1, EnterStep DEF Offer, Collective
  <2>2. ASSUME Leave(r, "emax"), Goto(r, "emax", "blend"), UNCHANGED loopVars
        PROVE  Advance
    <3>1. OthersKeep(r) BY <2>2 DEF Leave, OthersKeep, Goto, TypeOK, loopVars
    <3> QED BY <2>2, <3>1, ReleasedIs, LeaveStep DEF Collective, loopVars
  <2> QED BY <1>2, <2>1, <2>2 DEF Emax
<1>3. CASE Residual(r)
  <2>1. ASSUME NEW v \in {0, 1}, Enter(r, "rn", v) PROVE Advance
    BY <2>1, EnterStep DEF Offer, Collective
  <2>2. ASSUME Leave(r, "rn"), Goto(r, "rn", "lv"), res' = [res EXCEPT ![r] = red],
               UNCHANGED <<iter, stage, time, dt, dtp>>
        PROVE  Advance
    <3>1. OthersKeep(r) BY <2>2 DEF Leave, OthersKeep, Goto, TypeOK
    <3>2. res'[r] = red BY <2>2 DEF TypeOK
    <3> QED BY <2>2, <3>1, <3>2, ReleasedIs, LeaveStep DEF Collective
  <2> QED BY <1>3, <2>1, <2>2 DEF Residual
<1>4. CASE Location(r)
  <2>1. ASSUME NEW v \in contrib[r] .. 1, Enter(r, "lv", v) PROVE Advance
    <3>1. v \in {0, 1} BY TypeFacts
    <3> QED BY <2>1, <3>1, EnterStep DEF Offer, Collective
  <2>2. ASSUME Leave(r, "lv"), red > 0, Goto(r, "lv", "loc"), UNCHANGED loopVars
        PROVE  Advance
    <3>1. OthersKeep(r) BY <2>2 DEF Leave, OthersKeep, Goto, TypeOK, loopVars
    <3> QED BY <2>2, <3>1, ReleasedIs, LeaveStep DEF Collective, loopVars
  <2>3. ASSUME Leave(r, "lv"), red = 0, EndIteration(r, "lv") PROVE Advance
    BY <2>3, EndIterationStep
  <2>4. ASSUME Enter(r, "loc", 0) PROVE Advance
    BY <2>4, EnterStep DEF Offer, Collective
  <2>5. ASSUME Leave(r, "loc"), EndIteration(r, "loc") PROVE Advance
    BY <2>5, EndIterationStep
  <2> QED BY <1>4, <2>1, <2>2, <2>3, <2>4, <2>5 DEF Location
<1> QED BY <1>1, <1>2, <1>3, <1>4

\* Nothing the invariant speaks of changes.
LEMMA Stutter ==
    ASSUME Agreement, Lockstep, UNCHANGED <<pc, loopVars, collVars, rc>>
    PROVE  Advance
BY DEF Advance, SameViews, Agreement, Lockstep, View, Local, loopVars, collVars

LEMMA InvInit == Init => IInv
<1> SUFFICES ASSUME Init PROVE IInv
  OBVIOUS
<1>1. TypeOK BY TypeInit
<1>2. Agreement BY DEF Init, Agreement
<1>3. \A r, s \in Ranks : View(r) = View(s) BY DEF Init, View, Local
<1> QED BY <1>1, <1>2, <1>3 DEF IInv, Lockstep

LEMMA Step ==
    ASSUME IInv, [Next]_vars
    PROVE  TypeOK' /\ Advance
<1>1. TypeOK /\ Agreement /\ Lockstep BY DEF IInv
<1>2. TypeOK' BY <1>1, TypeStep
<1>3. CASE UNCHANGED vars
  BY <1>1, <1>2, <1>3, Stutter DEF vars
<1>5. ASSUME NEW r \in Ranks, Fails(r) PROVE Advance
  <2>1. ASSUME NEW from, NEW point, Throw(r, from, point), cs[r] = "out"
        PROVE  Advance
    BY <1>1, <2>1, Gone DEF Throw
  <2>2. ASSUME NEW from, NEW point, Throw(r, from, point), from \notin Collective
        PROVE  Advance
    <3>1. pc[r] \notin Collective BY <2>2 DEF Throw, Goto
    <3> QED BY <1>1, <2>1, <2>2, <3>1, OutsideIsOut
  <2> QED BY <1>5, <2>1, <2>2 DEF Fails, Collective
<1>6. ASSUME NEW r \in Ranks, Rank(r) PROVE Advance
  <2> USE <1>1
  <2>1. ASSUME NEW from, NEW to, Goto(r, from, to), UNCHANGED <<loopVars, collVars, rc>>,
               \/ from \in BeforeLoop /\ to \in BeforeLoop
               \/ from \in InStage /\ to \in InStage
               \/ /\ from \in AfterLoop \ {"exit"} /\ to \in AfterLoop
                  /\ from = "finalize" => to = "exit"
        PROVE  Advance
    <3>1. from # "exit" BY <2>1 DEF BeforeLoop, InStage
    <3> QED BY <2>1, <3>1, Move
  <2>2. ASSUME NEW from, NEW to, PostHalo(r, from, to) \/ (WaitHalo(r, from, to) /\ UNCHANGED loopVars)
        PROVE  Goto(r, from, to) /\ UNCHANGED <<loopVars, collVars, rc>>
    BY <2>2 DEF PostHalo, WaitHalo
  <2>3. CASE Load(r) BY <2>1, <2>3 DEF Load, BeforeLoop
  <2>4. CASE LoadFails(r)
    <3>1. pc[r] \notin Collective BY <2>4 DEF LoadFails, Goto, Collective
    <3> QED BY <2>4, <3>1, OutsideIsOut, Gone DEF LoadFails
  <2>5. CASE FinishInit(r) BY <2>1, <2>2, <2>5 DEF FinishInit, BeforeLoop
  <2>6. CASE LoadRestart(r)
    <3>1. CASE Scatter(r) BY <2>1, <3>1 DEF Scatter, BeforeLoop
    <3> QED BY <2>1, <2>2, <2>6, <3>1 DEF LoadRestart, BeforeLoop
  <2>7. CASE OpenResidue(r) BY <2>1, <2>7 DEF OpenResidue, BeforeLoop
  <2>8. CASE Blend(r) BY <2>1, <2>8 DEF Blend, InStage
  <2>9. CASE SendPlane(r) BY <2>1, <2>9 DEF SendPlane, AfterLoop
  <2>10. CASE SendReturns(r) BY <2>1, <2>10 DEF SendReturns, AfterLoop
  <2>11. CASE RecvPlane(r) BY <2>11, Stutter DEF RecvPlane
  <2>12. CASE NextPlane(r) BY <2>12, Stutter DEF NextPlane
  <2>13. CASE WriteSolution(r) BY <2>1, <2>13 DEF WriteSolution, AfterLoop
  <2>14. CASE WriteVtk(r) BY <2>1, <2>14 DEF WriteVtk, AfterLoop
  <2>15. CASE Finalize(r) BY <2>1, <2>15 DEF Finalize, AfterLoop
  <2> QED
    BY <1>6, <2>3, <2>4, <2>5, <2>6, <2>7, <2>8, <2>9, <2>10, <2>11, <2>12, <2>13, <2>14,
       <2>15, LeaveLoopStep, BeginIterationStep, EndStageStep, LoopStep DEF Rank
<1> QED BY <1>2, <1>3, <1>5, <1>6 DEF Next

LEMMA InvStep ==
    ASSUME IInv, [Next]_vars
    PROVE  IInv'
BY Step DEF Advance, IInv

(* The inductive invariant of the collectives: what the other theorems about  *)
(* the loops rest on.                                                         *)
THEOREM Invariance == Spec => []IInv
BY InvInit, InvStep, PTL DEF Spec

(* Every variable keeps its type: in particular the number of iterations      *)
(* never exceeds max_iters, nor the stage the number of stages.               *)
THEOREM TypeCorrect == Spec => []TypeOK
BY Invariance, PTL DEF IInv

(* All ranks that have not thrown agree, at every moment, on the next         *)
(* collective and on everything run will bring to it.                         *)
THEOREM LockstepAlways == Spec => []Lockstep
BY Invariance, PTL DEF IInv

------------------------------------------------------------------------------
(* How a rank's own variables relate to its view.                             *)

LEMMA ViewFields ==
    ASSUME NEW p, NEW n, NEW s, NEW t, NEW d, NEW q, NEW z
    PROVE  /\ Rec(p, n, s, t, d, q, z).pc = p /\ Rec(p, n, s, t, d, q, z).iter = n
           /\ Rec(p, n, s, t, d, q, z).stage = s /\ Rec(p, n, s, t, d, q, z).time = t
           /\ Rec(p, n, s, t, d, q, z).dt = d /\ Rec(p, n, s, t, d, q, z).dtp = q
           /\ Rec(p, n, s, t, d, q, z).res = z
BY DEF Rec

\* Having arrived at its next collective, a rank is in the same iteration or
\* has begun the next one, and then with the previous step added to its time.
LEMMA ArrivedFields ==
    ASSUME NEW p \in BeforeLoop \cup InStage \cup Collective \cup AfterLoop,
           NEW n, NEW s, NEW t, NEW d, NEW q, NEW z, NEW a,
           a = Arrived(Rec(p, n, s, t, d, q, z))
    PROVE  /\ a.dt = d /\ a.dtp = q
           /\ \/ a.iter = n /\ a.time = t
              \/ a.iter = n + 1 /\ a.time = t + q
           /\ a.pc = "end" => /\ a.iter = n /\ a.time = t
                              /\ p \in AfterLoop \/ (p \in BeforeLoop /\ Stops(n, t))
           /\ p \in AfterLoop => a.pc = "end"
<1>1. CASE p \in BeforeLoop /\ Stops(n, t)
  <2>1. a = Rec("end", n, 0, t, d, q, z) BY <1>1, ArrivedIs
  <2> QED BY <1>1, <2>1, ViewFields
<1>2. CASE p \in BeforeLoop /\ ~ Stops(n, t)
  <2>1. a = Rec("dt", n + 1, 1, t + q, d, q, z) BY <1>2, ArrivedIs
  <2> QED BY <1>2, <2>1, ViewFields DEF BeforeLoop, AfterLoop
<1>3. CASE p \in InStage /\ GlobalEmax /\ s < NStages
  <2>1. a = Rec("emax", n, s + 1, t, d, q, z) BY <1>3, ArrivedIs
  <2> QED BY <1>3, <2>1, ViewFields DEF InStage, AfterLoop
<1>4. CASE p \in InStage /\ ~ (GlobalEmax /\ s < NStages)
  <2>1. a = Rec("rn", n, NStages, t, d, q, z) BY <1>4, ArrivedIs
  <2> QED BY <1>4, <2>1, ViewFields DEF InStage, AfterLoop
<1>5. CASE p \in Collective
  <2>1. a = Rec(p, n, s, t, d, q, z) BY <1>5, ArrivedIs
  <2> QED BY <1>5, <2>1, ViewFields DEF Collective, AfterLoop
<1>6. CASE p \in AfterLoop
  <2>1. a = Rec("end", n, 0, t, d, q, z) BY <1>6, ArrivedIs
  <2> QED BY <1>6, <2>1, ViewFields
<1> QED BY <1>1, <1>2, <1>3, <1>4, <1>5, <1>6

LEMMA ViewRelation ==
    ASSUME TypeOK, Agreement, NEW r \in Ranks
    PROVE  /\ pc[r] # "dt" => View(r).dt = dt[r]
           /\ View(r).dtp \in Nat
           /\ \/ View(r).iter = iter[r] /\ View(r).time = time[r]
              \/ View(r).iter = iter[r] + 1 /\ View(r).time = time[r] + View(r).dtp
           /\ View(r).pc = "end" =>
                /\ View(r).iter = iter[r] /\ View(r).time = time[r]
                /\ \/ pc[r] \in AfterLoop
                   \/ pc[r] \in BeforeLoop /\ Stops(iter[r], time[r])
                   \/ pc[r] \in {"lv", "loc"} /\ cs[r] = "go"
           /\ pc[r] \in AfterLoop => View(r).pc = "end"
<1> DEFINE n == iter[r]  s == stage[r]  t == time[r]  d == dt[r]  q == dtp[r]  z == res[r]
<1> DEFINE Points == BeforeLoop \cup InStage \cup Collective \cup AfterLoop
<1>3. pc[r] \in Points /\ d \in Nat /\ q \in Nat BY TypeFacts
<1>1. CASE cs[r] # "go"
  <2>1. View(r) = Arrived(Rec(pc[r], n, s, t, d, q, z)) BY <1>1, ViewIs
  <2> QED BY <1>3, <1>1, <2>1, ArrivedFields
<1>2. CASE cs[r] = "go"
  <2>1. pc[r] \in Collective /\ View(r) = Arrived(Released(Rec(pc[r], n, s, t, d, q, z), red))
    BY <1>2, ViewIs DEF Agreement
  <2> DEFINE out == IF n > 1 /\ z = 0 THEN "gather" ELSE "loop"
  <2>2. /\ FluxPoint \in Points /\ "blend" \in Points /\ "lv" \in Points
        /\ "loc" \in Points /\ out \in Points /\ FluxPoint \notin AfterLoop \cup BeforeLoop
        /\ "blend" \notin AfterLoop \cup BeforeLoop /\ "lv" \notin AfterLoop \cup BeforeLoop
        /\ "loc" \notin AfterLoop \cup BeforeLoop
    BY DEF FluxPoint, BeforeLoop, InStage, Collective, AfterLoop
  <2>3. pc[r] \notin AfterLoop BY <2>1 DEF Collective, AfterLoop
  <2> HIDE DEF n, s, t, d, q, z, Points, out
  <2>4. CASE pc[r] = "dt"
    <3>1. View(r) = Arrived(Rec(FluxPoint, n, s, t, red, q, z)) BY <2>1, <2>4, ReleasedIs
    <3> QED BY <2>2, <2>3, <2>4, <3>1, <1>3, ArrivedFields DEF n, t, d, Points
  <2>5. CASE pc[r] = "emax"
    <3>1. View(r) = Arrived(Rec("blend", n, s, t, d, q, z)) BY <2>1, <2>5, ReleasedIs
    <3> QED BY <2>2, <2>3, <3>1, <1>3, ArrivedFields DEF n, t, d, Points
  <2>6. CASE pc[r] = "rn"
    <3>1. View(r) = Arrived(Rec("lv", n, s, t, d, q, red)) BY <2>1, <2>6, ReleasedIs
    <3> QED BY <2>2, <2>3, <3>1, <1>3, ArrivedFields DEF n, t, d, Points
  <2>7. CASE pc[r] = "lv" /\ red > 0
    <3>1. View(r) = Arrived(Rec("loc", n, s, t, d, q, z)) BY <2>1, <2>7, ReleasedIs
    <3> QED BY <2>2, <2>3, <3>1, <1>3, ArrivedFields DEF n, t, d, Points
  <2>8. CASE pc[r] = "loc" \/ (pc[r] = "lv" /\ ~ red > 0)
    <3>1. View(r) = Arrived(Rec(out, n, s, t, d, d, z)) BY <2>1, <2>8, ReleasedIs DEF out
    <3> QED BY <1>2, <2>2, <2>3, <2>8, <3>1, <1>3, ArrivedFields DEF n, t, d, Points
  <2> QED BY <2>1, <2>4, <2>5, <2>6, <2>7, <2>8 DEF Collective
<1> QED BY <1>1, <1>2

\* Two ranks in a collective, or both released from it.
LEMMA InvCollectivesMatch == IInv => CollectivesMatch
<1> SUFFICES ASSUME IInv, NEW r \in Ranks, NEW s \in Ranks, cs[r] = cs[s], cs[r] # "out"
             PROVE  pc[r] = pc[s] /\ iter[r] = iter[s] /\ stage[r] = stage[s]
  BY DEF CollectivesMatch
<1>1. TypeOK /\ Agreement /\ Lockstep BY DEF IInv
<1>2. Local(r) = Local(s)
  <2>1. CASE cs[r] = "go" BY <1>1, <2>1 DEF Agreement
  <2>2. CASE cs[r] = "in"
    <3>1. ASSUME NEW u \in Ranks, cs[u] = "in" PROVE rc[u] = 0 /\ View(u) = Local(u)
      <4>1. pc[u] \in Collective BY <1>1, <3>1 DEF Agreement
      <4>2. View(u) = Rec(pc[u], iter[u], stage[u], time[u], dt[u], dtp[u], res[u])
        BY <3>1, <4>1, ViewIs, ArrivedIs
      <4>3. rc[u] # 1 BY <1>1, <4>1 DEF Agreement, Collective
      <4> QED BY <1>1, <4>2, <4>3, TypeFacts DEF Local, Rec
    <3> QED BY <1>1, <2>2, <3>1 DEF Lockstep
  <2> QED BY <1>1, <2>1, <2>2, TypeFacts
<1>3. /\ Local(r).pc = Local(s).pc /\ Local(r).iter = Local(s).iter
      /\ Local(r).stage = Local(s).stage
  BY <1>2
<1> QED BY <1>3 DEF Local

LEMMA InvStopTogether == IInv => StopTogether
<1> SUFFICES ASSUME IInv, NEW r \in Ranks, NEW s \in Ranks,
                    rc[r] = 0, rc[s] = 0, pc[r] \in AfterLoop
             PROVE  /\ iter[s] = iter[r] /\ time[s] = time[r]
                    /\ \/ pc[s] \in AfterLoop
                       \/ pc[s] \in BeforeLoop /\ Stops(iter[s], time[s])
                       \/ pc[s] \in {"lv", "loc"} /\ cs[s] = "go"
  BY DEF StopTogether
<1>1. TypeOK /\ Agreement /\ View(r) = View(s) BY DEF IInv, Lockstep
<1>2. View(r).pc = "end" BY <1>1, ViewRelation
<1> QED BY <1>1, <1>2, ViewRelation

LEMMA InvSameStep == IInv => SameStep
<1> SUFFICES ASSUME IInv, NEW r \in Ranks, NEW s \in Ranks,
                    rc[r] = 0, rc[s] = 0, iter[r] = iter[s]
             PROVE  /\ time[r] = time[s]
                    /\ pc[r] # "dt" /\ pc[s] # "dt" => dt[r] = dt[s]
  BY DEF SameStep
<1>1. TypeOK /\ Agreement /\ View(r) = View(s) BY DEF IInv, Lockstep
<1>2. pc[r] # "dt" /\ pc[s] # "dt" => dt[r] = dt[s] BY <1>1, ViewRelation
<1>3. iter[r] \in Nat /\ time[r] \in Nat /\ time[s] \in Nat BY <1>1, TypeFacts
<1> DEFINE V == View(r)
<1>4. /\ (V.iter = iter[r] /\ V.time = time[r])
           \/ (V.iter = iter[r] + 1 /\ V.time = time[r] + V.dtp)
      /\ V.dtp \in Nat
  BY <1>1, ViewRelation
<1>6. \/ V.iter = iter[s] /\ V.time = time[s]
      \/ V.iter = iter[s] + 1 /\ V.time = time[s] + V.dtp
  <2>1. \/ View(s).iter = iter[s] /\ View(s).time = time[s]
        \/ View(s).iter = iter[s] + 1 /\ View(s).time = time[s] + View(s).dtp
    BY <1>1, ViewRelation
  <2> QED BY <1>1, <2>1
<1> HIDE DEF V
<1>5. time[r] = time[s] BY <1>3, <1>4, <1>6
<1> QED BY <1>2, <1>5

(* MPI matches reductions by order alone; the ranks always agree on which one *)
(* they are in.                                                               *)
THEOREM CollectivesMatchAlways == Spec => []CollectivesMatch
BY Invariance, InvCollectivesMatch, PTL

(* The ranks leave the time loop after the same iteration, at the same time.  *)
THEOREM StopTogetherAlways == Spec => []StopTogether
BY Invariance, InvStopTogether, PTL

(* Ranks in the same iteration have the same time_ and the same time step.    *)
THEOREM SameStepAlways == Spec => []SameStep
BY Invariance, InvSameStep, PTL

------------------------------------------------------------------------------
(* The ranks together implement TimeMarch.                                    *)

LEMMA DecidedIs ==
    ASSUME Lockstep, NEW r \in Ranks, rc[r] = 0
    PROVE  Alive # {} /\ Decided = View(r)
<1>1. r \in Alive BY DEF Alive
<1>2. \A v \in {View(s) : s \in Alive} : v = View(r) BY DEF Lockstep, Alive
<1>3. Decided \in {View(s) : s \in Alive} BY <1>1 DEF Decided
<1> QED BY <1>1, <1>2, <1>3

LEMMA NextDecidedIs ==
    ASSUME Lockstep', NEW r \in Ranks, rc'[r] = 0
    PROVE  Alive' # {} /\ Decided' = View(r)'
<1>1. r \in Alive' BY DEF Alive
<1>2. \A v \in {View(s)' : s \in Alive'} : v = View(r)' BY DEF Lockstep, Alive
<1>3. Decided' \in {View(s)' : s \in Alive'} BY <1>1 DEF Decided
<1> QED BY <1>1, <1>2, <1>3

LEMMA RefinesInit == Init => TM!Init
<1> SUFFICES ASSUME Init PROVE TM!Init
  OBVIOUS
<1>1. IInv BY InvInit
<1>2. 0 \in Ranks BY WorldAssumption DEF Ranks
<1>3. rc[0] = 0 /\ cs[0] = "out" /\ pc[0] = "start" BY <1>2 DEF Init
<1>4. iter[0] = 0 /\ stage[0] = 0 /\ time[0] = 0 /\ dt[0] = 0 /\ dtp[0] = 0 /\ res[0] = 0
  BY <1>2 DEF Init
<1>5. View(0) = Arrived(Rec("start", 0, 0, 0, 0, 0, 0)) BY <1>3, <1>4, ViewIs
<1>6. Alive # {} /\ Decided = View(0) BY <1>1, <1>2, <1>3, DecidedIs DEF IInv
<1>7. CASE Stops(0, 0)
  <2>1. Decided = Rec("end", 0, 0, 0, 0, 0, 0) BY <1>5, <1>6, <1>7, ArrivedIs DEF BeforeLoop
  <2>2. phaseBar = "done" /\ iterBar = 0 /\ timeBar = 0 /\ dtBar = 0
    BY <1>6, <2>1, ViewFields DEF phaseBar, iterBar, timeBar, dtBar
  <2> QED BY <1>7, <2>2 DEF TM!Init, TM!Stops, Stops
<1>8. CASE ~ Stops(0, 0)
  <2>1. Decided = Rec("dt", 1, 1, 0, 0, 0, 0) BY <1>5, <1>6, <1>8, ArrivedIs DEF BeforeLoop
  <2>2. phaseBar = "dt" /\ iterBar = 1 /\ timeBar = 0 /\ dtBar = 0
    BY <1>6, <2>1, ViewFields DEF phaseBar, iterBar, timeBar, dtBar
  <2> QED BY <1>8, <2>2 DEF TM!Init, TM!Stops, Stops
<1> QED BY <1>7, <1>8

\* What a decision p, n, t, d looks like to TimeMarch.
LEMMA BarIs ==
    ASSUME NEW p, NEW n, NEW s, NEW t, NEW d, NEW q, NEW z,
           Alive # {}, Decided = Rec(p, n, s, t, d, q, z)
    PROVE  /\ iterBar = n /\ timeBar = t /\ dtBar = d
           /\ p = "dt" => phaseBar = "dt"
           /\ p = "end" => phaseBar = "done"
           /\ p \notin {"dt", "end"} => phaseBar = "stages"
BY ViewFields DEF phaseBar, iterBar, timeBar, dtBar

LEMMA NextBarIs ==
    ASSUME NEW p, NEW n, NEW s, NEW t, NEW d, NEW q, NEW z,
           Alive' # {}, Decided' = Rec(p, n, s, t, d, q, z)
    PROVE  /\ iterBar' = n /\ timeBar' = t /\ dtBar' = d
           /\ p = "dt" => phaseBar' = "dt"
           /\ p = "end" => phaseBar' = "done"
           /\ p \notin {"dt", "end"} => phaseBar' = "stages"
BY ViewFields DEF phaseBar, iterBar, timeBar, dtBar

LEMMA ReducedRefines ==
    ASSUME IInv, IInv', Reduced
    PROVE  [TM!Next]_(TM!tvars)
<1>1. 0 \in Ranks BY WorldAssumption DEF Ranks
<1>2. PICK kind \in Collective :
        /\ red' \in Offer(kind)
        /\ pc[0] = kind /\ rc[0] = 0 /\ rc'[0] = 0
        /\ View(0) = Local(0) /\ View(0)' = Arrived(Released(Local(0), red'))
  BY <1>1 DEF Reduced
<1> DEFINE n == iter[0]  s == stage[0]  t == time[0]  d == dt[0]  q == dtp[0]  z == res[0]
<1>3. Local(0) = Rec(kind, n, s, t, d, q, z) BY <1>2 DEF Local, Rec
<1>4. Alive # {} /\ Decided = Rec(kind, n, s, t, d, q, z)
  BY <1>1, <1>2, <1>3, DecidedIs DEF IInv
<1>5. Alive' # {} /\ Decided' = Arrived(Released(Rec(kind, n, s, t, d, q, z), red'))
  BY <1>1, <1>2, <1>3, NextDecidedIs DEF IInv
<1> HIDE DEF n, s, t, d, q, z
<1>6. kind # "end" BY DEF Collective
<1>7. iterBar = n /\ timeBar = t /\ dtBar = d
      /\ phaseBar = IF kind = "dt" THEN "dt" ELSE "stages"
  BY <1>4, <1>6, BarIs
\* Inside the stages nothing is decided that TimeMarch can see.
<1>8. ASSUME NEW p, NEW u, NEW e, NEW y, p \notin {"dt", "end"}, kind # "dt",
             Decided' = Rec(p, n, u, t, d, e, y)
      PROVE  UNCHANGED TM!tvars
  <2>1. iterBar' = n /\ timeBar' = t /\ dtBar' = d /\ phaseBar' = "stages"
    BY <1>5, <1>8, NextBarIs
  <2> QED BY <1>7, <1>8, <2>1 DEF TM!tvars
<1>9. ASSUME NEW p \in InStage, NEW e, NEW y
      PROVE  \E pp \in {"emax", "rn"} : \E u :
                Arrived(Rec(p, n, s, t, e, q, y)) = Rec(pp, n, u, t, e, q, y)
  BY ArrivedIs
<1>10. CASE kind = "dt"
  <2>1. Decided' = Arrived(Rec(FluxPoint, n, s, t, red', q, z)) BY <1>5, <1>10, ReleasedIs
  <2>2. \E pp \in {"emax", "rn"} : \E u : Decided' = Rec(pp, n, u, t, red', q, z)
    <3>1. CASE GlobalEmax
      BY <2>1, <3>1, ArrivedIs DEF FluxPoint, Collective
    <3>2. CASE ~ GlobalEmax
      BY <1>9, <2>1, <3>2 DEF FluxPoint, InStage
    <3> QED BY <3>1, <3>2
  <2>3. iterBar' = n /\ timeBar' = t /\ dtBar' = red' /\ phaseBar' = "stages"
    BY <1>5, <2>2, NextBarIs
  <2>4. red' \in Dts BY <1>2, <1>10 DEF Offer
  <2>5. TM!TimeStep BY <1>7, <1>10, <2>3, <2>4 DEF TM!TimeStep
  <2> QED BY <2>5 DEF TM!Next
<1>11. CASE kind = "emax"
  <2>1. Decided' = Arrived(Rec("blend", n, s, t, d, q, z)) BY <1>5, <1>11, ReleasedIs
  <2> QED BY <1>8, <1>9, <1>11, <2>1 DEF InStage
<1>12. CASE kind = "rn"
  <2>1. Decided' = Rec("lv", n, s, t, d, q, red')
    BY <1>5, <1>12, ReleasedIs, ArrivedIs DEF Collective
  <2> QED BY <1>8, <1>12, <2>1
<1>13. CASE kind = "lv" /\ red' > 0
  <2>1. Decided' = Rec("loc", n, s, t, d, q, z)
    BY <1>5, <1>13, ReleasedIs, ArrivedIs DEF Collective
  <2> QED BY <1>8, <1>13, <2>1
<1>14. CASE kind = "loc" \/ (kind = "lv" /\ ~ red' > 0)
  <2> DEFINE out == IF n > 1 /\ z = 0 THEN "gather" ELSE "loop"
  <2>1. Decided' = Arrived(Rec(out, n, s, t, d, d, z)) BY <1>5, <1>14, ReleasedIs
  <2>2. CASE n > 1 /\ z = 0
    <3>1. Decided' = Rec("end", n, 0, t, d, d, z) BY <2>1, <2>2, ArrivedIs DEF AfterLoop
    <3>2. iterBar' = n /\ timeBar' = t /\ dtBar' = d /\ phaseBar' = "done"
      BY <1>5, <3>1, NextBarIs
    <3>3. TM!Converge BY <1>7, <1>14, <2>2, <3>2 DEF TM!Converge
    <3> QED BY <3>3 DEF TM!Next
  <2>3. CASE ~ (n > 1 /\ z = 0) /\ Stops(n, t)
    <3>1. Decided' = Rec("end", n, 0, t, d, d, z) BY <2>1, <2>3, ArrivedIs DEF BeforeLoop
    <3>2. iterBar' = n /\ timeBar' = t /\ dtBar' = d /\ phaseBar' = "done"
      BY <1>5, <3>1, NextBarIs
    <3>3. TM!LeaveLoop BY <1>7, <1>14, <2>3, <3>2 DEF TM!LeaveLoop, TM!Stops, Stops
    <3> QED BY <3>3 DEF TM!Next
  <2>4. CASE ~ (n > 1 /\ z = 0) /\ ~ Stops(n, t)
    <3>1. Decided' = Rec("dt", n + 1, 1, t + d, d, d, z) BY <2>1, <2>4, ArrivedIs DEF BeforeLoop
    <3>2. iterBar' = n + 1 /\ timeBar' = t + d /\ dtBar' = d /\ phaseBar' = "dt"
      BY <1>5, <3>1, NextBarIs
    <3>3. TM!NextIteration
      BY <1>7, <1>14, <2>4, <3>2 DEF TM!NextIteration, TM!BeginIteration, TM!Stops, Stops
    <3> QED BY <3>3 DEF TM!Next
  <2> QED BY <2>2, <2>3, <2>4
<1> QED BY <1>10, <1>11, <1>12, <1>13, <1>14 DEF Collective

LEMMA RefinesStep ==
    ASSUME IInv, [Next]_vars
    PROVE  [TM!Next]_(TM!tvars)
<1>1. IInv' /\ (SameViews \/ Reduced) BY InvStep, Step DEF Advance
<1>2. CASE Reduced BY <1>1, <1>2, ReducedRefines
<1>3. CASE SameViews /\ Alive' = {}
  <2>1. phaseBar' = "aborted" /\ iterBar' = 0 /\ timeBar' = 0 /\ dtBar' = 0
    BY <1>3 DEF phaseBar, iterBar, timeBar, dtBar
  <2> QED BY <2>1 DEF TM!Next, TM!Abort
<1>4. CASE SameViews /\ Alive' # {}
  <2>1. PICK r \in Ranks : rc'[r] = 0 BY <1>4 DEF Alive
  <2>2. rc[r] = 0 /\ View(r)' = View(r) BY <1>4, <2>1 DEF SameViews
  <2>3. Alive # {} /\ Decided = View(r) BY <2>2, DecidedIs DEF IInv
  <2>4. Decided' = View(r)' BY <1>1, <2>1, NextDecidedIs DEF IInv
  <2>5. UNCHANGED <<phaseBar, iterBar, timeBar, dtBar>>
    BY <1>4, <2>2, <2>3, <2>4 DEF phaseBar, iterBar, timeBar, dtBar
  <2> QED BY <2>5 DEF TM!tvars
<1> QED BY <1>1, <1>2, <1>3, <1>4

(* Any number of ranks, in any order of arrival and with any failures, make   *)
(* exactly the decisions that one process makes in run: the same time steps,  *)
(* the same iterations, the same end.                                         *)
THEOREM MarchesAsOneAlways == Spec => MarchesAsOne
BY RefinesInit, RefinesStep, Invariance, PTL DEF Spec, MarchesAsOne, TM!Spec

------------------------------------------------------------------------------
(* What a step does to a rank's place in the run and to its versions.         *)

Kept(s) ==
    /\ iter'[s] = iter[s] /\ stage'[s] = stage[s] /\ ver'[s] = ver[s]
    /\ posted'[s] = posted[s]

\* A rank that enters an exchange, comes back from one, updates its rows, begins
\* an iteration, throws, or only moves on.
EntersExchange(r) ==
    /\ <<pc[r], pc'[r]>> \in {<<"post0", "wait0">>, <<"post1", "wait1">>,
                              <<"post2", "wait2">>, <<"posts", "waits">>}
    /\ posted'[r] = Append(posted[r], ver[r]) /\ ghost'[r] = ghost[r]
    /\ iter'[r] = iter[r] /\ stage'[r] = stage[r] /\ ver'[r] = ver[r] /\ rc'[r] = rc[r]

LeavesExchange(r) ==
    /\ \/ pc[r] = "wait0" /\ pc'[r] = "post1" /\ stage'[r] = stage[r]
       \/ /\ pc[r] = "wait1" /\ stage'[r] = stage[r]
          /\ pc'[r] = IF Restart THEN "scatter" ELSE "residue"
       \/ pc[r] = "wait2" /\ pc'[r] = "residue" /\ stage'[r] = stage[r]
       \/ /\ pc[r] = "waits" /\ pc'[r] = FluxPoint
          /\ stage[r] < NStages /\ stage'[r] = stage[r] + 1
       \/ pc[r] = "waits" /\ pc'[r] = "rn" /\ stage[r] = NStages /\ stage'[r] = stage[r]
    /\ \A n \in Neighbours(r) : Len(posted[n]) >= Len(posted[r])
    /\ ghost'[r] = [n \in Neighbours(r) |-> posted[n][Len(posted[r])]]
    /\ iter'[r] = iter[r] /\ ver'[r] = ver[r] /\ posted'[r] = posted[r] /\ rc'[r] = rc[r]

UpdatesRows(r) ==
    /\ <<pc[r], pc'[r]>> \in {<<"scatter", "post2">>, <<"blend", "posts">>}
    /\ ver'[r] = ver[r] + 1 /\ ghost'[r] = ghost[r]
    /\ iter'[r] = iter[r] /\ stage'[r] = stage[r] /\ posted'[r] = posted[r] /\ rc'[r] = rc[r]

BeginsIteration(r) ==
    /\ pc[r] = "loop" /\ pc'[r] = "dt" /\ ghost'[r] = ghost[r]
    /\ iter'[r] = iter[r] + 1 /\ stage'[r] = 1
    /\ ver'[r] = ver[r] /\ posted'[r] = posted[r] /\ rc'[r] = rc[r]

ThrowsAt(r) ==
    /\ Kept(r) /\ ghost'[r] = ghost[r] /\ gk'[r] = gk[r]
    /\ pc'[r] = "finalize" /\ rc'[r] = 1
    /\ \/ pc[r] \in {"start", "scatter", "residue", "blend", "vtk"}
       \/ pc[r] = "dt" /\ cs[r] = "out"
       \/ pc[r] = "gather" /\ r = root /\ gk[r] = NPlanes

MovesOn(r) ==
    /\ Kept(r) /\ ghost'[r] = ghost[r] /\ rc'[r] = rc[r]
    /\ \/ pc'[r] = pc[r]
       \/ pc[r] = "start" /\ pc'[r] = "post0"
       \/ pc[r] = "residue" /\ pc'[r] = "loop"
       \/ pc[r] = "loop" /\ pc'[r] = "gather"
       \/ pc[r] = "dt" /\ pc'[r] = FluxPoint
       \/ pc[r] = "emax" /\ pc'[r] = "blend"
       \/ pc[r] = "rn" /\ pc'[r] = "lv"
       \/ pc[r] = "lv" /\ pc'[r] = "loc"
       \/ pc[r] \in {"lv", "loc"} /\ pc'[r] \in {"gather", "loop"}
       \/ pc[r] \in AfterLoop /\ pc'[r] \in AfterLoop /\ (pc'[r] = "vtk" => r = root)

ActsAs(r) ==
    \/ EntersExchange(r) \/ LeavesExchange(r) \/ UpdatesRows(r)
    \/ BeginsIteration(r) \/ ThrowsAt(r) \/ MovesOn(r)

HasGhosts == ghost = [r \in Ranks |-> ghost[r]]

LEMMA StepShape ==
    ASSUME TypeOK, HasGhosts, NEW r \in Ranks, Rank(r) \/ Fails(r)
    PROVE  /\ ActsAs(r) /\ HasGhosts'
           /\ \A s \in Ranks \ {r} : /\ Kept(s) /\ pc'[s] = pc[s] /\ rc'[s] = rc[s]
                                     /\ ghost'[s] = ghost[s]
<1> DEFINE Rest == /\ HasGhosts'
                   /\ \A s \in Ranks \ {r} : /\ Kept(s) /\ pc'[s] = pc[s] /\ rc'[s] = rc[s]
                                             /\ ghost'[s] = ghost[s]
<1> USE DEF TypeOK, HasGhosts
<1>1. ASSUME NEW from, NEW to, Goto(r, from, to)
      PROVE  /\ pc[r] = from /\ pc'[r] = to
             /\ \A s \in Ranks \ {r} : pc'[s] = pc[s]
  BY <1>1 DEF Goto
<1>2. ASSUME UNCHANGED <<iter, stage, ver, posted, ghost>>, NEW from, NEW to, Goto(r, from, to),
             rc' = rc \/ rc' = [rc EXCEPT ![r] = 1]
      PROVE  Rest /\ Kept(r) /\ ghost'[r] = ghost[r]
  BY <1>1, <1>2 DEF Kept
<1>3. ASSUME NEW from, NEW to, PostHalo(r, from, to),
             <<from, to>> \in {<<"post0", "wait0">>, <<"post1", "wait1">>,
                               <<"post2", "wait2">>, <<"posts", "waits">>}
      PROVE  Rest /\ EntersExchange(r)
  BY <1>1, <1>3 DEF PostHalo, EntersExchange, Kept, loopVars
<1>4. ASSUME NEW from, NEW to, WaitHalo(r, from, to), UNCHANGED iter,
             \/ UNCHANGED stage
             \/ stage' = [stage EXCEPT ![r] = @ + 1]
      PROVE  /\ Rest /\ pc[r] = from /\ pc'[r] = to
             /\ \A n \in Neighbours(r) : Len(posted[n]) >= Len(posted[r])
             /\ ghost'[r] = [n \in Neighbours(r) |-> posted[n][Len(posted[r])]]
             /\ iter'[r] = iter[r] /\ ver'[r] = ver[r] /\ posted'[r] = posted[r]
             /\ rc'[r] = rc[r]
  BY <1>1, <1>4 DEF WaitHalo, Kept
<1>5. ASSUME NEW from, NEW point, Throw(r, from, point),
             \/ from \in {"start", "scatter", "residue", "blend", "vtk"}
             \/ from = "dt" /\ cs[r] = "out"
             \/ from = "gather" /\ r = root /\ gk[r] = NPlanes
      PROVE  Rest /\ ThrowsAt(r)
  <2>1. Rest /\ Kept(r) /\ ghost'[r] = ghost[r]
    BY <1>2, <1>5 DEF Throw, loopVars, haloVars
  <2>2. gk'[r] = gk[r] /\ rc'[r] = 1 /\ pc[r] = from /\ pc'[r] = "finalize"
    BY <1>1, <1>5 DEF Throw, outVars
  <2> QED BY <1>5, <2>1, <2>2 DEF ThrowsAt
<1>6. ASSUME NEW kind, NEW value, Enter(r, kind, value)
      PROVE  Rest /\ MovesOn(r)
  BY <1>6 DEF Enter, MovesOn, Kept, loopVars, haloVars
<1>7. ASSUME NEW kind, NEW to, Leave(r, kind), Goto(r, kind, to), UNCHANGED <<iter, stage>>,
             \/ kind = "dt" /\ to = FluxPoint
             \/ kind = "emax" /\ to = "blend"
             \/ kind = "rn" /\ to = "lv"
             \/ kind = "lv" /\ to = "loc"
             \/ kind \in {"lv", "loc"} /\ to \in {"gather", "loop"}
      PROVE  Rest /\ MovesOn(r)
  <2>1. Rest /\ Kept(r) /\ ghost'[r] = ghost[r] /\ rc' = rc
    BY <1>2, <1>7 DEF Leave, haloVars
  <2> QED BY <1>1, <1>7, <2>1 DEF MovesOn
<1>8. ASSUME Goto(r, "scatter", "post2") \/ Goto(r, "blend", "posts"),
             ver' = [ver EXCEPT ![r] = @ + 1],
             UNCHANGED <<loopVars, posted, ghost, rc>>
      PROVE  Rest /\ UpdatesRows(r)
  BY <1>1, <1>8 DEF UpdatesRows, Kept, loopVars
<1>9. ASSUME NEW from, NEW to, Goto(r, from, to), UNCHANGED <<loopVars, haloVars, rc>>,
             \/ from = "start" /\ to = "post0"
             \/ from = "residue" /\ to = "loop"
             \/ from = "loop" /\ to = "gather"
             \/ from \in AfterLoop /\ to \in AfterLoop /\ (to = "vtk" => r = root)
      PROVE  Rest /\ MovesOn(r)
  <2>1. Rest /\ Kept(r) /\ ghost'[r] = ghost[r] BY <1>2, <1>9 DEF loopVars, haloVars
  <2> QED BY <1>1, <1>9, <2>1 DEF MovesOn
<1>10. ASSUME UNCHANGED <<pc, loopVars, haloVars, rc>> PROVE Rest /\ MovesOn(r)
  BY <1>10 DEF MovesOn, Kept, loopVars, haloVars
<1> HIDE DEF Rest, TypeOK, HasGhosts
<1>11. CASE Fails(r)
  BY <1>5, <1>11 DEF Fails, ActsAs, Rest
<1>12. ASSUME Rank(r) PROVE Rest /\ ActsAs(r)
  <2>1. CASE Load(r) BY <1>9, <2>1 DEF Load, ActsAs
  <2>2. CASE LoadFails(r)
    <3>1. Rest /\ Kept(r) /\ ghost'[r] = ghost[r]
      BY <1>2, <2>2 DEF LoadFails, loopVars, haloVars
    <3>2. pc[r] = "start" /\ pc'[r] = "finalize" /\ rc'[r] = 1 /\ gk'[r] = gk[r]
      BY <1>1, <2>2 DEF LoadFails, TypeOK, outVars
    <3> QED BY <3>1, <3>2 DEF ActsAs, ThrowsAt
  <2>3. ASSUME NEW from, NEW to, WaitHalo(r, from, to), UNCHANGED loopVars,
               \/ from = "wait0" /\ to = "post1"
               \/ from = "wait1" /\ to = IF Restart THEN "scatter" ELSE "residue"
               \/ from = "wait2" /\ to = "residue"
               \/ from = "waits" /\ to = "rn" /\ stage[r] = NStages
        PROVE  Rest /\ LeavesExchange(r)
    BY <1>4, <2>3 DEF LeavesExchange, loopVars
  <2>4. CASE FinishInit(r) BY <1>3, <2>3, <2>4 DEF FinishInit, ActsAs
  <2>5. CASE LoadRestart(r)
    <3>1. ASSUME Scatter(r) PROVE Rest /\ UpdatesRows(r) BY <1>8, <3>1 DEF Scatter
    <3> QED BY <1>3, <2>3, <2>5, <3>1 DEF LoadRestart, ActsAs
  <2>6. CASE OpenResidue(r) BY <1>9, <2>6 DEF OpenResidue, ActsAs
  <2>7. CASE LeaveLoop(r) BY <1>9, <2>7 DEF LeaveLoop, ActsAs
  <2>8. CASE BeginIteration(r)
    <3>1. pc[r] = "loop" /\ pc'[r] = "dt" /\ \A s \in Ranks \ {r} : pc'[s] = pc[s]
      BY <1>1, <2>8 DEF BeginIteration
    <3>2. iter'[r] = iter[r] + 1 /\ stage'[r] = 1
      BY <2>8 DEF BeginIteration, TypeOK
    <3>4. \A s \in Ranks \ {r} : Kept(s) /\ rc'[s] = rc[s] /\ ghost'[s] = ghost[s]
      BY <2>8 DEF BeginIteration, Kept, haloVars, TypeOK
    <3>5. UNCHANGED <<haloVars, rc>> BY <2>8 DEF BeginIteration
    <3>6. HasGhosts' BY <3>5 DEF HasGhosts, haloVars
    <3> QED BY <3>1, <3>2, <3>4, <3>5, <3>6 DEF Rest, ActsAs, BeginsIteration, haloVars
  <2>9. CASE TimeStep(r) BY <1>6, <1>7, <2>9 DEF TimeStep, ActsAs
  <2>10. CASE Emax(r) BY <1>6, <1>7, <2>10 DEF Emax, ActsAs, loopVars
  <2>11. CASE Blend(r) BY <1>8, <2>11 DEF Blend, ActsAs
  <2>12. CASE EndStage(r)
    <3>1. ASSUME stage[r] < NStages, WaitHalo(r, "waits", FluxPoint),
                 stage' = [stage EXCEPT ![r] = @ + 1], UNCHANGED <<iter, time, dt, dtp, res>>
          PROVE  Rest /\ LeavesExchange(r)
      <4>1. stage'[r] = stage[r] + 1 BY <3>1 DEF TypeOK
      <4> QED BY <1>4, <3>1, <4>1 DEF LeavesExchange
    <3> QED BY <1>3, <2>3, <2>12, <3>1 DEF EndStage, ActsAs
  <2>13. CASE Residual(r) BY <1>6, <1>7, <2>13 DEF Residual, ActsAs
  <2>14. CASE Location(r)
    <3>1. ASSUME NEW kind \in {"lv", "loc"}, Leave(r, kind), EndIteration(r, kind)
          PROVE  Rest /\ MovesOn(r)
      <4> DEFINE to == IF iter[r] > 1 /\ res[r] = 0 THEN "gather" ELSE "loop"
      <4>1. Goto(r, kind, to) /\ UNCHANGED <<iter, stage>> BY <3>1 DEF EndIteration
      <4> QED BY <1>7, <3>1, <4>1
    <3> QED BY <1>6, <1>7, <2>14, <3>1 DEF Location, ActsAs, loopVars
  <2>15. CASE SendPlane(r) BY <1>9, <2>15 DEF SendPlane, ActsAs, AfterLoop
  <2>16. CASE SendReturns(r) BY <1>9, <2>16 DEF SendReturns, ActsAs, AfterLoop
  <2>17. CASE RecvPlane(r) \/ NextPlane(r) BY <1>10, <2>17 DEF RecvPlane, NextPlane, ActsAs
  <2>18. CASE WriteSolution(r)
    <3>1. UNCHANGED <<loopVars, haloVars, rc>> BY <2>18 DEF WriteSolution
    <3> DEFINE to == IF r = root THEN "vtk" ELSE "finalize"
    <3>2. Goto(r, "gather", to) BY <2>18 DEF WriteSolution
    <3>3. to \in AfterLoop /\ "gather" \in AfterLoop /\ (to = "vtk" => r = root)
      BY DEF AfterLoop
    <3> QED BY <1>9, <3>1, <3>2, <3>3 DEF ActsAs
  <2>19. CASE WriteVtk(r) BY <1>9, <2>19 DEF WriteVtk, ActsAs, AfterLoop
  <2>20. CASE Finalize(r) BY <1>9, <2>20 DEF Finalize, ActsAs, AfterLoop
  <2> QED
    BY <1>12, <2>1, <2>2, <2>4, <2>5, <2>6, <2>7, <2>8, <2>9, <2>10, <2>11, <2>12, <2>13,
       <2>14, <2>15, <2>16, <2>17, <2>18, <2>19, <2>20 DEF Rank
<1> QED BY <1>11, <1>12 DEF Rest

\* One more iteration is as many updates more as there are stages.
LEMMA StagesOfOneMore == \A n \in Nat : n * NStages = (n - 1) * NStages + NStages
<1>1. NStages \in {1, 2, 3} BY MarchAssumption
<1> QED BY <1>1

LEMMA PlacesApart ==
    /\ FluxPoint \in {"emax", "blend"}
    /\ \A p \in {"emax", "blend", "dt", "rn", "lv", "loc"} : p \notin BeforeLoop \cup AfterLoop
    /\ \A p \in AfterLoop : p \notin BeforeLoop \cup InStage \cup Collective
BY DEF FluxPoint, BeforeLoop, AfterLoop, InStage, Collective

------------------------------------------------------------------------------
(* The versions in the ghost rows.  No exchange names its number: that what   *)
(* a rank receives in its e-th is what it would send in it follows from every *)
(* rank's sending the same versions in the same order.                        *)

\* The version of the rows that any rank sends in its e-th exchange: the two of
\* finish_init send the initial state, every later one follows an update.
VerAt(e) == IF e <= 2 THEN 0 ELSE e - 2

\* Exchanges k entered and updates v made by a rank at place p of the program.
Counts(p, k, v) ==
    /\ p \in {"start", "post0"} => k = 0 /\ v = 0
    /\ p \in {"wait0", "post1"} => k = 1 /\ v = 0
    /\ p \in {"wait1", "scatter"} => k = 2 /\ v = 0
    /\ p \in {"post2", "posts"} => k >= 2 /\ v = k - 1
    /\ p \in {"wait2", "waits", "residue", "loop", "blend", "dt", "emax", "rn", "lv", "loc"} =>
          k >= 2 /\ v = k - 2

Computes == Collective \cup {"residue", "loop", "blend"}

HaloInv ==
    /\ HasGhosts
    /\ \A r \in Ranks :
        /\ \A e \in 1 .. Len(posted[r]) : posted[r][e] = VerAt(e)
        /\ Counts(pc[r], Len(posted[r]), ver[r])
        /\ pc[r] \in Computes => \A n \in Neighbours(r) : ghost[r][n] = ver[r]

LEMMA HaloInit == Init => HaloInv
<1> SUFFICES ASSUME Init PROVE HaloInv
  OBVIOUS
<1>1. HasGhosts BY DEF Init, HasGhosts
<1>2. \A r \in Ranks : pc[r] = "start" /\ posted[r] = << >> /\ ver[r] = 0 BY DEF Init
<1> QED BY <1>1, <1>2 DEF HaloInv, Counts, Computes, Collective

LEMMA HaloStep ==
    ASSUME TypeOK, HaloInv, [Next]_vars
    PROVE  HaloInv'
<1>1. CASE UNCHANGED vars
  BY <1>1 DEF vars, haloVars, HaloInv, HasGhosts, VerAt
<1>2. ASSUME NEW r \in Ranks, Rank(r) \/ Fails(r)
      PROVE  HaloInv'
  <2> DEFINE Mine(s) ==
        /\ \A e \in 1 .. Len(posted'[s]) : posted'[s][e] = VerAt(e)
        /\ Counts(pc'[s], Len(posted'[s]), ver'[s])
        /\ pc'[s] \in Computes => \A n \in Neighbours(s) : ghost'[s][n] = ver'[s]
  <2>1. HasGhosts BY DEF HaloInv
  <2>2. ActsAs(r) /\ HasGhosts' BY <1>2, <2>1, StepShape
  <2>3. \A s \in Ranks \ {r} : Mine(s)
    <3>1. ASSUME NEW s \in Ranks \ {r} PROVE Mine(s)
      <4>1. posted'[s] = posted[s] /\ ver'[s] = ver[s] /\ pc'[s] = pc[s] /\ ghost'[s] = ghost[s]
        BY <1>2, <2>1, StepShape DEF Kept
      <4> QED BY <4>1 DEF HaloInv
    <3> QED BY <3>1
  <2> DEFINE k == Len(posted[r])
  <2>4. posted[r] \in Seq(Nat) /\ k \in Nat /\ ver[r] \in Nat BY DEF TypeOK
  <2>5. /\ \A e \in 1 .. k : posted[r][e] = VerAt(e)
        /\ Counts(pc[r], k, ver[r])
        /\ pc[r] \in Computes => \A n \in Neighbours(r) : ghost[r][n] = ver[r]
    BY DEF HaloInv
  <2>6. Mine(r) => HaloInv' BY <2>2, <2>3 DEF HaloInv
  <2> HIDE DEF k, Mine
  <2>7. CASE EntersExchange(r)
    <3>1. /\ Len(posted'[r]) = k + 1
          /\ \A e \in 1 .. k : posted'[r][e] = posted[r][e]
          /\ posted'[r][k + 1] = ver[r]
      BY <2>4, <2>7 DEF EntersExchange, k
    <3>2. Counts(pc'[r], k + 1, ver[r]) /\ ver[r] = VerAt(k + 1) /\ pc'[r] \notin Computes
      BY <2>4, <2>5, <2>7 DEF EntersExchange, Counts, VerAt, Computes, Collective
    <3>3. \A e \in 1 .. k + 1 : posted'[r][e] = VerAt(e)
      <4>1. ASSUME NEW e \in 1 .. k + 1, e # k + 1 PROVE e \in 1 .. k
        BY <2>4, <4>1
      <4> QED BY <2>5, <3>1, <3>2, <4>1
    <3>4. ver'[r] = ver[r] BY <2>7 DEF EntersExchange
    <3> QED BY <2>6, <3>1, <3>2, <3>3, <3>4 DEF Mine
  <2>8. CASE LeavesExchange(r)
    <3>1. posted'[r] = posted[r] /\ ver'[r] = ver[r] BY <2>8 DEF LeavesExchange
    <3>2. Counts(pc'[r], k, ver[r]) /\ (pc'[r] \in Computes => k >= 2 /\ ver[r] = VerAt(k))
      BY <2>4, <2>5, <2>8, PlacesApart DEF LeavesExchange, Counts, VerAt, Computes, Collective
    <3>3. ASSUME NEW n \in Neighbours(r), k >= 2 PROVE ghost'[r][n] = VerAt(k)
      <4>1. n \in Ranks /\ Len(posted[n]) \in Nat BY DEF Neighbours, TypeOK
      <4>2. k \in 1 .. Len(posted[n]) BY <2>4, <2>8, <3>3, <4>1 DEF LeavesExchange, k
      <4> QED BY <2>8, <4>1, <4>2 DEF LeavesExchange, HaloInv, k
    <3> QED BY <2>5, <2>6, <3>1, <3>2, <3>3 DEF Mine, k
  <2>9. CASE UpdatesRows(r)
    <3>1. posted'[r] = posted[r] /\ ver'[r] = ver[r] + 1 /\ pc'[r] \notin Computes
      BY <2>9 DEF UpdatesRows, Computes, Collective
    <3>2. Counts(pc'[r], k, ver[r] + 1) BY <2>4, <2>5, <2>9 DEF UpdatesRows, Counts
    <3> QED BY <2>5, <2>6, <3>1, <3>2 DEF Mine, k
  <2>10. CASE BeginsIteration(r) \/ ThrowsAt(r) \/ MovesOn(r)
    <3>1. posted'[r] = posted[r] /\ ver'[r] = ver[r] /\ ghost'[r] = ghost[r]
      BY <2>10 DEF BeginsIteration, ThrowsAt, MovesOn, Kept
    <3>2. Counts(pc'[r], k, ver[r]) /\ (pc'[r] \in Computes => pc[r] \in Computes)
      BY <2>5, <2>10, PlacesApart
      DEF BeginsIteration, ThrowsAt, MovesOn, Counts, Computes, Collective, AfterLoop
    <3> QED BY <2>5, <2>6, <3>1, <3>2 DEF Mine, k
  <2> QED BY <2>2, <2>7, <2>8, <2>9, <2>10 DEF ActsAs
<1> QED BY <1>1, <1>2 DEF Next

(* Every exchange a rank has posted carries the version of the rows at that   *)
(* exchange, and a rank that computes has its neighbours' rows of its own     *)
(* version.                                                                   *)
THEOREM HaloInvariance == Spec => []HaloInv
BY HaloInit, HaloStep, TypeCorrect, PTL DEF Spec

(* No rank computes a time step or a flux from ghost rows that are older or   *)
(* newer than its own rows, wherever its neighbours have got to.              *)
THEOREM GhostsInStepAlways == Spec => []GhostsInStep
<1>1. HaloInv => GhostsInStep BY DEF HaloInv, GhostsInStep, Computes
<1> QED BY <1>1, HaloInvariance, PTL

------------------------------------------------------------------------------
(* The solution file.                                                         *)

Restarted == IF Restart THEN 1 ELSE 0

\* Updates v made by a rank at place p, in stage s of iteration n: one by a
\* restart and one in every stage.
Updates(p, n, s, v) ==
    /\ p \in BeforeLoop \ {"loop"} => n = 0
    /\ p \in {"start", "post0", "wait0", "post1", "wait1", "scatter"} => v = 0
    /\ p = "scatter" => Restart
    /\ p \in {"post2", "wait2", "residue"} => v = Restarted
    /\ p \in {"loop"} \cup AfterLoop => v = Restarted + n * NStages
    /\ p \in {"dt", "emax", "blend"} => v = Restarted + (n - 1) * NStages + s - 1
    /\ p \in {"posts", "waits", "rn", "lv", "loc"} => v = Restarted + (n - 1) * NStages + s
    /\ p = "dt" => s = 1
    /\ p \in {"rn", "lv", "loc"} => s = NStages

Progress ==
    /\ HasGhosts
    /\ \A r \in Ranks : rc[r] = 0 => Updates(pc[r], iter[r], stage[r], ver[r])

LEMMA ProgressInit == Init => Progress
<1> SUFFICES ASSUME Init PROVE Progress
  OBVIOUS
<1>1. HasGhosts BY DEF Init, HasGhosts
<1>2. \A r \in Ranks : pc[r] = "start" /\ iter[r] = 0 /\ stage[r] = 0 /\ ver[r] = 0 BY DEF Init
<1> QED BY <1>1, <1>2 DEF Progress, Updates, AfterLoop

LEMMA ProgressStep ==
    ASSUME TypeOK, Agreement, Progress, [Next]_vars
    PROVE  Progress'
<1>1. CASE UNCHANGED vars
  BY <1>1 DEF vars, loopVars, haloVars, Progress, HasGhosts
<1>2. ASSUME NEW r \in Ranks, Rank(r) \/ Fails(r)
      PROVE  Progress'
  <2>1. HasGhosts BY DEF Progress
  <2>2. ActsAs(r) /\ HasGhosts' BY <1>2, <2>1, StepShape
  <2>3. \A s \in Ranks \ {r} : rc'[s] = 0 => Updates(pc'[s], iter'[s], stage'[s], ver'[s])
    <3>1. ASSUME NEW s \in Ranks \ {r}, rc'[s] = 0
          PROVE  Updates(pc'[s], iter'[s], stage'[s], ver'[s])
      <4>1. /\ iter'[s] = iter[s] /\ stage'[s] = stage[s] /\ ver'[s] = ver[s]
            /\ pc'[s] = pc[s] /\ rc'[s] = rc[s]
        BY <1>2, <2>1, StepShape DEF Kept
      <4> QED BY <3>1, <4>1 DEF Progress
    <3> QED BY <3>1
  <2> DEFINE n == iter[r]  s == stage[r]  v == ver[r]
  <2>4. SUFFICES ASSUME rc'[r] = 0 PROVE Updates(pc'[r], iter'[r], stage'[r], ver'[r])
    BY <2>2, <2>3 DEF Progress
  <2>5. rc[r] = 0 => Updates(pc[r], n, s, v) BY DEF Progress
  <2>6. n \in Nat /\ s \in Nat /\ v \in Nat /\ rc[r] \in {0, 1} /\ Restarted \in Nat
    BY TypeFacts DEF Restarted
  <2>7. n * NStages = (n - 1) * NStages + NStages /\ (n + 1) - 1 = n BY <2>6, StagesOfOneMore
  <2>15. (n - 1) * NStages \in Int /\ n * NStages \in Int /\ NStages \in Nat
    BY <2>6, MarchAssumption
  <2>8. rc[r] = 0
    BY <2>2, <2>4 DEF ActsAs, EntersExchange, LeavesExchange, UpdatesRows, BeginsIteration,
                      ThrowsAt, MovesOn
  <2>16. Updates(pc[r], n, s, v) BY <2>5, <2>8
  <2> HIDE DEF n, s, v
  <2>9. CASE EntersExchange(r)
    <3>1. iter'[r] = n /\ stage'[r] = s /\ ver'[r] = v BY <2>9 DEF EntersExchange, n, s, v
    <3> QED BY <2>9, <2>16, <3>1 DEF EntersExchange, Updates, BeforeLoop, AfterLoop
  <2>10. CASE LeavesExchange(r)
    <3>1. iter'[r] = n /\ ver'[r] = v BY <2>10 DEF LeavesExchange, n, v
    <3>2. CASE pc[r] = "waits"
      <4>1. v = Restarted + (n - 1) * NStages + s BY <2>16, <3>2 DEF Updates
      <4>2. CASE pc'[r] = "rn" /\ s = NStages /\ stage'[r] = s
        BY <3>1, <4>1, <4>2 DEF Updates, BeforeLoop, AfterLoop
      <4>3. CASE pc'[r] = FluxPoint /\ stage'[r] = s + 1
        <5> DEFINE m == (n - 1) * NStages
        <5>1. m \in Int BY <2>15
        <5> HIDE DEF m
        <5>2. v = Restarted + m + (s + 1) - 1 BY <2>6, <4>1, <5>1 DEF m
        <5>3. v = Restarted + (n - 1) * NStages + (s + 1) - 1 BY <5>2 DEF m
        <5> QED BY <3>1, <4>3, <5>3, PlacesApart DEF Updates, BeforeLoop, AfterLoop
      <4> QED BY <2>10, <3>2, <4>2, <4>3 DEF LeavesExchange, s
    <3>3. CASE pc[r] # "waits"
      BY <2>10, <2>16, <3>1, <3>3 DEF LeavesExchange, Updates, BeforeLoop, AfterLoop, Restarted
    <3> QED BY <3>2, <3>3
  <2>11. CASE UpdatesRows(r)
    <3>1. iter'[r] = n /\ stage'[r] = s /\ ver'[r] = v + 1 BY <2>11 DEF UpdatesRows, n, s, v
    <3>2. CASE pc[r] = "scatter" /\ pc'[r] = "post2"
      BY <2>16, <3>1, <3>2 DEF Updates, BeforeLoop, AfterLoop, Restarted
    <3>3. CASE pc[r] = "blend" /\ pc'[r] = "posts"
      <4> DEFINE m == (n - 1) * NStages
      <4>1. m \in Int BY <2>15
      <4>2. v = Restarted + m + s - 1 BY <2>16, <3>3 DEF Updates
      <4> HIDE DEF m
      <4>3. v + 1 = Restarted + m + s BY <2>6, <4>1, <4>2
      <4>4. v + 1 = Restarted + (n - 1) * NStages + s BY <4>3 DEF m
      <4> QED BY <3>1, <3>3, <4>4 DEF Updates, BeforeLoop, AfterLoop
    <3> QED BY <2>11, <3>2, <3>3 DEF UpdatesRows
  <2>12. CASE BeginsIteration(r)
    <3>1. iter'[r] = n + 1 /\ stage'[r] = 1 /\ ver'[r] = v /\ pc[r] = "loop" /\ pc'[r] = "dt"
      BY <2>12 DEF BeginsIteration, n, v
    <3>2. v = Restarted + n * NStages BY <2>16, <3>1 DEF Updates
    <3>3. v = Restarted + ((n + 1) - 1) * NStages + 1 - 1
      <4> DEFINE m == n * NStages
      <4>1. m \in Int BY <2>15
      <4> HIDE DEF m
      <4>2. v = Restarted + m + 1 - 1 BY <2>6, <3>2, <4>1 DEF m
      <4> QED BY <2>7, <4>2 DEF m
    <3> QED BY <3>1, <3>3 DEF Updates, BeforeLoop, AfterLoop
  <2>13. CASE ThrowsAt(r) BY <2>4, <2>13 DEF ThrowsAt
  <2>14. CASE MovesOn(r)
    <3>1. iter'[r] = n /\ stage'[r] = s /\ ver'[r] = v BY <2>14 DEF MovesOn, Kept, n, s, v
    <3>2. CASE pc[r] \in {"lv", "loc"} /\ pc'[r] \in {"gather", "loop"}
      <4>1. v = Restarted + (n - 1) * NStages + s /\ s = NStages BY <2>16, <3>2 DEF Updates
      <4>2. v = Restarted + n * NStages
        <5> DEFINE m == (n - 1) * NStages
        <5>1. m \in Int BY <2>15
        <5> HIDE DEF m
        <5>2. n * NStages = m + NStages BY <2>7 DEF m
        <5>3. v = Restarted + (m + NStages) BY <2>6, <2>15, <4>1, <5>1 DEF m
        <5> QED BY <5>2, <5>3
      <4> QED BY <3>1, <3>2, <4>2 DEF Updates, BeforeLoop
    <3>3. CASE pc[r] = "residue" /\ pc'[r] = "loop"
      <4>1. n = 0 /\ v = Restarted BY <2>16, <3>3 DEF Updates, BeforeLoop
      <4>2. v = Restarted + n * NStages BY <2>6, <2>15, <4>1
      <4> QED BY <3>1, <3>3, <4>2 DEF Updates, BeforeLoop
    <3>4. CASE ~ (pc[r] \in {"lv", "loc"} /\ pc'[r] \in {"gather", "loop"})
               /\ ~ (pc[r] = "residue" /\ pc'[r] = "loop")
      BY <2>14, <2>16, <3>1, <3>4, PlacesApart DEF MovesOn, Updates, BeforeLoop, AfterLoop
    <3> QED BY <3>2, <3>3, <3>4
  <2> QED BY <2>2, <2>9, <2>10, <2>11, <2>12, <2>13, <2>14 DEF ActsAs
<1> QED BY <1>1, <1>2 DEF Next

\* Planes of rank s that root has received.
Received(s) == gk[root] + (IF s < src THEN 1 ELSE 0)

\* What rank s has sent is what root has of it and what is under way, in order.
GatheredFrom(s) ==
    /\ pc[s] # "vtk"
    /\ gk[s] > 0 => pc[s] \in AfterLoop /\ rc[s] = 0
    /\ gk[s] = Received(s) + Len(mail[s])
    /\ \A i \in 1 .. Len(mail[s]) : mail[s][i] = Origin(s, Received(s) + i - 1)
    /\ \A k \in 0 .. NPlanes - 1 : k < Received(s) => file[k][s] = Origin(s, k)

GatheredByRoot ==
    /\ file = [k \in 0 .. NPlanes - 1 |-> [r \in Ranks |-> file[k][r]]]
    /\ gk[root] = NPlanes => src = 1
    /\ written => gk[root] = NPlanes
    /\ gk[root] > 0 \/ src > 1 => pc[root] \in AfterLoop
    /\ gk[root] = NPlanes => \A s \in Ranks : iter[s] = iter[root] /\ ver[s] = ver[root]
    /\ \A k \in 0 .. NPlanes - 1 : k < gk[root] => file[k][root] = Origin(root, k)

Gathered == GatheredByRoot /\ \A s \in Ranks \ {root} : GatheredFrom(s)

LEMMA GatheredInit == Init => Gathered
<1> SUFFICES ASSUME Init PROVE Gathered
  OBVIOUS
<1>1. root \in Ranks /\ NPlanes \in Nat \ {0} BY WorldAssumption, MarchAssumption DEF root, Ranks
<1>2. /\ \A s \in Ranks : /\ pc[s] = "start" /\ gk[s] = 0 /\ mail[s] = << >>
                          /\ iter[s] = 0 /\ ver[s] = 0
      /\ src = 1 /\ written = FALSE
  BY DEF Init
<1>3. \A s \in Ranks \ {root} : Received(s) = 0
  BY <1>1, <1>2 DEF Received, root, Ranks
<1>4. GatheredByRoot BY <1>1, <1>2 DEF Init, GatheredByRoot
<1>5. \A s \in Ranks \ {root} : GatheredFrom(s) BY <1>1, <1>2, <1>3 DEF GatheredFrom
<1> QED BY <1>4, <1>5 DEF Gathered

\* What remains of a queue when its head is taken.
LEMMA HeadTaken ==
    ASSUME NEW S, NEW q \in Seq(S), q # << >>
    PROVE  /\ Len(q) \in Nat /\ Len(q) >= 1 /\ Head(q) = q[1]
           /\ Tail(q) \in Seq(S) /\ Len(Tail(q)) = Len(q) - 1
           /\ \A i \in 1 .. Len(q) - 1 : Tail(q)[i] = q[i + 1]
OBVIOUS

LEMMA OutShape ==
    ASSUME NEW r \in Ranks, Rank(r) \/ Fails(r)
    PROVE  \/ SendPlane(r) \/ RecvPlane(r) \/ NextPlane(r) \/ WriteSolution(r)
           \/ UNCHANGED outVars
<1>1. ASSUME NEW from, NEW to, PostHalo(r, from, to) \/ WaitHalo(r, from, to)
      PROVE  UNCHANGED outVars
  BY <1>1 DEF PostHalo, WaitHalo
<1>2. ASSUME NEW kind, NEW value, Enter(r, kind, value) \/ Leave(r, kind)
      PROVE  UNCHANGED outVars
  BY <1>2 DEF Enter, Leave
<1>3. ASSUME NEW from, NEW point, Throw(r, from, point) PROVE UNCHANGED outVars
  BY <1>3 DEF Throw
<1>4. CASE Fails(r) BY <1>3, <1>4 DEF Fails
<1>5. CASE Load(r) \/ LoadFails(r) \/ OpenResidue(r) \/ LeaveLoop(r) \/ BeginIteration(r)
           \/ Blend(r) \/ SendReturns(r) \/ WriteVtk(r) \/ Finalize(r)
  BY <1>5 DEF Load, LoadFails, OpenResidue, LeaveLoop, BeginIteration, Blend, SendReturns,
              WriteVtk, Finalize
<1>6. CASE FinishInit(r) \/ LoadRestart(r) \/ EndStage(r)
  BY <1>1, <1>6 DEF FinishInit, LoadRestart, EndStage, Scatter
<1>7. CASE TimeStep(r) \/ Emax(r) \/ Residual(r) \/ Location(r)
  BY <1>2, <1>7 DEF TimeStep, Emax, Residual, Location
<1> QED BY <1>4, <1>5, <1>6, <1>7 DEF Rank

\* After the loop the state of a rank is final.
LEMMA Final ==
    ASSUME TypeOK, HasGhosts, NEW r \in Ranks, Rank(r) \/ Fails(r),
           NEW s \in Ranks, pc[s] \in AfterLoop
    PROVE  /\ pc'[s] \in AfterLoop /\ iter'[s] = iter[s] /\ ver'[s] = ver[s]
           /\ s # root /\ pc[s] # "vtk" => rc'[s] = rc[s] /\ pc'[s] # "vtk"
<1>1. CASE s # r BY <1>1, StepShape DEF Kept
<1>2. CASE s = r
  <2>1. ActsAs(r) BY StepShape
  <2>2. ~ (EntersExchange(r) \/ LeavesExchange(r) \/ UpdatesRows(r) \/ BeginsIteration(r))
    BY <1>2 DEF EntersExchange, LeavesExchange, UpdatesRows, BeginsIteration, AfterLoop
  <2>3. CASE ThrowsAt(r) BY <1>2, <2>3 DEF ThrowsAt, Kept, AfterLoop
  <2>4. CASE MovesOn(r) BY <1>2, <2>4 DEF MovesOn, Kept, AfterLoop
  <2> QED BY <2>1, <2>2, <2>3, <2>4 DEF ActsAs
<1> QED BY <1>1, <1>2

\* No rank other than root gets to write_vtk.
LEMMA NoVtk ==
    ASSUME TypeOK, HasGhosts, NEW r \in Ranks, Rank(r) \/ Fails(r),
           NEW s \in Ranks \ {root}, pc[s] # "vtk"
    PROVE  pc'[s] # "vtk"
<1>1. CASE s # r BY <1>1, StepShape
<1>2. CASE s = r
  <2>1. ActsAs(r) BY StepShape
  <2> QED
    BY <1>2, <2>1, PlacesApart
    DEF ActsAs, EntersExchange, LeavesExchange, UpdatesRows, BeginsIteration, ThrowsAt, MovesOn
<1> QED BY <1>1, <1>2

LEMMA GatheredStep ==
    ASSUME IInv, Progress, Gathered, [Next]_vars
    PROVE  Gathered'
<1>0. root \in Ranks /\ NPlanes \in Nat \ {0} BY WorldAssumption, MarchAssumption DEF root, Ranks
<1>1. CASE UNCHANGED vars
  BY <1>1 DEF vars, loopVars, haloVars, outVars, Gathered, GatheredByRoot, GatheredFrom,
              Received, Origin
<1>2. ASSUME NEW r \in Ranks, Rank(r) \/ Fails(r)
      PROVE  Gathered'
  <2>1. TypeOK /\ Agreement /\ HasGhosts BY DEF IInv, Progress
  <2>2. \A s \in Ranks : pc[s] \in AfterLoop =>
          /\ pc'[s] \in AfterLoop /\ iter'[s] = iter[s] /\ ver'[s] = ver[s]
          /\ s # root /\ pc[s] # "vtk" => rc'[s] = rc[s] /\ pc'[s] # "vtk"
    BY <1>2, <2>1, Final
  <2>3. \A s \in Ranks \ {root} : pc'[s] # "vtk"
    BY <1>2, <2>1, NoVtk DEF Gathered, GatheredFrom
  <2>4. GatheredByRoot /\ \A s \in Ranks \ {root} : GatheredFrom(s) BY DEF Gathered
  <2>5. \A s \in Ranks : gk[s] \in 0 .. NPlanes BY <2>1 DEF TypeOK
  <2>6. src \in 1 .. NRanks BY <2>1 DEF TypeOK
  <2>7. ASSUME NEW s \in Ranks \ {root}
        PROVE  /\ mail[s] \in Seq((0 .. NPlanes) \X (0 .. MaxIters) \X Nat)
               /\ Len(mail[s]) \in Nat /\ Received(s) \in Nat
               /\ Received(s) + Len(mail[s]) <= NPlanes
    <3>1. mail[s] \in Seq((0 .. NPlanes) \X (0 .. MaxIters) \X Nat) BY <2>1 DEF TypeOK
    <3>2. Received(s) \in Nat BY <1>0, <2>5 DEF Received
    <3> QED BY <2>4, <2>5, <3>1, <3>2 DEF GatheredFrom
  \* What was sent or received was so after the loop: its origin stays.
  <2>8. ASSUME NEW s \in Ranks \ {root}, gk[s] > 0
        PROVE  /\ pc'[s] \in AfterLoop /\ rc'[s] = 0
               /\ iter'[s] = iter[s] /\ ver'[s] = ver[s]
    <3>1. pc[s] \in AfterLoop /\ rc[s] = 0 /\ pc[s] # "vtk" BY <2>4, <2>8 DEF GatheredFrom
    <3> QED BY <2>2, <3>1
  <2>9. ASSUME gk[root] > 0 \/ src > 1
        PROVE  pc'[root] \in AfterLoop /\ iter'[root] = iter[root] /\ ver'[root] = ver[root]
    BY <1>0, <2>2, <2>4, <2>9 DEF GatheredByRoot
  <2>10. ASSUME gk[root] = NPlanes, NEW s \in Ranks
         PROVE  iter'[s] = iter[s] /\ ver'[s] = ver[s]
    <3>1. pc[s] \in AfterLoop
      <4>1. CASE s = root BY <1>0, <2>4, <2>10, <4>1 DEF GatheredByRoot
      <4>2. CASE s # root
        <5>1. Received(s) >= NPlanes BY <1>0, <2>10 DEF Received
        <5>2. gk[s] > 0 BY <1>0, <2>4, <2>7, <4>2, <5>1 DEF GatheredFrom
        <5> QED BY <2>4, <4>2, <5>2 DEF GatheredFrom
      <4> QED BY <4>1, <4>2
    <3> QED BY <2>2, <3>1
  <2>11. CASE UNCHANGED <<gk, src, mail, file>> /\ (written' => written \/ gk[root] = NPlanes)
    <3>1. UNCHANGED <<gk, src, mail, file>> BY <2>11
    <3>2. \A s \in Ranks : Received(s)' = Received(s) BY <3>1 DEF Received
    <3>3. GatheredByRoot'
      <4>1. \A k \in 0 .. NPlanes - 1 : k < gk[root] => Origin(root, k)' = Origin(root, k)
        BY <1>0, <2>5, <2>9 DEF Origin
      <4>2. gk[root] = NPlanes => \A s \in Ranks : iter'[s] = iter'[root] /\ ver'[s] = ver'[root]
        BY <1>0, <2>4, <2>10 DEF GatheredByRoot
      <4>3. gk[root] > 0 \/ src > 1 => pc'[root] \in AfterLoop BY <2>9
      <4> QED BY <2>4, <2>11, <3>1, <4>1, <4>2, <4>3 DEF GatheredByRoot
    <3>4. ASSUME NEW s \in Ranks \ {root} PROVE GatheredFrom(s)'
      <4>1. gk[s] > 0 => pc'[s] \in AfterLoop /\ rc'[s] = 0 BY <2>8
      <4>2. \A i \in 1 .. Len(mail[s]) :
               mail[s][i] = <<Received(s) + i - 1, iter'[s], ver'[s]>>
        <5>1. ASSUME NEW i \in 1 .. Len(mail[s]) PROVE gk[s] > 0
          <6>1. gk[s] = Received(s) + Len(mail[s]) BY <2>4 DEF GatheredFrom
          <6> QED BY <2>7, <6>1
        <5> QED BY <2>4, <2>8, <5>1 DEF GatheredFrom, Origin
      <4>3. \A k \in 0 .. NPlanes - 1 : k < Received(s) =>
               file[k][s] = <<k, iter'[s], ver'[s]>>
        <5>1. ASSUME NEW k \in 0 .. NPlanes - 1, k < Received(s) PROVE gk[s] > 0
          <6>1. gk[s] = Received(s) + Len(mail[s]) BY <2>4 DEF GatheredFrom
          <6> QED BY <2>7, <5>1, <6>1
        <5> QED BY <2>4, <2>8, <5>1 DEF GatheredFrom, Origin
      <4> QED BY <2>3, <2>4, <3>1, <3>2, <4>1, <4>2, <4>3 DEF GatheredFrom, Origin
    <3> QED BY <3>3, <3>4 DEF Gathered
  <2>12. CASE SendPlane(r)
    <3>1. /\ r # root /\ gk[r] < NPlanes /\ pc[r] = "gather" /\ pc'[r] \in {"gather", "gsync"}
          /\ UNCHANGED <<iter, ver, rc, src, file, written>>
          /\ gk' = [gk EXCEPT ![r] = @ + 1]
          /\ mail' = [mail EXCEPT ![r] = Append(@, Origin(r, gk[r]))]
      BY <2>1, <2>12 DEF SendPlane, Goto, TypeOK, loopVars, haloVars
    <3>2. gk'[r] = gk[r] + 1 /\ \A s \in Ranks \ {r} : gk'[s] = gk[s] /\ mail'[s] = mail[s]
      BY <2>1, <3>1 DEF TypeOK
    <3>3. gk'[root] = gk[root] /\ \A s \in Ranks : Received(s)' = Received(s)
      BY <1>0, <3>1, <3>2 DEF Received
    <3>4. gk[root] # NPlanes
      <4>1. gk[root] = NPlanes => Received(r) >= NPlanes BY <1>0 DEF Received
      <4>2. gk[r] = Received(r) + Len(mail[r]) BY <2>4, <3>1 DEF GatheredFrom
      <4> QED BY <1>0, <2>5, <2>7, <3>1, <4>1, <4>2
    <3>5. GatheredByRoot'
      BY <1>0, <2>4, <2>9, <3>1, <3>3, <3>4 DEF GatheredByRoot, Origin
    <3>6. ASSUME NEW s \in Ranks \ {root, r} PROVE GatheredFrom(s)'
      <4>1. gk[s] > 0 => pc'[s] \in AfterLoop /\ rc'[s] = 0 BY <2>8
      <4> QED BY <2>3, <2>4, <3>1, <3>2, <3>3, <4>1 DEF GatheredFrom, Origin
    <3>7. GatheredFrom(r)'
      <4> DEFINE q == mail[r]
      <4>1. q \in Seq((0 .. NPlanes) \X (0 .. MaxIters) \X Nat) /\ Len(q) \in Nat
        BY <2>7, <3>1
      <4>2. gk[r] = Received(r) + Len(q) BY <2>4, <3>1 DEF GatheredFrom
      <4>3. mail'[r] = Append(q, Origin(r, gk[r])) BY <2>1, <3>1 DEF TypeOK
      <4>4. Origin(r, gk[r]) \in (0 .. NPlanes) \X (0 .. MaxIters) \X Nat
        BY <2>1 DEF Origin, TypeOK
      <4>5. /\ Len(mail'[r]) = Len(q) + 1
            /\ \A i \in 1 .. Len(q) : mail'[r][i] = q[i]
            /\ mail'[r][Len(q) + 1] = Origin(r, gk[r])
        BY <4>1, <4>3, <4>4
      <4>6. ASSUME NEW i \in 1 .. Len(q) + 1
            PROVE  mail'[r][i] = <<Received(r) + i - 1, iter[r], ver[r]>>
        <5>1. CASE i = Len(q) + 1
          <6>1. gk[r] = Received(r) + i - 1 BY <2>7, <3>1, <4>1, <4>2, <5>1
          <6> QED BY <4>5, <5>1, <6>1 DEF Origin
        <5>2. CASE i # Len(q) + 1
          <6>1. i \in 1 .. Len(q) BY <4>1, <5>2
          <6> QED BY <2>4, <3>1, <4>5, <6>1 DEF GatheredFrom, Origin
        <5> QED BY <5>1, <5>2
      <4>7. gk'[r] = Received(r)' + Len(mail'[r])
        BY <2>7, <3>1, <3>2, <3>3, <4>1, <4>2, <4>5
      <4>8. rc[r] = 0 /\ pc'[r] \in AfterLoop
        BY <2>1, <3>1, TypeFacts DEF Agreement, AfterLoop
      <4>9. \A k \in 0 .. NPlanes - 1 : k < Received(r)' =>
               file'[k][r] = <<k, iter[r], ver[r]>>
        BY <2>4, <3>1, <3>3 DEF GatheredFrom, Origin
      <4>10. \A i \in 1 .. Len(mail'[r]) :
               mail'[r][i] = <<Received(r)' + i - 1, iter'[r], ver'[r]>>
        BY <3>1, <3>3, <4>5, <4>6
      <4>11. pc'[r] # "vtk" /\ rc'[r] = 0 BY <3>1, <4>8
      <4> QED BY <3>1, <4>7, <4>8, <4>9, <4>10, <4>11 DEF GatheredFrom, Origin
    <3> QED BY <3>5, <3>6, <3>7 DEF Gathered
  <2>13. CASE RecvPlane(r)
    <3>1. PICK t \in Ranks \ {root} : t = src
      BY <2>6, <2>13 DEF RecvPlane, root
    <3>2. PICK k0 \in 0 .. NPlanes - 1 : k0 = gk[root]
      BY <1>0, <2>5, <2>13 DEF RecvPlane
    <3> DEFINE q == mail[t]
    <3>3. /\ r = root /\ pc[root] = "gather" /\ q # << >>
          /\ file' = [file EXCEPT ![k0][t] = Head(q)]
          /\ mail' = [mail EXCEPT ![t] = Tail(@)] /\ src' = t + 1
          /\ UNCHANGED <<pc, iter, ver, rc, gk, written>>
      BY <2>13, <3>1, <3>2 DEF RecvPlane, loopVars, haloVars
    <3>4. Received(t) = k0 /\ Received(t)' = k0 + 1
      BY <2>6, <3>1, <3>2, <3>3 DEF Received
    <3>5. \A s \in Ranks \ {t} : Received(s)' = Received(s)
      BY <2>6, <3>1, <3>3 DEF Received, Ranks
    <3>13. q \in Seq((0 .. NPlanes) \X (0 .. MaxIters) \X Nat) /\ Len(q) \in Nat
      BY <2>7
    <3>14. mail'[t] = Tail(q) BY <2>1, <3>3 DEF TypeOK
    <3> HIDE DEF q
    <3>6. Len(q) \in Nat /\ Len(q) >= 1 BY <3>3, <3>13, HeadTaken
    <3>7. /\ mail'[t] = Tail(q) /\ Len(Tail(q)) = Len(q) - 1 /\ Head(q) = q[1]
          /\ \A i \in 1 .. Len(q) - 1 : Tail(q)[i] = q[i + 1]
      BY <3>3, <3>13, <3>14, HeadTaken
    <3> USE DEF q
    <3>8. \A s \in Ranks \ {t} : mail'[s] = mail[s] BY <2>1, <3>3 DEF TypeOK
    <3>9. /\ file' = [k \in 0 .. NPlanes - 1 |-> [s \in Ranks |-> file'[k][s]]]
          /\ file'[k0][t] = Head(q)
          /\ \A k \in 0 .. NPlanes - 1, s \in Ranks :
                k # k0 \/ s # t => file'[k][s] = file[k][s]
      <4>1. file = [k \in 0 .. NPlanes - 1 |-> [s \in Ranks |-> file[k][s]]]
        BY <2>4 DEF GatheredByRoot
      <4> QED BY <3>3, <4>1
    <3>10. GatheredByRoot'
      <4>1. gk[root] # NPlanes BY <3>2
      <4>2. \A k \in 0 .. NPlanes - 1 : file'[k][root] = file[k][root] BY <1>0, <3>9
      <4> QED BY <2>4, <3>3, <3>9, <4>1, <4>2 DEF GatheredByRoot, Origin, AfterLoop
    <3>11. ASSUME NEW s \in Ranks \ {root, t} PROVE GatheredFrom(s)'
      BY <2>4, <3>3, <3>5, <3>8, <3>9 DEF GatheredFrom, Origin
    <3>12. GatheredFrom(t)'
      <4>1. GatheredFrom(t) BY <2>4
      <4>5. \A i \in 1 .. Len(q) : q[i] = <<k0 + i - 1, iter[t], ver[t]>>
        BY <3>4, <4>1 DEF GatheredFrom, Origin
      <4>6. 1 \in 1 .. Len(q) BY <3>6
      <4>2. gk'[t] = (k0 + 1) + Len(mail'[t])
        <5>1. gk[t] = k0 + Len(q) BY <3>4, <4>1 DEF GatheredFrom
        <5>2. gk'[t] = gk[t] /\ Len(mail'[t]) = Len(q) - 1 BY <3>3, <3>7
        <5>3. k0 \in Nat /\ Len(q) \in Nat BY <3>6
        <5> HIDE DEF q
        <5> QED BY <5>1, <5>2, <5>3
      <4>3. ASSUME NEW i \in 1 .. Len(mail'[t])
            PROVE  mail'[t][i] = <<(k0 + 1) + i - 1, iter[t], ver[t]>>
        <5> DEFINE n == Len(q)
        <5>4. n \in Nat /\ Len(mail'[t]) = n - 1 BY <3>6, <3>7
        <5>5. i \in 1 .. n - 1 BY <5>4
        <5> HIDE DEF n
        <5>6. i \in Nat /\ i + 1 \in 1 .. n BY <5>4, <5>5
        <5>1. i \in Nat /\ i + 1 \in 1 .. Len(q) /\ i \in 1 .. Len(q) - 1
          BY <5>5, <5>6 DEF n
        <5>2. q[i + 1] = <<k0 + (i + 1) - 1, iter[t], ver[t]>> BY <4>5, <5>1
        <5>3. k0 + (i + 1) - 1 = (k0 + 1) + i - 1 BY <5>1
        <5> QED BY <3>7, <5>1, <5>2, <5>3
      <4>4. ASSUME NEW k \in 0 .. NPlanes - 1, k < k0 + 1
            PROVE  file'[k][t] = <<k, iter[t], ver[t]>>
        <5>1. CASE k = k0
          <6>1. q[1] = <<k0 + 1 - 1, iter[t], ver[t]>> BY <4>5, <4>6
          <6>2. k0 + 1 - 1 = k0 OBVIOUS
          <6> QED BY <3>7, <3>9, <5>1, <6>1, <6>2
        <5>2. CASE k # k0
          <6>1. k < Received(t) BY <3>4, <4>4, <5>2
          <6> QED BY <3>9, <4>1, <5>2, <6>1 DEF GatheredFrom, Origin
        <5> QED BY <5>1, <5>2
      <4> QED BY <3>3, <3>4, <4>1, <4>2, <4>3, <4>4 DEF GatheredFrom, Origin
    <3> QED BY <3>10, <3>11, <3>12 DEF Gathered
  <2>14. CASE NextPlane(r)
    <3>1. PICK k0 \in 0 .. NPlanes - 1 : k0 = gk[root]
      BY <1>0, <2>5, <2>14 DEF NextPlane
    <3>2. /\ r = root /\ pc[root] = "gather" /\ src = NRanks /\ src' = 1
          /\ file' = [file EXCEPT ![k0][root] = Origin(root, k0)]
          /\ gk' = [gk EXCEPT ![root] = @ + 1]
          /\ UNCHANGED <<pc, iter, ver, rc, mail, written>>
      BY <2>14, <3>1 DEF NextPlane, loopVars, haloVars
    <3>3. gk'[root] = k0 + 1 /\ \A s \in Ranks \ {root} : gk'[s] = gk[s]
      BY <1>0, <2>1, <3>1, <3>2 DEF TypeOK
    <3>4. \A s \in Ranks \ {root} : Received(s) = k0 + 1 /\ Received(s)' = k0 + 1
      BY <1>0, <3>1, <3>2, <3>3, WorldAssumption DEF Received, Ranks, root
    <3>5. /\ file' = [k \in 0 .. NPlanes - 1 |-> [s \in Ranks |-> file'[k][s]]]
          /\ file'[k0][root] = Origin(root, k0)
          /\ \A k \in 0 .. NPlanes - 1, s \in Ranks :
                k # k0 \/ s # root => file'[k][s] = file[k][s]
      <4>1. file = [k \in 0 .. NPlanes - 1 |-> [s \in Ranks |-> file[k][s]]]
        BY <2>4 DEF GatheredByRoot
      <4> QED BY <1>0, <3>2, <4>1
    \* All have left the loop: with the same iteration, and so as many updates.
    <3>6. \A s \in Ranks : iter[s] = iter[root] /\ ver[s] = ver[root]
      <4>1. ASSUME NEW s \in Ranks PROVE pc[s] \in AfterLoop /\ rc[s] = 0
        <5>1. CASE s = root BY <2>1, <3>2, <5>1, TypeFacts DEF Agreement, AfterLoop
        <5>2. CASE s # root
          <6>1. gk[s] > 0
            <7>1. gk[s] = (k0 + 1) + Len(mail[s]) BY <2>4, <3>4, <5>2 DEF GatheredFrom
            <7>2. Len(mail[s]) \in Nat /\ k0 \in Nat BY <2>7, <5>2
            <7> DEFINE m == Len(mail[s])
            <7> HIDE DEF m
            <7>3. gk[s] = (k0 + 1) + m /\ m \in Nat BY <7>1, <7>2 DEF m
            <7> QED BY <7>2, <7>3
          <6> QED BY <2>4, <5>2, <6>1 DEF GatheredFrom
        <5> QED BY <5>1, <5>2
      <4>2. \A s \in Ranks : iter[s] = iter[root]
        BY <1>0, <4>1, InvStopTogether DEF StopTogether
      <4>3. \A s \in Ranks : ver[s] = Restarted + iter[s] * NStages
        BY <4>1 DEF Progress, Updates
      <4> QED BY <1>0, <4>2, <4>3
    <3>7. ASSUME NEW k \in 0 .. NPlanes - 1, k < k0 + 1
          PROVE  file'[k][root] = <<k, iter[root], ver[root]>>
      <4>1. CASE k = k0 BY <3>5, <4>1 DEF Origin
      <4>2. CASE k # k0
        <5>1. k < gk[root] BY <3>1, <3>7, <4>2
        <5> QED BY <1>0, <2>4, <3>5, <4>2, <5>1 DEF GatheredByRoot, Origin
      <4> QED BY <4>1, <4>2
    <3>8. GatheredByRoot'
      <4>1. gk[root] # NPlanes BY <3>1
      <4> QED BY <2>4, <3>2, <3>3, <3>5, <3>6, <3>7, <4>1
          DEF GatheredByRoot, Origin, AfterLoop
    <3>9. ASSUME NEW s \in Ranks \ {root} PROVE GatheredFrom(s)'
      BY <2>4, <3>2, <3>3, <3>4, <3>5 DEF GatheredFrom, Origin
    <3> QED BY <3>8, <3>9 DEF Gathered
  <2>15. CASE WriteSolution(r)
    <3>1. UNCHANGED <<gk, src, mail, file>> /\ (written' => written \/ gk[root] = NPlanes)
      BY <2>15 DEF WriteSolution
    <3> QED BY <2>11, <3>1
  <2>16. CASE UNCHANGED outVars BY <2>11, <2>16 DEF outVars
  <2> QED BY <1>2, <2>12, <2>13, <2>14, <2>15, <2>16, OutShape
<1> QED BY <1>1, <1>2 DEF Next

(* The version of a rank's rows is the number of stages it has been through,  *)
(* as counted by its loop variables.                                          *)
THEOREM ProgressInvariance == Spec => []Progress
BY ProgressInit, ProgressStep, Invariance, PTL DEF Spec, IInv

(* What root has gathered and what is on its way to root are the planes of    *)
(* the end of the loop, in order, and each once.                              *)
THEOREM GatheredInvariance == Spec => []Gathered
BY GatheredInit, GatheredStep, Invariance, ProgressInvariance, PTL DEF Spec

(* Each plane of each slab in the solution file is that plane of the final    *)
(* state of its rank, the state of the same iteration and with as many        *)
(* updates as on root, however the gather and the loops of the ranks overlap. *)
THEOREM SolutionCompleteAlways == Spec => []SolutionComplete
<1>1. ASSUME Gathered PROVE SolutionComplete
  <2>1. SUFFICES ASSUME written, NEW k \in DOMAIN file, NEW s \in Ranks
                 PROVE  file[k][s] = <<k, iter[root], ver[root]>>
    BY DEF SolutionComplete
  <2>2. gk[root] = NPlanes /\ k \in 0 .. NPlanes - 1 BY <1>1, <2>1 DEF Gathered, GatheredByRoot
  <2>3. iter[s] = iter[root] /\ ver[s] = ver[root]
    BY <1>1, <2>2 DEF Gathered, GatheredByRoot
  <2>4. CASE s = root BY <1>1, <2>2, <2>4, MarchAssumption DEF Gathered, GatheredByRoot, Origin
  <2>5. CASE s # root
    <3>1. k < Received(s) BY <2>2, MarchAssumption DEF Received
    <3> QED BY <1>1, <2>2, <2>3, <2>5, <3>1 DEF Gathered, GatheredFrom, Origin
  <2> QED BY <2>4, <2>5
<1> QED BY <1>1, GatheredInvariance, PTL

------------------------------------------------------------------------------
(* What a failed rank holds up.  From the moment a rank throws no collective  *)
(* can complete, and so no view of another rank can change any more.          *)

Contained ==
    /\ HasGhosts
    /\ \A r \in Ranks : rc[r] = 1 =>
        \A s \in Ranks :
            IF rc[s] = 1 THEN iter[s] <= iter[r] \/ iter[s] = 1
            ELSE View(s).iter = iter[r] \/ (View(s).iter = 1 /\ iter[r] = 0)

LEMMA ContainedInit == Init => Contained
BY DEF Init, Contained, HasGhosts

\* Where a rank throws, its next collective is in its iteration or in the first.
LEMMA ViewWhereThrown ==
    ASSUME TypeOK, Agreement, Progress, NEW r \in Ranks, rc[r] = 0, ThrowsAt(r)
    PROVE  View(r).iter = iter[r] \/ (View(r).iter = 1 /\ iter[r] = 0)
<1>1. Updates(pc[r], iter[r], stage[r], ver[r]) BY DEF Progress
<1>2. cs[r] = "out"
  <2>1. CASE pc[r] = "dt" BY <2>1 DEF ThrowsAt
  <2>2. CASE pc[r] # "dt" BY <2>2, OutsideIsOut DEF ThrowsAt, Collective
  <2> QED BY <2>1, <2>2
<1>3. View(r) = Arrived(Rec(pc[r], iter[r], stage[r], time[r], dt[r], dtp[r], res[r]))
  BY <1>2, ViewIs
<1>4. CASE pc[r] \in {"start", "scatter", "residue"}
  <2>1. iter[r] = 0 /\ pc[r] \in BeforeLoop BY <1>1, <1>4 DEF Updates, BeforeLoop
  <2>2. \/ View(r) = Rec("end", iter[r], 0, time[r], dt[r], dtp[r], res[r])
        \/ View(r) = Rec("dt", iter[r] + 1, 1, time[r] + dtp[r], dt[r], dtp[r], res[r])
    BY <1>3, <2>1, ArrivedIs
  <2>3. View(r).iter = iter[r] \/ View(r).iter = iter[r] + 1 BY <2>2, ViewFields
  <2> QED BY <2>1, <2>3
<1>5. CASE pc[r] = "dt"
  <2>1. View(r) = Rec(pc[r], iter[r], stage[r], time[r], dt[r], dtp[r], res[r])
    BY <1>3, <1>5, ArrivedIs DEF Collective
  <2> QED BY <2>1, ViewFields
<1>6. CASE pc[r] = "blend"
  <2>1. \/ View(r) = Rec("emax", iter[r], stage[r] + 1, time[r], dt[r], dtp[r], res[r])
        \/ View(r) = Rec("rn", iter[r], NStages, time[r], dt[r], dtp[r], res[r])
    BY <1>3, <1>6, ArrivedIs DEF InStage
  <2> QED BY <2>1, ViewFields
<1>7. CASE pc[r] \in {"gather", "vtk"}
  <2>1. View(r) = Rec("end", iter[r], 0, time[r], dt[r], dtp[r], res[r])
    BY <1>3, <1>7, ArrivedIs DEF AfterLoop
  <2> QED BY <2>1, ViewFields
<1> QED BY <1>4, <1>5, <1>6, <1>7 DEF ThrowsAt

\* Who has thrown stays where it is.
LEMMA ThrownStays ==
    ASSUME TypeOK, Agreement, HasGhosts, NEW r \in Ranks, Rank(r) \/ Fails(r), NEW s \in Ranks
    PROVE  /\ rc[s] = 1 => rc'[s] = 1 /\ iter'[s] = iter[s]
           /\ rc[s] = 0 /\ rc'[s] = 1 => s = r /\ ThrowsAt(r) /\ iter'[s] = iter[s]
<1>1. CASE s # r
  <2>1. iter'[s] = iter[s] /\ rc'[s] = rc[s] BY <1>1, StepShape DEF Kept
  <2> QED BY <2>1
<1>2. CASE s = r
  <2>1. ActsAs(r) BY StepShape
  <2>2. CASE ThrowsAt(r) BY <1>2, <2>2 DEF ThrowsAt, Kept
  <2>3. CASE EntersExchange(r) \/ LeavesExchange(r) \/ UpdatesRows(r) \/ MovesOn(r)
    BY <1>2, <2>3 DEF EntersExchange, LeavesExchange, UpdatesRows, MovesOn, Kept
  <2>4. CASE BeginsIteration(r)
    <3>1. rc[r] # 1 BY <2>4 DEF BeginsIteration, Agreement
    <3> QED BY <1>2, <2>4, <3>1 DEF BeginsIteration
  <2> QED BY <2>1, <2>2, <2>3, <2>4 DEF ActsAs
<1> QED BY <1>1, <1>2

LEMMA ContainedStep ==
    ASSUME IInv, Progress, Contained, [Next]_vars
    PROVE  Contained'
<1>1. TypeOK /\ Agreement /\ Lockstep /\ HasGhosts BY DEF IInv, Contained
<1>2. TypeOK' /\ (SameViews \/ Reduced) BY Step DEF Advance
<1>3. HasGhosts' BY <1>1, StepShape DEF Next, HasGhosts, vars, haloVars
<1>4. \A s \in Ranks : /\ rc[s] = 1 => rc'[s] = 1 /\ iter'[s] = iter[s]
                       /\ rc[s] = 0 /\ rc'[s] = 1 => ThrowsAt(s) /\ iter'[s] = iter[s]
  <2>1. CASE UNCHANGED vars BY <2>1 DEF vars, loopVars
  <2>2. ASSUME NEW r \in Ranks, Rank(r) \/ Fails(r)
        PROVE  \A s \in Ranks : /\ rc[s] = 1 => rc'[s] = 1 /\ iter'[s] = iter[s]
                                /\ rc[s] = 0 /\ rc'[s] = 1 => ThrowsAt(s) /\ iter'[s] = iter[s]
    BY <1>1, <2>2, ThrownStays
  <2> QED BY <2>1, <2>2 DEF Next
<1>5. \A s \in Ranks : rc[s] \in {0, 1} /\ rc'[s] \in {0, 1} /\ iter[s] \in Nat
  <2>1. \A s \in Ranks : rc[s] \in {0, 1} /\ iter[s] \in Nat BY <1>1, TypeFacts
  <2>2. \A s \in Ranks : rc'[s] \in {0, 1} BY <1>2 DEF TypeOK
  <2> QED BY <2>1, <2>2
<1>6. SUFFICES ASSUME NEW r \in Ranks, rc'[r] = 1, NEW s \in Ranks
               PROVE  IF rc'[s] = 1 THEN iter'[s] <= iter'[r] \/ iter'[s] = 1
                      ELSE View(s)'.iter = iter'[r] \/ (View(s)'.iter = 1 /\ iter'[r] = 0)
  BY <1>3 DEF Contained
<1>7. iter'[r] = iter[r] /\ (rc'[s] = 1 => iter'[s] = iter[s]) BY <1>4, <1>5, <1>6
<1>8. SameViews
  <2>1. Reduced => rc'[r] = 0 BY DEF Reduced
  <2> QED BY <1>2, <1>6, <2>1
\* The view of r when it threw is that of everybody else.
<1>9. rc[r] = 0 => View(r).iter = iter[r] \/ (View(r).iter = 1 /\ iter[r] = 0)
  BY <1>1, <1>4, <1>6, ViewWhereThrown
<1>10. rc[s] = 0 => View(s).iter = iter[r] \/ (View(s).iter = 1 /\ iter[r] = 0)
  <2>1. CASE rc[r] = 1 BY <2>1 DEF Contained
  <2>2. CASE rc[r] = 0 BY <1>1, <1>9, <2>2 DEF Lockstep
  <2> QED BY <1>5, <2>1, <2>2
<1>11. CASE rc'[s] = 0
  BY <1>7, <1>8, <1>10, <1>11 DEF SameViews
<1>12. CASE rc'[s] = 1 /\ rc[s] = 0
  <2>1. View(s).iter = iter[s] \/ (View(s).iter = 1 /\ iter[s] = 0)
    BY <1>1, <1>4, <1>12, ViewWhereThrown
  <2> QED BY <1>5, <1>7, <1>10, <1>12, <2>1
<1>13. CASE rc'[s] = 1 /\ rc[s] = 1 /\ rc[r] = 1
  BY <1>7, <1>13 DEF Contained
<1>14. CASE rc'[s] = 1 /\ rc[s] = 1 /\ rc[r] = 0
  <2>1. View(r).iter = iter[s] \/ (View(r).iter = 1 /\ iter[s] = 0) BY <1>14 DEF Contained
  <2> QED BY <1>5, <1>7, <1>9, <1>14, <2>1
<1> QED BY <1>5, <1>11, <1>12, <1>13, <1>14

(* A rank that has thrown holds all the others in its own iteration.          *)
THEOREM ContainedInvariance == Spec => []Contained
BY ContainedInit, ContainedStep, Invariance, ProgressInvariance, PTL DEF Spec

(* A rank that throws holds up all the others: none of them gets into an      *)
(* iteration that rank has not reached, and none writes a solution without    *)
(* that rank's part in it.                                                    *)
THEOREM FailureContainedAlways == Spec => []FailureContained
<1>1. ASSUME IInv, Gathered, Contained PROVE FailureContained
  <2>1. SUFFICES ASSUME NEW r \in Ranks, rc[r] = 1
                 PROVE  /\ \A s \in Ranks : iter[s] <= iter[r] \/ iter[s] = 1
                        /\ written => r = root /\ gk[r] = NPlanes
    BY DEF FailureContained
  <2>2. TypeOK /\ Agreement BY <1>1 DEF IInv
  <2>3. ASSUME NEW s \in Ranks PROVE iter[s] <= iter[r] \/ iter[s] = 1
    <3>1. iter[s] \in Nat /\ iter[r] \in Nat /\ rc[s] \in {0, 1} BY <2>2, TypeFacts
    <3>2. CASE rc[s] = 1 BY <1>1, <2>1, <3>2 DEF Contained
    <3>3. CASE rc[s] = 0
      <4>1. View(s).iter = iter[r] \/ (View(s).iter = 1 /\ iter[r] = 0)
        BY <1>1, <2>1, <3>3 DEF Contained
      <4>2. View(s).iter = iter[s] \/ View(s).iter = iter[s] + 1 BY <2>2, ViewRelation
      <4> QED BY <3>1, <4>1, <4>2
    <3> QED BY <3>1, <3>2, <3>3
  <2>4. ASSUME written PROVE r = root /\ gk[r] = NPlanes
    <3>1. gk[root] = NPlanes BY <1>1, <2>4 DEF Gathered, GatheredByRoot
    <3>2. CASE r = root BY <3>1, <3>2
    <3>3. CASE r # root
      <4>1. Received(r) >= NPlanes BY <3>1, MarchAssumption DEF Received
      <4>2. gk[r] = Received(r) + Len(mail[r]) BY <1>1, <3>3 DEF Gathered, GatheredFrom
      <4>3. Len(mail[r]) \in Nat /\ Received(r) \in Nat
        BY <2>2, <3>1, MarchAssumption DEF TypeOK, Received
      <4>4. gk[r] > 0 BY <4>1, <4>2, <4>3, MarchAssumption
      <4> QED BY <1>1, <2>1, <3>3, <4>4 DEF Gathered, GatheredFrom
    <3> QED BY <3>2, <3>3
  <2> QED BY <2>3, <2>4
<1> QED BY <1>1, Invariance, GatheredInvariance, ContainedInvariance, PTL
=============================================================================
