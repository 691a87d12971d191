------------------------- MODULE BufferCallersProofs -------------------------
(***************************************************************************)
(* Proofs about StageHysteresis, and about BufferCallers, which composes   *)
(* it with RiskBuffer.  The argument on the ladder: while the history says *)
(* the stage was reached by easing one rung, the coverage it was eased at  *)
(* is past the upper edge of the rung below by the margin                  *)
(* (EasedPastTheEdge), and tightening needs the coverage back at or below  *)
(* that edge, so the difference exceeds the margin.                        *)
(***************************************************************************)
EXTENDS BufferCallers, RiskBufferProofs

-----------------------------------------------------------------------------
(* The ladder over a moving coverage.                                       *)

\* The stage, the coverage and the history stay in their sets.
THEOREM LadderTypes == LadderSpec => []LadderTypeOK
<1>1. LadderInit => LadderTypeOK
  BY SelectStageInStages DEF LadderInit, LadderTypeOK
<1>2. LadderTypeOK /\ [LadderNext]_ladderVars => LadderTypeOK'
  <2> SUFFICES ASSUME LadderTypeOK, [LadderNext]_ladderVars
               PROVE  LadderTypeOK'
    OBVIOUS
  <2>1. CASE MoveCoverage
    BY <2>1 DEF MoveCoverage, LadderTypeOK
  <2>2. CASE ReassessLadder
    <3>1. NextStage(current, coverage, 100) \in Stages
      BY NextStageShape DEF LadderTypeOK
    <3>2. QED
      BY <2>2, <3>1 DEF ReassessLadder, LadderTypeOK
  <2>3. CASE UNCHANGED ladderVars
    BY <2>3 DEF ladderVars, LadderTypeOK
  <2>4. QED
    BY <2>1, <2>2, <2>3 DEF LadderNext
<1>3. QED
  BY <1>1, <1>2, PTL DEF LadderSpec

\* A coverage at which selectBufferStage answers with a rung at or below k is at
\* or below the upper edge of k: the bands are ordered because the triggers are.
LEMMA BandUnderEdge ==
    ASSUME NEW num \in Nat, NEW k \in Stages, k < Healthy,
           SelectStage(num, 100) <= k
    PROVE  /\ UpperPct(k) \in Int
           /\ num <= UpperPct(k)
<1>1. CASE k = BackingOnly
  BY <1>1, ThresholdsAssumption
     DEF SelectStage, AtMost, Below, UpperPct, Stages,
         BackingOnly, HaltUnwind, Reduce, Draining, Healthy
<1>2. CASE k = HaltUnwind
  BY <1>2, ThresholdsAssumption
     DEF SelectStage, AtMost, Below, UpperPct, Stages,
         BackingOnly, HaltUnwind, Reduce, Draining, Healthy
<1>3. CASE k = Reduce
  BY <1>3, ThresholdsAssumption
     DEF SelectStage, AtMost, Below, UpperPct, Stages,
         BackingOnly, HaltUnwind, Reduce, Draining, Healthy
<1>4. CASE k = Draining
  BY <1>4, ThresholdsAssumption
     DEF SelectStage, AtMost, Below, UpperPct, Stages,
         BackingOnly, HaltUnwind, Reduce, Draining, Healthy
<1>5. QED
  BY <1>1, <1>2, <1>3, <1>4
     DEF Stages, BackingOnly, HaltUnwind, Reduce, Draining, Healthy

\* The upper edge of every stage but healthy is an integer percentage.
LEMMA EdgeInt ==
    ASSUME NEW k \in Stages, k < Healthy
    PROVE  UpperPct(k) \in Int
BY ThresholdsAssumption
   DEF UpperPct, Stages, BackingOnly, HaltUnwind, Reduce, Draining, Healthy

\* With easing capped at one rung, an eased stage was reached past the edge of
\* the rung below it by the margin.
THEOREM EasedPastTheEdgeAtOneRung ==
    ASSUME MaxEaseSteps = 1
    PROVE  LadderSpec => []EasedPastTheEdge
<1>1. LadderInit => EasedPastTheEdge
  BY DEF LadderInit, EasedPastTheEdge
<1>2. LadderTypeOK /\ EasedPastTheEdge /\ [LadderNext]_ladderVars => EasedPastTheEdge'
  <2> SUFFICES ASSUME LadderTypeOK, EasedPastTheEdge, [LadderNext]_ladderVars
               PROVE  EasedPastTheEdge'
    OBVIOUS
  <2>1. CASE MoveCoverage
    BY <2>1 DEF MoveCoverage, EasedPastTheEdge
  <2>2. CASE ReassessLadder
    <3> DEFINE nxt == NextStage(current, coverage, 100)
    <3>1. /\ current \in Stages
          /\ coverage \in Nat
      BY CoverageAssumption DEF LadderTypeOK
    <3>2. /\ nxt \in Stages
          /\ current < SelectStage(coverage, 100)
               => nxt \in current .. SelectStage(coverage, 100) /\ nxt - current <= 1
      BY <3>1, NextStageShape
    <3>3. current' = nxt
      BY <2>2 DEF ReassessLadder
    <3>4. CASE nxt > current
      <4>1. ~AtMost(coverage, 100, UpperPct(current) + EasingMarginPct)
        BY <3>1, <3>4, EasingClearsTheMargin
      <4>2. /\ current < Healthy
            /\ current' = current + 1
        <5>1. current < SelectStage(coverage, 100)
          BY <3>1, <3>2, <3>4, NextStageShape, SelectStageInStages
             DEF Stages, BackingOnly, Healthy
        <5>2. QED
          BY <3>1, <3>2, <3>3, <3>4, <5>1 DEF Stages, BackingOnly, Healthy
      <4>3. /\ UpperPct(current) \in Int
            /\ EasingMarginPct \in Int
        BY <3>1, <4>2, EdgeInt, HysteresisAssumption
      <4>4. coverage > UpperPct(current) + EasingMarginPct
        BY <3>1, <4>1, <4>3 DEF AtMost
      <4>5. easedAt' = coverage
        BY <2>2, <3>3, <3>4 DEF ReassessLadder
      <4>6. current' - 1 = current
        BY <3>1, <4>2 DEF Stages, BackingOnly, Healthy
      <4>7. UpperPct(current' - 1) = UpperPct(current)
        BY <4>6
      <4>8. current' > BackingOnly
        BY <3>1, <4>2 DEF Stages, BackingOnly, Healthy
      <4>9. QED
        BY <4>4, <4>5, <4>7, <4>8 DEF EasedPastTheEdge, UpperPct
    <3>5. CASE nxt < current
      <4>1. easedAt' = NotEased
        BY <2>2, <3>1, <3>2, <3>3, <3>5 DEF ReassessLadder, Stages, BackingOnly, Healthy
      <4>2. QED
        BY <4>1 DEF EasedPastTheEdge
    <3>6. CASE nxt = current
      <4>1. current' = current /\ easedAt' = easedAt
        BY <2>2, <3>1, <3>3, <3>6 DEF ReassessLadder, Stages, BackingOnly, Healthy
      <4>2. QED
        BY <4>1 DEF EasedPastTheEdge, UpperPct
    <3>7. QED
      BY <3>1, <3>2, <3>4, <3>5, <3>6 DEF Stages, BackingOnly, Healthy
  <2>3. CASE UNCHANGED ladderVars
    BY <2>3 DEF ladderVars, EasedPastTheEdge, UpperPct
  <2>4. QED
    BY <2>1, <2>2, <2>3 DEF LadderNext
<1>3. QED
  BY <1>1, <1>2, LadderTypes, PTL DEF LadderSpec

\* With easing capped at one rung (the shipped policy), a stage that was eased
\* into is not tightened again before the coverage has fallen by more than the
\* margin, whatever the triggers and the margin are.
THEOREM NoFlapAtOneRung ==
    ASSUME MaxEaseSteps = 1
    PROVE  LadderSpec => NoFlap
<1>1. LadderTypeOK /\ EasedPastTheEdge /\ [LadderNext]_ladderVars
        => [(current' < current /\ easedAt # NotEased)
              => easedAt - coverage > EasingMarginPct]_ladderVars
  <2> SUFFICES ASSUME LadderTypeOK, EasedPastTheEdge, LadderNext,
                      current' < current, easedAt # NotEased
               PROVE  easedAt - coverage > EasingMarginPct
    BY DEF ladderVars
  <2>1. /\ current \in Stages
        /\ coverage \in Nat
        /\ easedAt \in Nat
    BY CoverageAssumption DEF LadderTypeOK
  <2>2. ReassessLadder
    <3>1. CASE MoveCoverage
      BY <2>1, <3>1 DEF MoveCoverage, Stages, BackingOnly, Healthy
    <3>2. QED
      BY <3>1 DEF LadderNext
  <2> DEFINE raw == SelectStage(coverage, 100)
  <2>3. raw \in Stages
    BY SelectStageInStages
  <2>4. raw < current
    <3>1. current' = NextStage(current, coverage, 100)
      BY <2>2 DEF ReassessLadder
    <3>2. current < raw => current' \in current .. raw
      BY <2>1, <3>1, NextStageShape
    <3>3. raw <= current => current' = raw
      BY <2>1, <3>1, NextStageShape
    <3>4. QED
      BY <2>1, <2>3, <3>2, <3>3 DEF Stages, BackingOnly, Healthy
  <2>5. /\ current - 1 \in Stages
        /\ current - 1 < Healthy
        /\ raw <= current - 1
    BY <2>1, <2>3, <2>4 DEF Stages, BackingOnly, Healthy
  <2>6. /\ UpperPct(current - 1) \in Int
        /\ coverage <= UpperPct(current - 1)
    BY <2>1, <2>5, BandUnderEdge
  <2>7. easedAt > UpperPct(current - 1) + EasingMarginPct
    BY DEF EasedPastTheEdge
  <2>8. QED
    BY <2>1, <2>6, <2>7, HysteresisAssumption
<1>2. QED
  BY <1>1, LadderTypes, EasedPastTheEdgeAtOneRung, PTL DEF LadderSpec, NoFlap

\* nextStage driven by a moving coverage implements the abstract ladder, for
\* every cap on the rungs eased.
THEOREM LadderImplementsPosture == LadderSpec => LadderFollowsPosture
<1>1. LadderInit => LadderPosture!Init
  <2>1. SelectStage(coverage, 100) \in Stages
    BY SelectStageInStages
  <2>2. QED
    BY <2>1 DEF LadderInit, impliedStage, LadderPosture!Init, LadderPosture!Rungs,
                Stages, BackingOnly
<1>2. LadderTypeOK /\ [LadderNext]_ladderVars => [LadderPosture!Next]_<<current, impliedStage>>
  <2> SUFFICES ASSUME LadderTypeOK, [LadderNext]_ladderVars
               PROVE  [LadderPosture!Next]_<<current, impliedStage>>
    OBVIOUS
  <2>1. CASE MoveCoverage
    <3>1. SelectStage(coverage', 100) \in Stages
      BY SelectStageInStages
    <3>2. impliedStage' = SelectStage(coverage', 100)
      BY DEF impliedStage, SelectStage, AtMost, Below
    <3>3. impliedStage' \in LadderPosture!Rungs
      BY <3>1, <3>2 DEF LadderPosture!Rungs, Stages, BackingOnly
    <3>4. QED
      BY <2>1, <3>3 DEF MoveCoverage, LadderPosture!Next, LadderPosture!Drift
  <2>2. CASE ReassessLadder
    <3>1. coverage' = coverage /\ current' = NextStage(current, coverage, 100)
      BY <2>2 DEF ReassessLadder
    <3>2. impliedStage' = impliedStage
      BY <3>1 DEF impliedStage, SelectStage, AtMost, Below
    <3>3. current \in Stages /\ impliedStage \in Stages
      BY SelectStageInStages DEF LadderTypeOK, impliedStage
    <3>4. /\ impliedStage <= current => current' = impliedStage
          /\ current < impliedStage
               => current' \in current .. impliedStage /\ current' - current <= MaxEaseSteps
      BY <3>1, <3>3, NextStageShape DEF impliedStage
    <3>5. CASE impliedStage <= current
      BY <3>2, <3>4, <3>5 DEF LadderPosture!Next, LadderPosture!Tighten
    <3>6. CASE current < impliedStage
      BY <3>2, <3>4, <3>6 DEF LadderPosture!Next, LadderPosture!Ease
    <3>7. QED
      BY <3>3, <3>5, <3>6 DEF Stages, BackingOnly, Healthy
  <2>3. CASE UNCHANGED ladderVars
    <3>1. current' = current /\ impliedStage' = impliedStage
      BY <2>3 DEF ladderVars, impliedStage, SelectStage, AtMost, Below
    <3>2. QED
      BY <3>1
  <2>4. QED
    BY <2>1, <2>2, <2>3 DEF LadderNext
<1>3. QED
  BY <1>1, <1>2, LadderTypes, PTL DEF LadderSpec, LadderFollowsPosture, LadderPosture!Spec

-----------------------------------------------------------------------------
(* The two callers.                                                         *)

\* A step of a caller is, for the ladder and for the book, one of their own
\* steps or a stutter.
LEMMA CallersStep ==
    [CallersNext]_callersVars => [Next]_vars /\ [LadderNext]_ladderVars
<1>. SUFFICES ASSUME [CallersNext]_callersVars
              PROVE  [Next]_vars /\ [LadderNext]_ladderVars
  OBVIOUS
<1>1. CASE Monitor
  BY <1>1 DEF Monitor
<1>2. CASE Operate
  BY <1>2 DEF Operate
<1>3. CASE UNCHANGED callersVars
  BY <1>3 DEF callersVars
<1>. QED  BY <1>1, <1>2, <1>3 DEF CallersNext

\* Either caller uses the ladder and the book as those are specified alone.
THEOREM CallersImplementParts == CallersSpec => Spec /\ LadderSpec
<1>1. CallersInit => Init /\ LadderInit
  BY DEF CallersInit
<1>. QED  BY <1>1, CallersStep, PTL DEF CallersSpec, Spec, LadderSpec

\* The caller stays what it is, every stage stays on the ladder and the balance
\* never goes negative.
THEOREM CallersTypes == CallersSpec => []CallersTypeOK
<1>1. CallersInit => caller \in Callers
  BY DEF CallersInit
<1>2. caller \in Callers /\ [CallersNext]_callersVars => (caller \in Callers)'
  BY DEF CallersNext, Monitor, Operate, callersVars
<1>3. CallersSpec => [](caller \in Callers)
  BY <1>1, <1>2, PTL DEF CallersSpec
<1>4. CallersSpec => [](TypeOK /\ LadderTypeOK)
  BY CallersImplementParts, TypeCorrect, LadderTypes, PTL
<1>5. caller \in Callers /\ TypeOK /\ LadderTypeOK => CallersTypeOK
  BY DEF CallersTypeOK
<1>. QED  BY <1>3, <1>4, <1>5, PTL

\* What is proved of the book and of the ladder holds of their callers, for every
\* policy: no loss vanishes or overtakes the buffer, the target and the gate's
\* margin are kept, an empty supply stays empty, and both stages follow the
\* abstract posture.
THEOREM CallersAreSafe ==
    CallersSpec => /\ []LossConservation
                   /\ BufferAbsorbsFirst
                   /\ DiscretionaryKeepsTarget
                   /\ ReopensWithMargin
                   /\ EmptySupplyIsFinal
                   /\ FollowsPosture
                   /\ LadderFollowsPosture
BY CallersImplementParts, LossIsConserved, BufferIsFirstLoss,
   DiscretionaryNeverBelowTarget, GateReopensWithMargin, EmptySupplyStaysEmpty,
   BufferFollowsPosture, LadderImplementsPosture, PTL

\* With easing capped at one rung, the shipped policy, no caller sees a stage flap.
THEOREM CallersDoNotFlap ==
    ASSUME MaxEaseSteps = 1
    PROVE  CallersSpec => []EasedPastTheEdge /\ NoFlap
BY CallersImplementParts, EasedPastTheEdgeAtOneRung, NoFlapAtOneRung, PTL

=============================================================================
