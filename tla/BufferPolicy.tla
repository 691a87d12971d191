---------------------------- MODULE BufferPolicy ----------------------------
(***************************************************************************)
(* The decision functions of packages/risk-buffer: the stage ladder of     *)
(* playbook.ts, the ledger arithmetic of accounting.ts and the mint gate   *)
(* of carry-gate.ts, as pure operators.                                    *)
(*                                                                         *)
(* The code computes in floating point on ratios.  Here a ratio is a pair  *)
(* of integers and every comparison is cross-multiplied, so the comparison *)
(* is the exact one the ratio stands for.  A percentage constant such as   *)
(* HealthyPct = 75 stands for the code's 0.75.                             *)
(***************************************************************************)
EXTENDS Integers

CONSTANTS
    BackingOnlyPct, ReducePct, DrainingPct, HealthyPct,  \* triggers, % of target
    EasingMarginPct,      \* easingMarginFractionOfTarget, % of target
    MaxEaseSteps,         \* maxEaseStepsPerTransition
    TargetPerUnit,        \* buffer target, in buffer units, of one unit of supply
    TargetBps,            \* the same target in bps of supply (buffer_target_bps)
    MinRunwayDays,        \* CarryGateConfig.minRunwayDays
    ReopenMarginBps,      \* reopenMarginAnnualRate, restated per day in bps
    NoObservation         \* the null net carry observation

\* resolveStageThresholds throws unless the triggers are finite and ordered.
ASSUME ThresholdsAssumption ==
    /\ BackingOnlyPct \in Int /\ ReducePct \in Int
    /\ DrainingPct \in Int /\ HealthyPct \in Int
    /\ BackingOnlyPct <= ReducePct
    /\ ReducePct <= DrainingPct
    /\ DrainingPct <= HealthyPct

\* nextStage throws unless the margin is finite and the step count an integer
\* of at least one.  Nothing in the code refuses a negative margin.
ASSUME HysteresisAssumption ==
    /\ EasingMarginPct \in Int
    /\ MaxEaseSteps \in Nat \ {0}

\* A zero target makes coverageFractionOfTarget null at every supply: the ladder
\* is then never consulted, so the model takes the target as positive.
ASSUME TargetAssumption ==
    /\ TargetPerUnit \in Nat \ {0}
    /\ TargetBps \in Nat \ {0}

\* resolveConfig throws otherwise.
ASSUME GateAssumption ==
    /\ MinRunwayDays \in Nat \ {0}
    /\ ReopenMarginBps \in Nat
    /\ NoObservation \notin Int

-----------------------------------------------------------------------------
(* Stages.  BUFFER_STAGE_ORDER's index doubles as a severity rank in the    *)
(* code, and the rank is the stage here: lower is more defensive.           *)

BackingOnly == 0
HaltUnwind  == 1
Reduce      == 2
Draining    == 3
Healthy     == 4
Stages      == BackingOnly .. Healthy

\* num / den <= pct / 100 and num / den < pct / 100, for den > 0.
AtMost(num, den, pct) == 100 * num <= pct * den
Below(num, den, pct)  == 100 * num < pct * den

\* selectBufferStage at the coverage num / den of target, num >= 0.
SelectStage(num, den) ==
    IF AtMost(num, den, BackingOnlyPct) THEN BackingOnly
    ELSE IF Below(num, den, ReducePct) THEN HaltUnwind
    ELSE IF AtMost(num, den, DrainingPct) THEN Reduce
    ELSE IF AtMost(num, den, HealthyPct) THEN Draining
    ELSE Healthy

\* bufferStageUpperBound, for the stages that have one.
UpperPct(stg) ==
    CASE stg = BackingOnly -> BackingOnlyPct
      [] stg = HaltUnwind  -> ReducePct
      [] stg = Reduce      -> DrainingPct
      [] stg = Draining    -> HealthyPct

Least(a, b) == IF a <= b THEN a ELSE b

\* Mutant: a recovery of several rungs is refused instead of being capped.
NextStageRefusesLongClimb(cur, num, den) ==
    LET raw == SelectStage(num, den)
    IN  IF raw <= cur THEN raw
        ELSE IF AtMost(num, den, UpperPct(cur) + EasingMarginPct) THEN cur
        ELSE IF raw > cur + MaxEaseSteps THEN cur
        ELSE raw

\* Mutant: easing forgets the margin.
NextStageNoMargin(cur, num, den) ==
    LET raw == SelectStage(num, den)
    IN  IF raw <= cur THEN raw ELSE Least(raw, cur + MaxEaseSteps)

\* Mutant: easing jumps straight to the stage coverage implies.
NextStageNoCap(cur, num, den) ==
    LET raw == SelectStage(num, den)
    IN  IF raw <= cur THEN raw
        ELSE IF AtMost(num, den, UpperPct(cur) + EasingMarginPct) THEN cur
        ELSE raw

\* Mutant: the margin also delays tightening.
NextStageSlowToTighten(cur, num, den) ==
    LET raw == SelectStage(num, den)
    IN  IF raw < cur
        THEN IF AtMost(num, den, UpperPct(raw) - EasingMarginPct) THEN raw ELSE cur
        ELSE IF raw = cur THEN cur
        ELSE IF AtMost(num, den, UpperPct(cur) + EasingMarginPct) THEN cur
        ELSE Least(raw, cur + MaxEaseSteps)

\* nextStage: tighten at once, ease only past the margin and by few rungs.
NextStage(cur, num, den) ==
    LET raw == SelectStage(num, den)
    IN  IF raw <= cur THEN raw
        ELSE IF AtMost(num, den, UpperPct(cur) + EasingMarginPct) THEN cur
        ELSE Least(raw, cur + MaxEaseSteps)

\* negativeFundingPlaybook(stage).pauseMint
PauseMint(stg) == stg <= Reduce

-----------------------------------------------------------------------------
(* Ledger.                                                                  *)

\* bufferTargetUsd
Target(supply) == supply * TargetPerUnit

\* Mutant: the balance is not floored at zero.
ApplyFlowsUnfloored(balance, in, out) ==
    LET raw == balance + in - out
    IN  [balance |-> raw, uncovered |-> IF raw < 0 THEN -raw ELSE 0]

\* Mutant: the loss beyond the balance is clamped away.
ApplyFlowsClamped(balance, in, out) ==
    LET raw == balance + in - out
    IN  [balance |-> IF raw < 0 THEN 0 ELSE raw, uncovered |-> 0]

\* applyBufferFlows, the flows already summed over their classes.
ApplyFlows(balance, in, out) ==
    LET raw == balance + in - out
    IN  [balance   |-> IF raw < 0 THEN 0 ELSE raw,
         uncovered |-> IF raw < 0 THEN -raw ELSE 0]

\* BufferDrawPurpose, the three first-loss purposes as one class.
Purposes == {"first_loss", "hedge_margin_topup", "discretionary"}

\* Mutant: the healthy stage alone admits a discretionary draw.
GrantedDrawNoSurplus(balance, supply, amount, purpose, stg) ==
    IF balance <= 0 THEN 0
    ELSE IF purpose # "discretionary" THEN Least(amount, balance)
    ELSE IF stg # Healthy THEN 0
    ELSE Least(amount, balance)

\* Mutant: first-loss draws too stop at the target.
GrantedDrawHoardsTarget(balance, supply, amount, purpose, stg) ==
    LET surplus == balance - Target(supply)
    IN  IF surplus <= 0 \/ (purpose = "discretionary" /\ stg # Healthy) THEN 0
        ELSE Least(amount, surplus)

\* canDrawFromBuffer(...).allowedAmountUsd.  The stage is an argument, so a
\* caller may pass one that no longer matches the balance.
GrantedDraw(balance, supply, amount, purpose, stg) ==
    LET surplus == balance - Target(supply)
    IN  IF balance <= 0 THEN 0
        ELSE IF purpose # "discretionary" THEN Least(amount, balance)
        ELSE IF stg # Healthy \/ surplus <= 0 THEN 0
        ELSE Least(amount, surplus)

-----------------------------------------------------------------------------
(* Mint gate.  carry is the observed net carry per day, in bps.             *)

\* carry / 10000 - margin / 10000 >= -(b / MinRunwayDays), with the buffer
\* fraction b = balance / supply restated through the target.
ClearsFloor(carry, balance, supply, margin) ==
    (carry - margin) * MinRunwayDays * Target(supply) >= -(balance * TargetBps)

\* Mutant: a gate closed for want of data reopens without the margin.
GateAllowsForgetful(carry, balance, supply, closed) ==
    /\ supply # 0
    /\ carry # NoObservation
    /\ ClearsFloor(carry, balance, supply, 0)

\* Mutant: an unmeasurable buffer fraction is waved through.
GateAllowsUnmeasured(carry, balance, supply, closed) ==
    \/ supply = 0
    \/ /\ carry # NoObservation
       /\ ClearsFloor(carry, balance, supply, 0)
       /\ closed => ClearsFloor(carry, balance, supply, ReopenMarginBps)

\* evaluateCarryGate(...).mintAllowed.  The buffer fraction is null at zero
\* supply and the gate fails closed on either missing input.
GateAllows(carry, balance, supply, closed) ==
    /\ supply # 0
    /\ carry # NoObservation
    /\ ClearsFloor(carry, balance, supply, 0)
    /\ (ReopenMarginBps > 0 /\ closed)
         => ClearsFloor(carry, balance, supply, ReopenMarginBps)

=============================================================================
