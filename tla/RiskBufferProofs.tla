-------------------------- MODULE RiskBufferProofs --------------------------
(***************************************************************************)
(* Proofs about RiskBuffer, for every policy and every bound.  TypeOK is   *)
(* inductive; the ledger facts come from ApplyFlowsConserves and           *)
(* GrantedDrawBounds, the ladder facts from NextStageShape.                *)
(***************************************************************************)
EXTENDS RiskBuffer, BufferPolicyProofs

USE DEF ledger

\* The type invariant is inductive: each action keeps every variable in its set.
LEMMA TypeStep ==
    ASSUME TypeOK, [Next]_vars
    PROVE  TypeOK'
<1> USE BookAssumption DEF TypeOK
<1>1. ASSUME NEW in \in Amounts, NEW out \in Amounts, SettleEpoch(in, out)
      PROVE  TypeOK'
  <2>1. in \in Nat /\ out \in Nat
    BY <1>1
  <2>2. LET r == ApplyFlows(balance, in, out)
        IN  r.balance \in Nat /\ r.uncovered \in Nat
    BY <2>1, ApplyFlowsConserves
  <2>3. QED
    BY <1>1, <2>1, <2>2 DEF SettleEpoch
<1>2. ASSUME NEW amount \in Amounts, NEW purpose \in Purposes,
             Draw(amount, purpose)
      PROVE  TypeOK'
  <2> DEFINE g == GrantedDraw(balance, supply, amount, purpose, stage)
  <2>1. amount \in Nat /\ supply \in Nat
    BY <1>2
  <2>2. g \in Nat /\ g <= amount
    BY <2>1, GrantedDrawBounds
  <2>3. ApplyFlows(balance, 0, g).balance \in Nat
    BY <2>2, ApplyFlowsConserves
  <2>4. QED
    BY <1>2, <2>1, <2>2, <2>3 DEF Draw
<1>3. CASE Reassess
  <2>1. NextStage(stage, balance, Target(supply)) \in Stages
    BY NextStageShape
  <2>2. QED
    BY <1>3, <2>1 DEF Reassess
<1>4. ASSUME NEW c \in Carries \cup {NoObservation}, Observe(c)
      PROVE  TypeOK'
  BY <1>4 DEF Observe
<1>5. ASSUME NEW m \in 1 .. MaxSupply, Mint(m)
      PROVE  TypeOK'
  <2>1. m * FeePerUnit \in Nat
    BY BookAssumption
  <2>2. ApplyFlows(balance, m * FeePerUnit, 0).balance \in Nat
    BY <2>1, ApplyFlowsConserves
  <2>3. GateAllows(carry, balance, supply, gateClosed) \in BOOLEAN
    BY DEF GateAllows
  <2>4. QED
    BY <1>5, <2>1, <2>2, <2>3 DEF Mint
<1>6. ASSUME NEW m \in 1 .. MaxSupply, Redeem(m)
      PROVE  TypeOK'
  <2>1. m * FeePerUnit \in Nat
    BY BookAssumption
  <2>2. ApplyFlows(balance, m * FeePerUnit, 0).balance \in Nat
    BY <2>1, ApplyFlowsConserves
  <2>3. QED
    BY <1>6, <2>1, <2>2 DEF Redeem
<1>7. CASE UNCHANGED vars
  BY <1>7 DEF vars
<1>8. QED
  BY <1>1, <1>2, <1>3, <1>4, <1>5, <1>6, <1>7 DEF Next

\* Every variable stays in its set; in particular the balance never goes
\* negative, through any sequence of flows, draws, mints and redemptions.
THEOREM TypeCorrect == Spec => []TypeOK
<1>1. Init => TypeOK
  <2> SUFFICES ASSUME Init
               PROVE  TypeOK
    OBVIOUS
  <2>1. stage \in Stages
    BY SelectStageInStages DEF Init
  <2>2. supply \in 0 .. MaxSupply
    BY BookAssumption DEF Init
  <2>3. balance \in Nat
    BY BookAssumption DEF Init
  <2>4. passedThrough \in Nat /\ posted \in Int
    BY DEF Init
  <2>5. carry \in Carries \cup {NoObservation} /\ gateClosed \in BOOLEAN
    BY DEF Init
  <2>6. QED
    BY <2>1, <2>2, <2>3, <2>4, <2>5 DEF TypeOK
<1>2. TypeOK /\ [Next]_vars => TypeOK'
  BY TypeStep
<1>3. QED
  BY <1>1, <1>2, PTL DEF Spec

-----------------------------------------------------------------------------
(* The ledger.                                                              *)

\* What a settled epoch does to the ledger.
LEMMA SettleEpochLedger ==
    ASSUME TypeOK, NEW in \in Amounts, NEW out \in Amounts, SettleEpoch(in, out)
    PROVE  /\ balance' - passedThrough' - posted' = balance - passedThrough - posted
           /\ passedThrough' > passedThrough => balance' = 0
<1>1. in \in Nat /\ out \in Nat
  BY BookAssumption
<1>2. LET r == ApplyFlows(balance, in, out)
      IN  /\ r.balance \in Nat /\ r.uncovered \in Nat
          /\ r.balance = balance + in - out + r.uncovered
          /\ r.uncovered > 0 => r.balance = 0
  BY <1>1, ApplyFlowsConserves DEF TypeOK
<1>3. QED
  BY <1>1, <1>2 DEF SettleEpoch, TypeOK

\* What a draw does to the ledger.
LEMMA DrawLedger ==
    ASSUME TypeOK, NEW amount \in Amounts, NEW purpose \in Purposes,
           Draw(amount, purpose)
    PROVE  /\ balance' = balance - GrantedDraw(balance, supply, amount, purpose, stage)
           /\ balance' - passedThrough' - posted' = balance - passedThrough - posted
           /\ passedThrough' > passedThrough => balance' = 0
<1> DEFINE g == GrantedDraw(balance, supply, amount, purpose, stage)
           r == ApplyFlows(balance, 0, g)
<1>1. amount \in Nat /\ balance \in Nat /\ supply \in Nat
  BY BookAssumption DEF TypeOK
<1>2. /\ g \in Nat /\ g <= amount /\ g <= balance
      /\ (purpose # "discretionary" /\ g < amount) => g = balance
  BY <1>1, GrantedDrawBounds
<1> HIDE DEF g
<1>3. r.balance = balance - g
  BY <1>1, <1>2 DEF ApplyFlows
<1>4. balance' = balance - g
  BY <1>3 DEF Draw, g
<1>5. /\ passedThrough' = passedThrough + (IF purpose = "first_loss" THEN amount - g ELSE 0)
      /\ posted' = posted - g - (IF purpose = "first_loss" THEN amount - g ELSE 0)
  BY DEF Draw, g
<1>6. passedThrough \in Nat /\ posted \in Int
  BY DEF TypeOK
<1>7. CASE purpose = "first_loss"
  BY <1>1, <1>2, <1>4, <1>5, <1>6, <1>7 DEF g
<1>8. CASE purpose # "first_loss"
  BY <1>1, <1>2, <1>4, <1>5, <1>6, <1>8 DEF g
<1>9. QED
  BY <1>7, <1>8

\* What a fee of a mint or a redemption does to the ledger.
LEMMA FeeLedger ==
    ASSUME TypeOK, NEW m \in 1 .. MaxSupply
    PROVE  /\ m * FeePerUnit \in Nat
           /\ ApplyFlows(balance, m * FeePerUnit, 0).balance = balance + m * FeePerUnit
<1>1. m * FeePerUnit \in Nat
  BY BookAssumption
<1>2. balance \in Nat
  BY DEF TypeOK
<1>3. QED
  BY <1>1, <1>2 DEF ApplyFlows

\* Every step keeps the ledger balanced and passes a loss through only when it
\* leaves the buffer empty.
LEMMA StepLedger ==
    ASSUME TypeOK, Next
    PROVE  /\ balance' - passedThrough' - posted' = balance - passedThrough - posted
           /\ passedThrough' > passedThrough => balance' = 0
<1>1. ASSUME NEW in \in Amounts, NEW out \in Amounts, SettleEpoch(in, out)
      PROVE  /\ balance' - passedThrough' - posted' = balance - passedThrough - posted
             /\ passedThrough' > passedThrough => balance' = 0
  BY <1>1, SettleEpochLedger
<1>2. ASSUME NEW amount \in Amounts, NEW purpose \in Purposes, Draw(amount, purpose)
      PROVE  /\ balance' - passedThrough' - posted' = balance - passedThrough - posted
             /\ passedThrough' > passedThrough => balance' = 0
  BY <1>2, DrawLedger
<1>3. ASSUME NEW m \in 1 .. MaxSupply, Mint(m) \/ Redeem(m)
      PROVE  /\ balance' - passedThrough' - posted' = balance - passedThrough - posted
             /\ passedThrough' > passedThrough => balance' = 0
  <2>1. /\ m * FeePerUnit \in Nat
        /\ ApplyFlows(balance, m * FeePerUnit, 0).balance = balance + m * FeePerUnit
    BY FeeLedger
  <2>2. /\ passedThrough' = passedThrough
        /\ \/ balance' = balance + m * FeePerUnit /\ posted' = posted + m * FeePerUnit
           \/ balance' = balance /\ posted' = posted
    BY <1>3, <2>1 DEF Mint, Redeem
  <2>3. QED
    BY <2>1, <2>2 DEF TypeOK
<1>4. CASE Reassess
  BY <1>4 DEF Reassess, TypeOK
<1>5. ASSUME NEW c \in Carries \cup {NoObservation}, Observe(c)
      PROVE  /\ balance' - passedThrough' - posted' = balance - passedThrough - posted
             /\ passedThrough' > passedThrough => balance' = 0
  BY <1>5 DEF Observe, TypeOK
<1>6. QED
  BY <1>1, <1>2, <1>3, <1>4, <1>5 DEF Next

\* No loss vanishes, for every policy, every set of amounts and every bound.
THEOREM LossIsConserved == Spec => []LossConservation
<1>1. Init => LossConservation
  BY BookAssumption DEF Init, LossConservation
<1>2. TypeOK /\ LossConservation /\ [Next]_vars => LossConservation'
  <2> SUFFICES ASSUME TypeOK, LossConservation, [Next]_vars
               PROVE  LossConservation'
    OBVIOUS
  <2>1. CASE Next
    <3>1. balance' - passedThrough' - posted' = balance - passedThrough - posted
      BY <2>1, StepLedger
    <3>2. QED
      BY <3>1 DEF LossConservation
  <2>2. CASE UNCHANGED vars
    BY <2>2 DEF vars, LossConservation
  <2>3. QED
    BY <2>1, <2>2
<1>3. QED
  BY <1>1, <1>2, TypeCorrect, PTL DEF Spec

\* The buffer is exhausted before any loss reaches backing and staker NAV.
THEOREM BufferIsFirstLoss == Spec => BufferAbsorbsFirst
<1>1. TypeOK /\ [Next]_vars => [passedThrough' > passedThrough => balance' = 0]_vars
  BY StepLedger DEF vars
<1>2. QED
  BY <1>1, TypeCorrect, PTL DEF Spec, BufferAbsorbsFirst

\* A discretionary draw leaves the target in place and needs the healthy stage,
\* however old the stage the caller hands over.
THEOREM DiscretionaryNeverBelowTarget == Spec => DiscretionaryKeepsTarget
<1>1. TypeOK /\ [Next]_vars
        => [DiscretionaryDrawIsSurplus]_vars
  <2> SUFFICES ASSUME TypeOK, NEW amount \in Amounts,
                      Draw(amount, "discretionary"), balance' < balance
               PROVE  balance' >= Target(supply) /\ stage = Healthy
    BY DEF vars, DiscretionaryDrawIsSurplus
  <2> DEFINE g == GrantedDraw(balance, supply, amount, "discretionary", stage)
  <2>1. amount \in Nat /\ balance \in Nat /\ supply \in Nat
    BY BookAssumption DEF TypeOK
  <2>2. g \in Nat
    BY <2>1, GrantedDrawBounds
  <2>3. balance' = balance - g
    BY DrawLedger DEF Purposes
  <2>4. g > 0
    BY <2>1, <2>2, <2>3
  <2>5. QED
    BY <2>1, <2>3, <2>4, DiscretionaryGrant
<1>2. QED
  BY <1>1, TypeCorrect, PTL DEF Spec, DiscretionaryKeepsTarget

-----------------------------------------------------------------------------
(* The mint gate.                                                           *)

\* A step that reopens the gate is a mint the gate admitted while closed.
LEMMA OnlyAdmissionReopens ==
    ASSUME TypeOK, Next, gateClosed, ~gateClosed'
    PROVE  GateAllows(carry, balance, supply, TRUE)
<1>1. ASSUME NEW m \in 1 .. MaxSupply, Mint(m)
      PROVE  GateAllows(carry, balance, supply, TRUE)
  <2>1. gateClosed = TRUE
    BY DEF TypeOK
  <2>2. GateAllows(carry, balance, supply, gateClosed)
    BY <1>1 DEF Mint
  <2>3. QED
    BY <2>1, <2>2
<1>2. CASE ~ \E m \in 1 .. MaxSupply : Mint(m)
  BY <1>2 DEF Next, SettleEpoch, Draw, Reassess, Observe, Redeem
<1>3. QED
  BY <1>1, <1>2

\* The gate reopens only with the margin, whatever closed it.
THEOREM GateReopensWithMargin == Spec => ReopensWithMargin
<1>1. TypeOK /\ [Next]_vars
        => [(gateClosed /\ ~gateClosed')
              => /\ carry # NoObservation
                 /\ ClearsFloor(carry, balance, supply, ReopenMarginBps)]_vars
  <2> SUFFICES ASSUME TypeOK, Next, gateClosed, ~gateClosed'
               PROVE  /\ carry # NoObservation
                      /\ ClearsFloor(carry, balance, supply, ReopenMarginBps)
    BY DEF vars
  <2>1. GateAllows(carry, balance, supply, TRUE)
    BY OnlyAdmissionReopens
  <2>2. CASE ReopenMarginBps > 0
    BY <2>1, <2>2 DEF GateAllows
  <2>3. CASE ReopenMarginBps = 0
    BY <2>1, <2>3 DEF GateAllows
  <2>4. QED
    BY <2>2, <2>3, GateAssumption
<1>2. QED
  BY <1>1, TypeCorrect, PTL DEF Spec, ReopensWithMargin

\* A supply redeemed to zero stays at zero.
THEOREM EmptySupplyStaysEmpty == Spec => EmptySupplyIsFinal
<1>1. TypeOK /\ [Next]_vars => [supply = 0 => supply' = 0]_vars
  <2> SUFFICES ASSUME TypeOK, Next, supply = 0
               PROVE  supply' = 0
    BY DEF vars
  <2>1. ASSUME NEW m \in 1 .. MaxSupply, Mint(m)
        PROVE  supply' = 0
    BY <2>1 DEF Mint, GateAllows
  <2>2. ASSUME NEW m \in 1 .. MaxSupply, Redeem(m)
        PROVE  supply' = 0
    BY <2>2, BookAssumption DEF Redeem
  <2>3. CASE ~ \E m \in 1 .. MaxSupply : Mint(m) \/ Redeem(m)
    BY <2>3 DEF Next, SettleEpoch, Draw, Reassess, Observe
  <2>4. QED
    BY <2>1, <2>2, <2>3
<1>2. QED
  BY <1>1, TypeCorrect, PTL DEF Spec, EmptySupplyIsFinal

-----------------------------------------------------------------------------
(* The ladder.                                                              *)

\* The stage kept by the caller follows the abstract ladder through every
\* interleaving of flows, draws, mints, redemptions and reassessments.
THEOREM BufferFollowsPosture == Spec => FollowsPosture
<1>1. Init => Posture!Init
  <2> SUFFICES ASSUME Init
               PROVE  Posture!Init
    OBVIOUS
  <2>1. supply # 0 /\ implied = stage
    BY BookAssumption DEF Init, implied
  <2>2. stage \in Posture!Rungs
    BY SelectStageInStages DEF Init, Posture!Rungs, Stages, BackingOnly
  <2>3. QED
    BY <2>1, <2>2 DEF Posture!Init
<1>2. TypeOK /\ TypeOK' /\ [Next]_vars => [Posture!Next]_<<stage, implied>>
  <2> SUFFICES ASSUME TypeOK, TypeOK', [Next]_vars
               PROVE  [Posture!Next]_<<stage, implied>>
    OBVIOUS
  <2>1. implied' \in Posture!Rungs
    <3>1. implied' = IF supply' = 0 THEN stage'
                     ELSE SelectStage(balance', Target(supply'))
      BY DEF implied, SelectStage, Target, AtMost, Below
    <3>2. SelectStage(balance', Target(supply')) \in Stages
      BY SelectStageInStages
    <3>3. QED
      BY <3>1, <3>2 DEF TypeOK, Posture!Rungs, Stages, BackingOnly
  <2>2. CASE Reassess
    <3> DEFINE raw == SelectStage(balance, Target(supply))
    <3>1. implied = raw
      BY <2>2 DEF Reassess, implied
    <3>2. implied' = implied
      <4>1. balance' = balance /\ supply' = supply /\ supply # 0
        BY <2>2 DEF Reassess
      <4>2. QED
        BY <4>1 DEF implied, SelectStage, Target, AtMost, Below
    <3>3. stage' = NextStage(stage, balance, Target(supply))
      BY <2>2 DEF Reassess
    <3>4. stage \in Stages
      BY DEF TypeOK
    <3>5. /\ raw <= stage => stage' = raw
          /\ stage < raw => stage' \in stage .. raw /\ stage' - stage <= MaxEaseSteps
      BY <3>3, <3>4, NextStageShape
    <3>6. raw \in Stages
      BY SelectStageInStages
    <3> HIDE DEF raw
    <3>7. CASE raw <= stage
      BY <3>1, <3>2, <3>5, <3>7 DEF Posture!Next, Posture!Tighten
    <3>8. CASE stage < raw
      BY <3>1, <3>2, <3>5, <3>8 DEF Posture!Next, Posture!Ease
    <3>9. QED
      BY <3>4, <3>6, <3>7, <3>8 DEF Stages, BackingOnly, Healthy
  <2>3. CASE Next /\ ~Reassess
    <3>1. stage' = stage
      BY <2>3 DEF Next, SettleEpoch, Draw, Observe, Mint, Redeem
    <3>2. QED
      BY <2>1, <3>1 DEF Posture!Next, Posture!Drift
  <2>4. CASE UNCHANGED vars
    <3>1. stage' = stage /\ implied' = implied
      BY <2>4 DEF vars, implied, SelectStage, Target, AtMost, Below
    <3>2. QED
      BY <3>1
  <2>5. QED
    BY <2>2, <2>3, <2>4
<1>3. QED
  BY <1>1, <1>2, TypeCorrect, PTL DEF Spec, FollowsPosture, Posture!Spec

=============================================================================
