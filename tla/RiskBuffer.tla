----------------------------- MODULE RiskBuffer -----------------------------
(***************************************************************************)
(* The insurance buffer run through its life with the functions of         *)
(* packages/risk-buffer.  Those functions are pure, so the state is what   *)
(* their caller keeps between two calls: the buffer and the supply it      *)
(* covers, the stage last selected, whether the mint gate last refused,    *)
(* and the current net carry observation.  Each call is an action, and     *)
(* nothing orders the calls: a draw or a mint may run on a stage that was  *)
(* selected before the balance or the supply moved.                        *)
(*                                                                         *)
(* Supply itself moves through mint and redeem in the on-chain program,    *)
(* which is not in this repository; Mint and Redeem model it from what     *)
(* carry-gate.ts, playbook.ts and accounting.ts say of it.                 *)
(***************************************************************************)
EXTENDS BufferPolicy

CONSTANTS
    OpeningBalance,
    Amounts,              \* amounts of a flow or a draw, in buffer units
    Carries,              \* net carry observations, in bps per day
    MaxSupply,            \* bound on the supply, in supply units
    MaxBalance,           \* bound on the buffer balance
    MaxLoss,              \* bound on the loss passed through
    FeePerUnit            \* mint and redeem fee on one unit of supply

ASSUME BookAssumption ==
    /\ OpeningBalance \in Nat /\ FeePerUnit \in Nat
    /\ Amounts \subseteq Nat
    /\ Carries \subseteq Int
    /\ MaxSupply \in Nat \ {0}
    /\ MaxBalance \in Nat /\ MaxLoss \in Nat

VARIABLES
    balance,              \* BufferState.balanceUsd
    supply,               \* BufferState.coveredSupplyUsd
    stage,                \* the BufferStage the caller holds
    carry,                \* CarryGateInput.netCarry
    gateClosed,           \* CarryGateInput.previouslyBlocked
    passedThrough,        \* history: losses that reached backing and staker NAV
    posted                \* history: net of everything posted against the buffer

vars == <<balance, supply, stage, carry, gateClosed, passedThrough, posted>>
ledger == <<balance, passedThrough, posted>>

TypeOK ==
    /\ balance \in Nat
    /\ supply \in 0 .. MaxSupply
    /\ stage \in Stages
    /\ carry \in Carries \cup {NoObservation}
    /\ gateClosed \in BOOLEAN
    /\ passedThrough \in Nat
    /\ posted \in Int

Init ==
    /\ balance = OpeningBalance
    /\ supply \in 1 .. MaxSupply
    /\ stage = SelectStage(balance, Target(supply))
    /\ carry \in Carries \cup {NoObservation}
    /\ gateClosed = FALSE
    /\ passedThrough = 0
    /\ posted = 0

-----------------------------------------------------------------------------

\* Post one epoch of flows.
SettleEpoch(in, out) ==
    LET r == ApplyFlows(balance, in, out)
    IN  /\ r.balance <= MaxBalance
        /\ passedThrough + r.uncovered <= MaxLoss
        /\ balance' = r.balance
        /\ passedThrough' = passedThrough + r.uncovered
        /\ posted' = posted + in - out
        /\ UNCHANGED <<supply, stage, carry, gateClosed>>

\* Ask for a draw and pay out what is granted.  What a first-loss draw is
\* refused passes through to backing and staker NAV.
Draw(amount, purpose) ==
    LET granted == GrantedDraw(balance, supply, amount, purpose, stage)
        through == IF purpose = "first_loss" THEN amount - granted ELSE 0
    IN  /\ passedThrough + through <= MaxLoss
        /\ balance' = ApplyFlows(balance, 0, granted).balance
        /\ passedThrough' = passedThrough + through
        /\ posted' = posted - granted - through
        /\ UNCHANGED <<supply, stage, carry, gateClosed>>

\* Hand the stage and the coverage to nextStage.  At zero supply the coverage is
\* null and there is nothing to hand over.
Reassess ==
    /\ supply # 0
    /\ stage' = NextStage(stage, balance, Target(supply))
    /\ UNCHANGED <<ledger, supply, carry, gateClosed>>

\* A new net carry observation, or the loss of it.
Observe(c) ==
    /\ carry' = c
    /\ UNCHANGED <<ledger, supply, stage, gateClosed>>

\* A mint runs the gate against the book as it stands, before the mint, and
\* goes through when the gate admits it and the stage in force does not pause
\* minting; its fee enters the buffer.
Mint(m) ==
    LET allowed == GateAllows(carry, balance, supply, gateClosed)
    IN  /\ ~PauseMint(stage)
        /\ gateClosed' = ~allowed
        /\ IF allowed
           THEN /\ supply + m <= MaxSupply
                /\ balance + m * FeePerUnit <= MaxBalance
                /\ supply' = supply + m
                /\ balance' = ApplyFlows(balance, m * FeePerUnit, 0).balance
                /\ posted' = posted + m * FeePerUnit
           ELSE UNCHANGED <<supply, balance, posted>>
        /\ UNCHANGED <<stage, carry, passedThrough>>

\* Redemption stays open at every stage; its fee enters the buffer.
Redeem(m) ==
    /\ m <= supply
    /\ balance + m * FeePerUnit <= MaxBalance
    /\ supply' = supply - m
    /\ balance' = ApplyFlows(balance, m * FeePerUnit, 0).balance
    /\ posted' = posted + m * FeePerUnit
    /\ UNCHANGED <<stage, carry, gateClosed, passedThrough>>

Next ==
    \/ \E in, out \in Amounts : SettleEpoch(in, out)
    \/ \E amount \in Amounts, purpose \in Purposes : Draw(amount, purpose)
    \/ Reassess
    \/ \E c \in Carries \cup {NoObservation} : Observe(c)
    \/ \E m \in 1 .. MaxSupply : Mint(m) \/ Redeem(m)

Spec == Init /\ [][Next]_vars

-----------------------------------------------------------------------------

\* No loss vanishes: what was posted against the buffer is either still in the
\* balance or was reported as having passed through (applyBufferFlows reports the
\* residual instead of clamping it away, canDrawFromBuffer splits a request).
LossConservation == balance - passedThrough - posted = OpeningBalance

\* The buffer is the first-loss layer: a loss reaches backing and staker NAV only
\* in a step that leaves the buffer empty, whatever the stage held by the caller.
BufferAbsorbsFirst ==
    [][passedThrough' > passedThrough => balance' = 0]_vars

\* A discretionary draw never takes the buffer below its target, even on a stage
\* selected before the balance fell or the supply grew, and pays nothing out
\* while the stage in force is below healthy.  The draw is recognised as the one
\* step that lowers the balance without a first-loss or margin purpose.
DiscretionaryDrawIsSurplus ==
    \A amount \in Amounts :
        (Draw(amount, "discretionary") /\ balance' < balance)
            => /\ balance' >= Target(supply)
               /\ stage = Healthy
DiscretionaryKeepsTarget == [][DiscretionaryDrawIsSurplus]_vars

\* Once closed, by low carry or by a missing input, the gate reopens only at a
\* carry that clears the floor by the reopening margin; the margin is not lost
\* when an observation goes missing and comes back.
ReopensWithMargin ==
    [][(gateClosed /\ ~gateClosed')
          => /\ carry # NoObservation
             /\ ClearsFloor(carry, balance, supply, ReopenMarginBps)]_vars

\* With nothing outstanding the buffer fraction has no value and the gate fails
\* closed, so a fully redeemed supply is never minted again through the gate.
EmptySupplyIsFinal == [][supply = 0 => supply' = 0]_vars

\* The stage the book implies; with no target to measure against, the stage held.
implied == IF supply = 0 THEN stage ELSE SelectStage(balance, Target(supply))

Posture == INSTANCE DefensivePosture WITH Top <- Healthy

\* The stage in force tightens at once and eases rung by rung, through every
\* interleaving of flows, draws, mints and redemptions.
FollowsPosture == Posture!Spec

\* What carry-gate.ts says of an admitted mint ("leaves at least min_runway_days
\* of buffer"), read of the book the mint leaves behind.
AdmittedMintLeavesRunway ==
    [][supply' > supply =>
          balance' * TargetBps >= MinRunwayDays * (-carry) * Target(supply')]_vars

=============================================================================
