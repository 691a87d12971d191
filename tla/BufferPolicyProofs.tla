------------------------- MODULE BufferPolicyProofs -------------------------
(***************************************************************************)
(* What the operators of BufferPolicy return, for every value of the       *)
(* policy constants.  The proofs about RiskBuffer and StageHysteresis cite *)
(* these lemmas instead of expanding the operators.                        *)
(***************************************************************************)
EXTENDS BufferPolicy, TLAPS

\* selectBufferStage always answers with one of the five stages.
LEMMA SelectStageInStages ==
    ASSUME NEW num, NEW den
    PROVE  SelectStage(num, den) \in Stages
BY DEF SelectStage, Stages, BackingOnly, HaltUnwind, Reduce, Draining, Healthy

\* nextStage stays on the ladder, adopts a more defensive implied stage whole,
\* and climbs towards a laxer one without passing it or exceeding the cap.
LEMMA NextStageShape ==
    ASSUME NEW cur \in Stages, NEW num, NEW den
    PROVE  LET raw == SelectStage(num, den)
               nxt == NextStage(cur, num, den)
           IN  /\ nxt \in Stages
               /\ raw <= cur => nxt = raw
               /\ cur < raw => nxt \in cur .. raw /\ nxt - cur <= MaxEaseSteps
<1> DEFINE raw == SelectStage(num, den)
<1>1. raw \in Stages
  BY SelectStageInStages
<1> HIDE DEF raw
<1>2. MaxEaseSteps \in Nat \ {0}
  BY HysteresisAssumption
<1>3. NextStage(cur, num, den) =
         IF raw <= cur THEN raw
         ELSE IF AtMost(num, den, UpperPct(cur) + EasingMarginPct) THEN cur
         ELSE Least(raw, cur + MaxEaseSteps)
  BY DEF NextStage, raw
<1>4. QED
  BY <1>1, <1>2, <1>3 DEF Least, Stages, BackingOnly, Healthy, raw

\* nextStage eases only past the current stage's upper edge by the margin.
LEMMA EasingClearsTheMargin ==
    ASSUME NEW cur \in Stages, NEW num, NEW den,
           NextStage(cur, num, den) > cur
    PROVE  ~AtMost(num, den, UpperPct(cur) + EasingMarginPct)
<1>1. SelectStage(num, den) \in Stages
  BY SelectStageInStages
<1>2. QED
  BY <1>1 DEF NextStage, Stages, BackingOnly, Healthy

\* applyBufferFlows floors the balance at zero, reports exactly the part it
\* could not cover, and reports a loss only when it leaves nothing.
LEMMA ApplyFlowsConserves ==
    ASSUME NEW bal \in Nat, NEW in \in Nat, NEW out \in Nat
    PROVE  LET r == ApplyFlows(bal, in, out)
           IN  /\ r.balance \in Nat
               /\ r.uncovered \in Nat
               /\ r.balance = bal + in - out + r.uncovered
               /\ r.uncovered > 0 => r.balance = 0
BY DEF ApplyFlows

\* A target is a natural number.
LEMMA TargetNat ==
    ASSUME NEW s \in Nat
    PROVE  Target(s) \in Nat
BY TargetAssumption DEF Target

\* canDrawFromBuffer never grants more than was asked or than the buffer holds,
\* and refuses part of a first-loss draw only by paying out the whole balance.
LEMMA GrantedDrawBounds ==
    ASSUME NEW bal \in Nat, NEW s \in Nat, NEW amount \in Nat, NEW purpose,
           NEW stg
    PROVE  LET g == GrantedDraw(bal, s, amount, purpose, stg)
           IN  /\ g \in Nat
               /\ g <= amount
               /\ g <= bal
               /\ (purpose # "discretionary" /\ g < amount) => g = bal
<1>1. Target(s) \in Nat
  BY TargetNat
<1>2. QED
  BY <1>1 DEF GrantedDraw, Least

\* A discretionary draw that pays out needs the healthy stage and leaves the
\* buffer at or above its target.
LEMMA DiscretionaryGrant ==
    ASSUME NEW bal \in Nat, NEW s \in Nat, NEW amount \in Nat, NEW stg,
           GrantedDraw(bal, s, amount, "discretionary", stg) > 0
    PROVE  /\ stg = Healthy
           /\ bal - GrantedDraw(bal, s, amount, "discretionary", stg) >= Target(s)
<1>1. Target(s) \in Nat
  BY TargetNat
<1>2. QED
  BY <1>1 DEF GrantedDraw, Least

=============================================================================
