-------------------------- MODULE StageHysteresis ---------------------------
(***************************************************************************)
(* nextStage of playbook.ts driven by a moving buffer coverage.  The       *)
(* function is pure: the caller keeps the stage between calls, which is    *)
(* what `current' stands for (nextStage's own name for it), and calls      *)
(* nextStage again at every reassessment.  Coverage is in percent of the   *)
(* buffer target and may move to any value between two calls.              *)
(***************************************************************************)
EXTENDS BufferPolicy

CONSTANTS Coverages,    \* the coverages the buffer may be at, in percent of target
          NotEased      \* marks a stage that was not reached by easing

ASSUME CoverageAssumption ==
    /\ Coverages \subseteq Nat
    /\ NotEased \notin Int

VARIABLES coverage,     \* buffer balance in percent of target
          current,      \* the stage the caller holds
          easedAt       \* history: the coverage of the last change of stage, if it was an easing

ladderVars == <<coverage, current, easedAt>>

LadderTypeOK ==
    /\ coverage \in Coverages
    /\ current \in Stages
    /\ easedAt \in Coverages \cup {NotEased}

LadderInit ==
    /\ coverage \in Coverages
    /\ current = SelectStage(coverage, 100)
    /\ easedAt = NotEased

\* Flows, mints and redemptions move the coverage between two reassessments.
MoveCoverage ==
    /\ coverage' \in Coverages
    /\ UNCHANGED <<current, easedAt>>

\* The caller hands its stage and the current coverage to nextStage.
ReassessLadder ==
    /\ current' = NextStage(current, coverage, 100)
    /\ easedAt' = IF current' > current THEN coverage
                  ELSE IF current' < current THEN NotEased
                  ELSE easedAt
    /\ UNCHANGED coverage

LadderNext == MoveCoverage \/ ReassessLadder

LadderSpec == LadderInit /\ [][LadderNext]_ladderVars

\* The caller keeps reassessing: the ladder is read at every epoch.
FairLadderSpec == LadderSpec /\ WF_ladderVars(ReassessLadder)

-----------------------------------------------------------------------------

\* A stage that was just eased into is not left again for a more defensive one
\* until the coverage has fallen by more than the easing margin: a buffer
\* oscillating around a trigger does not flip stages (the promise in the comment
\* on nextStage).  Several calls with the coverage moving between them are
\* needed to break it.
NoFlap ==
    [][(current' < current /\ easedAt # NotEased)
          => easedAt - coverage > EasingMarginPct]_ladderVars

\* What makes NoFlap true when easing goes one rung at a time: the coverage the
\* stage was eased at had cleared the edge of the rung below by the margin.
EasedPastTheEdge ==
    easedAt # NotEased =>
        /\ current > BackingOnly
        /\ easedAt > UpperPct(current - 1) + EasingMarginPct

\* Above every edge by more than the margin, the ladder is climbed to its top
\* whatever the coverage does up there.
RecoveryCompletes ==
    <>[](coverage > HealthyPct + EasingMarginPct) => <>[](current = Healthy)

\* A coverage that stays under a trigger ends up, and stays, in the stages under
\* that trigger, however lax the stage the caller still holds.
DeclineIsNotLost ==
    <>[](coverage < ReducePct) => <>[](current <= HaltUnwind)

\* The stage the coverage implies right now.
impliedStage == SelectStage(coverage, 100)

LadderPosture == INSTANCE DefensivePosture
    WITH Top <- Healthy, stage <- current, implied <- impliedStage

\* nextStage implements the abstract ladder.
LadderFollowsPosture == LadderPosture!Spec

=============================================================================
