-------------------------- MODULE DefensivePosture --------------------------
(***************************************************************************)
(* What the stage ladder of playbook.ts promises, without saying how: the  *)
(* posture in force follows the implied posture down at once, and follows  *)
(* it up only a bounded number of rungs at a time and never past it.       *)
(*                                                                         *)
(* `implied' is the posture the buffer's coverage of its target implies.   *)
(* It drifts with the book; the posture in force changes only when it is   *)
(* reassessed.  RiskBuffer and StageHysteresis implement this.             *)
(***************************************************************************)
EXTENDS Integers

CONSTANTS Top,          \* the least defensive rung; rung 0 is the most defensive
          MaxEaseSteps

VARIABLES stage,        \* the posture in force
          implied       \* the posture the coverage implies

Rungs == 0 .. Top

Init ==
    /\ implied \in Rungs
    /\ stage = implied

\* The book moves; nobody has reassessed yet.
Drift ==
    /\ implied' \in Rungs
    /\ UNCHANGED stage

\* The implied posture is at least as defensive: adopt it whole.
Tighten ==
    /\ implied <= stage
    /\ stage' = implied
    /\ UNCHANGED implied

\* The implied posture is laxer: climb a bounded number of rungs, or none.
Ease ==
    /\ stage < implied
    /\ stage' \in stage .. implied
    /\ stage' - stage <= MaxEaseSteps
    /\ UNCHANGED implied

Next == Drift \/ Tighten \/ Ease

Spec == Init /\ [][Next]_<<stage, implied>>

=============================================================================
