--------------------------- MODULE BufferCallers ----------------------------
(***************************************************************************)
(* The two ways a program calls packages/risk-buffer.  Its functions keep  *)
(* nothing, so what has to be kept depends on the caller: a monitor that   *)
(* is told a coverage holds a stage, and hands both to nextStage; an       *)
(* operator of the buffer holds the book, its stage and its gate, and      *)
(* calls the ledger, the draw policy and the mint gate on them.  A caller  *)
(* is one or the other, and what it does not hold stands still.            *)
(***************************************************************************)
EXTENDS RiskBuffer, StageHysteresis

VARIABLE caller           \* what the caller holds: a coverage, or a book

callersVars == <<caller, ladderVars, vars>>

Callers == {"monitor", "operator"}

\* One state for what the caller does not hold.
Unheld(role) ==
    CASE role = "monitor"  -> coverage = CHOOSE c \in Coverages : TRUE
      [] role = "operator" -> supply = 1 /\ carry = NoObservation

CallersInit ==
    /\ caller \in Callers
    /\ LadderInit /\ Init
    /\ \A role \in Callers \ {caller} : Unheld(role)

Monitor == LadderNext /\ UNCHANGED <<caller, vars>>
Operate == Next       /\ UNCHANGED <<caller, ladderVars>>

CallersNext ==
    \/ caller = "monitor" /\ Monitor
    \/ caller = "operator" /\ Operate

CallersSpec == CallersInit /\ [][CallersNext]_callersVars

\* The fairness of FairLadderSpec, for a caller that holds a coverage.
FairCallersSpec ==
    /\ CallersSpec
    /\ WF_callersVars(caller = "monitor" /\ ReassessLadder /\ UNCHANGED <<caller, vars>>)

\* The type invariants of the two parts; a balance is never negative.
CallersTypeOK ==
    /\ caller \in Callers
    /\ TypeOK /\ LadderTypeOK

=============================================================================
