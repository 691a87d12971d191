----------------------------- MODULE DeltaAction -----------------------------
(***************************************************************************)
(* The scheduled delta monitor: `poyz delta --max-deviation-bps` and the   *)
(* GitHub Action that turns its exit code into a workflow verdict, one job *)
(* after the other.                                                        *)
(***************************************************************************)
EXTENDS DeltaSource

CONSTANT Limit            \* --max-deviation-bps

ASSUME LimitAssumption == Limit \in Nat

VARIABLES
    failOnUnavailable,    \* the action's fail-on-unavailable input
    verdict,              \* what the last job came to
    widest                \* history: the widest exit band there has been

job  == <<failOnUnavailable, verdict>>
vars == <<world, pc, read, job, widest>>

NoJob == "none"

TypeOK ==
    /\ ReadTypeOK
    /\ pc \in ReadPoints
    /\ failOnUnavailable \in BOOLEAN
    /\ verdict \in {"pass", "fail", NoJob}
    /\ widest \in Nat

Init ==
    /\ ReadInit
    /\ pc = "idle"
    /\ failOnUnavailable \in BOOLEAN
    /\ verdict = NoJob
    /\ widest = band.exit

-----------------------------------------------------------------------------

\* Mutant: a deviation that was not published compares as inside.
DeltaExitNullPasses(r) ==
    IF ~r.available THEN 3
    ELSE IF r.deviation # Unpublished /\ Abs(r.deviation) > Limit THEN 4
    ELSE 0

\* Mutant: the sign is not dropped before the comparison.
DeltaExitSigned(r) ==
    IF ~r.available \/ r.deviation = Unpublished THEN 3
    ELSE IF r.deviation > Limit THEN 4
    ELSE 0

\* deltaCommand.run
DeltaExit(r) ==
    IF ~r.available \/ r.deviation = Unpublished THEN 3
    ELSE IF Abs(r.deviation) > Limit THEN 4
    ELSE 0

\* summarize.mjs
Summarize(code) ==
    IF code = 0 \/ (code = 3 /\ ~failOnUnavailable) THEN "pass" ELSE "fail"

\* The job ends with the reading, or with the error that escaped the read.
Conclude ==
    /\ pc \in {"judge", "thrown"}
    /\ verdict' = Summarize(IF pc = "thrown" THEN 1 ELSE DeltaExit(reading))
    /\ pc' = "idle"
    /\ EndRead
    /\ UNCHANGED <<world, failOnUnavailable>>

JobStep == ReadStep /\ UNCHANGED job

Next ==
    /\ \/ World /\ UNCHANGED job
       \/ JobStep
       \/ Conclude
    /\ widest' = IF band'.exit > widest THEN band'.exit ELSE widest

Spec == Init /\ [][Next]_vars

\* The schedule starts job after job, a job's calls answer or fail, and the
\* indexer keeps publishing.  Nothing makes a keeper commit proofs.
FairSpec ==
    /\ Spec
    /\ WF_vars(JobStep /\ UNCHANGED widest)
    /\ WF_vars(Conclude /\ UNCHANGED widest)
    /\ WF_vars(Publish /\ UNCHANGED <<job, widest>>)

-----------------------------------------------------------------------------

Concludes == pc # "idle" /\ pc' = "idle"

\* With fail-on-unavailable set, a green job has measured a deviation inside the
\* limit: nothing missing, unreadable or malformed reads as inside.
GreenMeansMeasuredInside ==
    [][(Concludes /\ verdict' = "pass" /\ failOnUnavailable)
          => /\ reading.available
             /\ reading.deviation \in -Limit .. Limit]_vars

\* The chain only attests deltas a rebalance has just corrected: a job fails on
\* a chain reading only when the exit band was once wider than the job's limit.
ChainBreachNeedsAWideBand ==
    [][(Concludes /\ verdict' = "fail" /\ reading.from = "chain" /\ reading.available)
          => Limit < widest]_vars

Drifted == Abs(live) > Limit

\* A drift that lasts fails the workflow, when the monitor reads the status API
\* and treats a missing reading as a failure.
ApiDriftIsCaught ==
    (source = "api" /\ failOnUnavailable) => ([]Drifted ~> verdict = "fail")

\* What action.yml promises ("fail the workflow when the spot leg and the perp
\* short have drifted outside the band"), for every source the input admits.
DriftIsCaught == failOnUnavailable => ([]Drifted ~> verdict = "fail")

=============================================================================
