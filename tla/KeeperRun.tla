------------------------------ MODULE KeeperRun ------------------------------
(***************************************************************************)
(* `poyz keeper run`: the loop that watches the delta band, its prompt,    *)
(* its timer and Ctrl-C, over the readings of DeltaSource.                 *)
(***************************************************************************)
EXTENDS DeltaSource

CONSTANT Limits           \* --max-deviation-bps, Unpublished when not given

ASSUME LimitsAssumption == Limits \subseteq Nat \cup {Unpublished}

VARIABLES
    once,                 \* --once
    limit,                \* --max-deviation-bps
    probed,               \* deltaBandBps of the config probed at the start
    aborted,              \* controller.signal.aborted
    breachSeen,
    lastUnavailable,
    exit,                 \* exit code, Unpublished while running
    flagged,              \* history: an emitted observation said REBALANCE
    due                   \* history: observations still to come after Ctrl-C

flags == <<once, limit>>
loop  == <<aborted, breachSeen, lastUnavailable>>
log   == <<flagged, due>>
vars  == <<world, pc, read, flags, probed, loop, exit, log>>

ExitCodes == {0, 1, 3, 4, 5}
RunPoints == ReadPoints \cup {"probe", "confirm", "sleep", "done"}

TypeOK ==
    /\ ReadTypeOK
    /\ pc \in RunPoints
    /\ once \in BOOLEAN
    /\ limit \in Limits
    /\ probed \in Fields({b.trigger : b \in Bands})
    /\ aborted \in BOOLEAN /\ breachSeen \in BOOLEAN /\ lastUnavailable \in BOOLEAN
    /\ exit \in Fields(ExitCodes) /\ (exit # Unpublished <=> pc = "done")
    /\ flagged \in BOOLEAN /\ due \in Int

Init ==
    /\ ReadInit
    /\ pc = "probe"
    /\ once \in BOOLEAN /\ limit \in Limits
    /\ probed = Unpublished
    /\ aborted = FALSE /\ breachSeen = FALSE /\ lastUnavailable = FALSE
    /\ exit = Unpublished
    /\ flagged = FALSE /\ due = 1

-----------------------------------------------------------------------------

\* Read the config once; a failure of any kind only leaves the band unknown.
\* The prompt follows unless --yes was given.
Probe ==
    /\ pc = "probe"
    /\ probed' \in {band.trigger, Unpublished}
    /\ pc' \in {"confirm", "idle"}
    /\ UNCHANGED <<world, read, flags, loop, exit, log>>

\* Declined, or no terminal to ask on: exit 5 before anything was observed.
Confirm ==
    /\ pc = "confirm"
    /\ \/ pc' = "idle" /\ UNCHANGED exit
       \/ pc' = "done" /\ exit' = 5
    /\ UNCHANGED <<world, read, flags, probed, loop, log>>

ReadDelta ==
    /\ ReadStep
    /\ UNCHANGED <<flags, probed, loop, exit, log>>

\* The flag, else the band published with the reading, else the probed one.
EffectiveLimit ==
    IF limit # Unpublished THEN limit
    ELSE IF reading.threshold # Unpublished THEN reading.threshold
    ELSE probed

Breached ==
    /\ reading.available
    /\ reading.deviation # Unpublished
    /\ EffectiveLimit # Unpublished
    /\ Abs(reading.deviation) > EffectiveLimit

\* The exit code at the end of the loop.
ExitCode(unavailable, seen) ==
    IF once /\ unavailable THEN 3 ELSE IF seen THEN 4 ELSE 0

\* Mutant: the last observation alone decides.
ObserveLastOnly ==
    /\ pc = "judge"
    /\ breachSeen' = Breached
    /\ lastUnavailable' = ~reading.available
    /\ flagged' = (flagged \/ Breached)
    /\ due' = due - (IF aborted THEN 1 ELSE 0)
    /\ IF once \/ aborted
       THEN pc' = "done" /\ exit' = ExitCode(lastUnavailable', breachSeen')
       ELSE pc' = "sleep" /\ UNCHANGED exit
    /\ EndRead
    /\ UNCHANGED <<world, flags, probed, aborted>>

\* Mutant: only the signal ends the loop.
ObserveForgetsOnce ==
    /\ pc = "judge"
    /\ breachSeen' = (breachSeen \/ Breached)
    /\ lastUnavailable' = ~reading.available
    /\ flagged' = (flagged \/ Breached)
    /\ due' = due - (IF aborted THEN 1 ELSE 0)
    /\ IF aborted
       THEN pc' = "done" /\ exit' = ExitCode(lastUnavailable', breachSeen')
       ELSE pc' = "sleep" /\ UNCHANGED exit
    /\ EndRead
    /\ UNCHANGED <<world, flags, probed, aborted>>

\* Judge the reading, emit the observation, and leave the loop when told to.
Observe ==
    /\ pc = "judge"
    /\ breachSeen' = (breachSeen \/ Breached)
    /\ lastUnavailable' = ~reading.available
    /\ flagged' = (flagged \/ Breached)
    /\ due' = due - (IF aborted THEN 1 ELSE 0)
    /\ IF once \/ aborted
       THEN pc' = "done" /\ exit' = ExitCode(lastUnavailable', breachSeen')
       ELSE pc' = "sleep" /\ UNCHANGED exit
    /\ EndRead
    /\ UNCHANGED <<world, flags, probed, aborted>>

\* An error that getDelta does not turn into a reading leaves through finally.
Escape ==
    /\ pc = "thrown"
    /\ pc' = "done" /\ exit' = 1
    /\ EndRead
    /\ UNCHANGED <<world, flags, probed, loop, log>>

\* Mutant: the signal is not looked at again after the sleep.
WakeAndReadOn ==
    /\ pc = "sleep"
    /\ pc' = "idle"
    /\ UNCHANGED <<world, read, flags, probed, loop, exit, log>>

\* The sleep ends with its timer, or early when the signal aborts it.
Wake ==
    /\ pc = "sleep"
    /\ IF aborted THEN pc' = "done" /\ exit' = ExitCode(lastUnavailable, breachSeen)
       ELSE pc' = "idle" /\ UNCHANGED exit
    /\ UNCHANGED <<world, read, flags, probed, loop, log>>

\* Ctrl-C while the handler is registered: from the loop's start to its end.
\* The read under way is not given the signal and will still be observed; when
\* the loop sleeps there is none.
Interrupt ==
    /\ pc \notin {"probe", "confirm", "done"}
    /\ aborted' = TRUE
    /\ due' = IF pc = "sleep" /\ ~aborted THEN 0 ELSE due
    /\ UNCHANGED <<world, pc, read, flags, probed, breachSeen, lastUnavailable, exit, flagged>>

Step == Probe \/ Confirm \/ ReadDelta \/ Observe \/ Escape \/ Wake

\* The world after the run has ended is of no interest.
Next ==
    \/ Step
    \/ Interrupt
    \/ World /\ pc # "done" /\ UNCHANGED <<flags, probed, loop, exit, log>>

Spec == Init /\ [][Next]_vars

\* A read answers or fails, the timer fires, the event loop goes on.  Nobody has
\* to answer the prompt, and nobody has to press Ctrl-C.
FairSpec ==
    /\ Spec
    /\ WF_vars(Probe \/ ReadDelta \/ Observe \/ Escape \/ Wake)

-----------------------------------------------------------------------------

\* A run that ends by itself with 0 never told its reader to rebalance.
CleanExitMeansNeverFlagged == exit = 0 => ~flagged

\* After Ctrl-C only the read that was under way is still observed: one that
\* comes during the sleep starts no other.
NothingStartsAfterCtrlC == due >= 0

\* A run told to stop, by --once or by Ctrl-C, stops once it is past its prompt.
StopsWhenTold == ((once /\ pc = "idle") \/ aborted) ~> pc = "done"

\* The command's help: "The exit code is 4 when any observation was outside the
\* band".
AnyBreachExitsFour == (pc = "done" /\ flagged) => exit = 4

=============================================================================
