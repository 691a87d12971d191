-------------------------- MODULE KeeperRunProofs --------------------------
(***************************************************************************)
(* What `poyz keeper run` keeps to, for every book and chain, every limit, *)
(* and Ctrl-C at any point.  The argument about the exit code: the flag    *)
(* breachSeen is exactly the history of what was emitted until the run     *)
(* ends, and the run ends with a code made of it.  The argument about      *)
(* Ctrl-C: an aborted run has one observation left until it sleeps or ends.*)
(***************************************************************************)
EXTENDS KeeperRun, TLAPS

\* What the loop has said and still has to say.
LoopInv ==
    /\ aborted \in BOOLEAN /\ breachSeen \in BOOLEAN /\ lastUnavailable \in BOOLEAN
    /\ flagged = breachSeen
    /\ exit \in Fields(ExitCodes) /\ (exit # Unpublished <=> pc = "done")
    /\ exit = 0 => ~flagged
    /\ due \in {0, 1}
    /\ pc \notin {"sleep", "done"} => due = 1
    /\ ~aborted => due = 1

Inv == TypeOK /\ LoopInv

-----------------------------------------------------------------------------
(* The reading and the world under it.                                      *)

\* Both edges of a band are thresholds.
LEMMA BandParts ==
    ASSUME NEW b \in Bands
    PROVE  b.exit \in Fields(Thresholds) /\ b.trigger \in Fields(Thresholds)
BY DEF Fields, Thresholds

\* An answer without data is a reading.
LEMMA UnavailableIsAReading ==
    ASSUME NEW from \in {"chain", "api"}
    PROVE  Unavailable(from) \in Readings
BY DEF Unavailable, Readings, Fields

\* Whatever the world does, the read's snapshot counts proofs that are there.
LEMMA WorldKeepsTypes ==
    ASSUME ReadTypeOK, World
    PROVE  ReadTypeOK' /\ pc' = pc
<1>1. ASSUME NEW d \in Deltas, Drift(d)
      PROVE  ReadTypeOK' /\ pc' = pc
  BY <1>1 DEF Drift, ReadTypeOK, read
<1>2. ASSUME NEW b \in Bands, Retune(b)
      PROVE  ReadTypeOK' /\ pc' = pc
  BY <1>2 DEF Retune, ReadTypeOK, read
<1>3. ASSUME NEW d \in Deltas, Rebalance(d)
      PROVE  ReadTypeOK' /\ pc' = pc
  <2>1. /\ proofs' \in Seq(Deltas) /\ Len(proofs') = Len(proofs) + 1
        /\ Len(proofs) \in Nat /\ Len(proofs') <= MaxProofs
    BY <1>3, DeltaAssumption DEF Rebalance, ReadTypeOK
  <2>2. /\ snapshot' = snapshot /\ reading' = reading /\ source' = source
        /\ pc' = pc /\ live' = d /\ band' = band /\ published' = published
    BY <1>3 DEF Rebalance, read
  <2>3. snapshot' \in [exit : Fields(Thresholds), count : 0 .. Len(proofs')]
    BY <2>1, <2>2 DEF ReadTypeOK
  <2>4. QED
    BY <2>1, <2>2, <2>3 DEF ReadTypeOK
<1>4. CASE Publish
  <2>1. CASE published' = Unavailable("api")
    BY <1>4, <2>1, UnavailableIsAReading DEF Publish, ReadTypeOK, read
  <2>2. CASE published' \in
               [from : {"api"}, available : {TRUE}, deviation : {live, Unpublished},
                threshold : {IF t THEN band.trigger ELSE Unpublished : t \in ThresholdPublished}]
    <3>1. band.trigger \in Fields(Thresholds) /\ live \in Deltas
      BY BandParts DEF ReadTypeOK
    <3>2. published' \in Readings
      BY <2>2, <3>1 DEF Readings, Fields
    <3>3. QED
      BY <1>4, <3>2 DEF Publish, ReadTypeOK, read
  <2>3. QED
    BY <1>4, <2>1, <2>2 DEF Publish
<1>5. QED
  BY <1>1, <1>2, <1>3, <1>4 DEF World

\* A step of the read stays among the points of a read.
LEMMA ReadKeepsTypes ==
    ASSUME ReadTypeOK, ReadStep
    PROVE  ReadTypeOK' /\ pc' \in ReadPoints /\ pc \in ReadPoints
<1>1. CASE BeginRead
  BY <1>1 DEF BeginRead, ReadTypeOK, ReadPoints, world, read
<1>2. CASE ReadConfig
  <2>1. /\ band.exit \in Fields(Thresholds) /\ Len(proofs) \in Nat
        /\ proofs \in Seq(Deltas)
    BY BandParts DEF ReadTypeOK
  <2>2. [exit |-> band.exit, count |-> Len(proofs)]
            \in [exit : Fields(Thresholds), count : 0 .. Len(proofs)]
    BY <2>1
  <2>3. CASE ChainUnavailable
    BY <1>2, <2>2, <2>3, UnavailableIsAReading
       DEF ReadConfig, ChainUnavailable, ReadTypeOK, ReadPoints, world
  <2>4. CASE ~ChainUnavailable
    <3>1. /\ snapshot' = [exit |-> band.exit, count |-> Len(proofs)]
          /\ proofs # << >> /\ pc' = "proof" /\ reading' = reading
      BY <1>2, <2>4 DEF ReadConfig
    <3>2. snapshot'.count # 0
      BY <2>1, <3>1
    <3>3. QED
      BY <1>2, <2>2, <3>1, <3>2 DEF ReadConfig, ReadTypeOK, ReadPoints, world
  <2>5. QED
    BY <2>3, <2>4
<1>3. CASE ReadProof
  <2>1. CASE ChainUnavailable
    BY <1>3, <2>1, UnavailableIsAReading
       DEF ReadProof, ChainUnavailable, ReadTypeOK, ReadPoints, world
  <2>2. CASE ~ChainUnavailable
    <3>1. proofs[snapshot.count] \in Deltas /\ snapshot.exit \in Fields(Thresholds)
      BY <1>3 DEF ReadProof, ReadTypeOK
    <3>2. /\ reading' = [from |-> "chain", available |-> TRUE,
                         deviation |-> proofs[snapshot.count],
                         threshold |-> snapshot.exit]
          /\ pc' = "judge"
      BY <1>3, <2>2 DEF ReadProof
    <3>3. reading' \in Readings
      BY <3>1, <3>2 DEF Readings, Fields
    <3>4. QED
      BY <1>3, <3>2, <3>3 DEF ReadProof, ReadTypeOK, ReadPoints, world
  <2>3. QED
    BY <2>1, <2>2
<1>4. CASE DecodeThrows
  BY <1>4 DEF DecodeThrows, ReadTypeOK, ReadPoints, world, read
<1>5. CASE ReadApi
  <2>1. reading' \in Readings
    BY <1>5, UnavailableIsAReading DEF ReadApi, ReadTypeOK
  <2>2. QED
    BY <1>5, <2>1 DEF ReadApi, ReadTypeOK, ReadPoints, world
<1>6. QED
  BY <1>1, <1>2, <1>3, <1>4, <1>5 DEF ReadStep

\* Done with a reading, the caller keeps nothing of it.
LEMMA EndReadKeepsTypes ==
    ASSUME ReadTypeOK, EndRead, UNCHANGED world, pc' # "proof"
    PROVE  ReadTypeOK'
<1>1. NoReading \in Readings
  BY UnavailableIsAReading DEF NoReading
<1>2. Len(proofs) \in Nat
  BY DEF ReadTypeOK
<1>3. NoSnapshot \in [exit : Fields(Thresholds), count : 0 .. Len(proofs)]
  BY <1>2 DEF NoSnapshot, Fields
<1>4. QED
  BY <1>1, <1>3 DEF EndRead, ReadTypeOK, world

-----------------------------------------------------------------------------
(* The loop.                                                                *)

\* The exit code of a run with no breach is the only one that can be 0.
LEMMA ExitCodeTells ==
    ASSUME NEW unavailable \in BOOLEAN, NEW seen \in BOOLEAN
    PROVE  /\ ExitCode(unavailable, seen) \in ExitCodes
           /\ ExitCode(unavailable, seen) # Unpublished
           /\ ExitCode(unavailable, seen) = 0 => ~seen
BY DeltaAssumption DEF ExitCode, ExitCodes

\* The state a run starts in.
LEMMA InitInv == Init => Inv
<1> SUFFICES ASSUME Init PROVE Inv
  OBVIOUS
<1>1. Len(proofs) = 0 /\ proofs \in Seq(Deltas)
  BY DEF Init, ReadInit
<1>2. snapshot \in [exit : Fields(Thresholds), count : 0 .. Len(proofs)]
  BY <1>1 DEF Init, ReadInit, NoSnapshot, Fields
<1>3. published \in Readings /\ reading \in Readings
  BY UnavailableIsAReading DEF Init, ReadInit, NoReading
<1>4. ReadTypeOK
  BY <1>1, <1>2, <1>3, DeltaAssumption DEF ReadTypeOK, Init, ReadInit
<1>5. LoopInv
  BY DeltaAssumption DEF LoopInv, Init, Fields
<1>6. TypeOK
  BY <1>4, <1>5 DEF TypeOK, LoopInv, Init, RunPoints, Fields
<1>7. QED
  BY <1>5, <1>6 DEF Inv

\* One step of the run.
LEMMA StepKeepsInv ==
    ASSUME Inv, Step
    PROVE  Inv'
<1>1. /\ ReadTypeOK /\ pc \in RunPoints /\ once \in BOOLEAN /\ limit \in Limits
      /\ probed \in Fields({b.trigger : b \in Bands}) /\ LoopInv
  BY DEF Inv, TypeOK
<1>2. CASE Probe
  <2>1. ReadTypeOK'
    BY <1>1, <1>2 DEF Probe, ReadTypeOK, world, read
  <2>2. LoopInv'
    BY <1>1, <1>2 DEF Probe, LoopInv, loop, log
  <2>3. probed' \in Fields({b.trigger : b \in Bands}) /\ pc' \in RunPoints
    BY <1>1, <1>2 DEF Probe, ReadTypeOK, Fields, RunPoints, ReadPoints
  <2>4. QED
    BY <1>1, <1>2, <2>1, <2>2, <2>3 DEF Probe, Inv, TypeOK, LoopInv, flags
<1>3. CASE Confirm
  <2>1. ReadTypeOK'
    BY <1>1, <1>3 DEF Confirm, ReadTypeOK, world, read
  <2>2. LoopInv'
    BY <1>1, <1>3, DeltaAssumption DEF Confirm, LoopInv, loop, log, Fields, ExitCodes
  <2>3. QED
    BY <1>1, <1>3, <2>1, <2>2
       DEF Confirm, Inv, TypeOK, LoopInv, flags, RunPoints, ReadPoints
<1>4. CASE ReadDelta
  <2>1. ReadTypeOK' /\ pc' \in ReadPoints /\ pc \in ReadPoints
    BY <1>1, <1>4, ReadKeepsTypes DEF ReadDelta
  <2>2. LoopInv'
    BY <1>1, <1>4, <2>1 DEF ReadDelta, LoopInv, loop, log, ReadPoints
  <2>3. QED
    BY <1>1, <1>4, <2>1, <2>2 DEF ReadDelta, Inv, TypeOK, LoopInv, flags, RunPoints
<1>5. CASE Observe
  <2>1. ReadTypeOK'
    BY <1>1, <1>5, EndReadKeepsTypes DEF Observe
  <2>2. /\ breachSeen' \in BOOLEAN /\ lastUnavailable' \in BOOLEAN
        /\ flagged' = breachSeen' /\ aborted' = aborted
    BY <1>1, <1>5 DEF Observe, LoopInv, ReadTypeOK, Readings
  <2>3. due = 1 /\ due' = IF aborted THEN 0 ELSE 1
    BY <1>1, <1>5 DEF Observe, LoopInv
  <2>4. /\ exit' \in Fields(ExitCodes) /\ (exit' # Unpublished <=> pc' = "done")
        /\ exit' = 0 => ~flagged'
        /\ pc' \in {"sleep", "done"}
    BY <1>1, <1>5, <2>2, ExitCodeTells, DeltaAssumption DEF Observe, LoopInv, Fields
  <2>5. LoopInv'
    BY <1>1, <2>2, <2>3, <2>4 DEF LoopInv
  <2>6. QED
    BY <1>1, <1>5, <2>1, <2>4, <2>5 DEF Observe, Inv, TypeOK, LoopInv, flags, RunPoints
<1>6. CASE Escape
  <2>1. ReadTypeOK'
    BY <1>1, <1>6, EndReadKeepsTypes DEF Escape
  <2>2. LoopInv'
    BY <1>1, <1>6, DeltaAssumption DEF Escape, LoopInv, loop, log, Fields, ExitCodes
  <2>3. QED
    BY <1>1, <1>6, <2>1, <2>2 DEF Escape, Inv, TypeOK, LoopInv, flags, RunPoints
<1>7. CASE Wake
  <2>1. ReadTypeOK'
    BY <1>1, <1>7 DEF Wake, ReadTypeOK, world, read
  <2>2. LoopInv'
    BY <1>1, <1>7, ExitCodeTells, DeltaAssumption DEF Wake, LoopInv, loop, log, Fields
  <2>3. QED
    BY <1>1, <1>7, <2>1, <2>2 DEF Wake, Inv, TypeOK, LoopInv, flags, RunPoints, ReadPoints
<1>8. QED
  BY <1>2, <1>3, <1>4, <1>5, <1>6, <1>7 DEF Step

\* Steps of the run, Ctrl-C and the world, as long as the run lasts.
LEMMA InvAlways == Spec => []Inv
<1>1. Inv /\ [Next]_vars => Inv'
  <2> SUFFICES ASSUME Inv, [Next]_vars PROVE Inv'
    OBVIOUS
  <2>1. CASE Step
    BY <2>1, StepKeepsInv
  <2>2. CASE Interrupt
    <3>1. ReadTypeOK'
      BY <2>2 DEF Interrupt, Inv, TypeOK, ReadTypeOK, world, read
    <3>2. LoopInv'
      BY <2>2 DEF Interrupt, Inv, LoopInv
    <3>3. QED
      BY <2>2, <3>1, <3>2 DEF Interrupt, Inv, TypeOK, LoopInv, flags
  <2>3. CASE World /\ pc # "done" /\ UNCHANGED <<flags, probed, loop, exit, log>>
    <3>1. ReadTypeOK' /\ pc' = pc
      BY <2>3, WorldKeepsTypes DEF Inv, TypeOK
    <3>2. LoopInv'
      BY <2>3, <3>1 DEF Inv, LoopInv, loop, log
    <3>3. QED
      BY <2>3, <3>1, <3>2 DEF Inv, TypeOK, LoopInv, flags
  <2>4. CASE UNCHANGED vars
    BY <2>4 DEF vars, world, read, flags, loop, log, Inv, TypeOK, ReadTypeOK, LoopInv
  <2>5. QED
    BY <2>1, <2>2, <2>3, <2>4 DEF Next
<1>2. QED
  BY InitInv, <1>1, PTL DEF Spec

-----------------------------------------------------------------------------

\* The run stays well typed.
THEOREM TypeCorrect == Spec => []TypeOK
PROOF
<1>1. Inv => TypeOK
  BY DEF Inv
<1>2. QED
  BY <1>1, InvAlways, PTL

\* No sequence of good, missing and interrupted observations after a breach
\* brings the exit code back to 0.
THEOREM BreachesReachTheExitCode == Spec => []CleanExitMeansNeverFlagged
PROOF
<1>1. Inv => CleanExitMeansNeverFlagged
  BY DEF Inv, LoopInv, CleanExitMeansNeverFlagged
<1>2. QED
  BY <1>1, InvAlways, PTL

\* Wherever Ctrl-C arrives, no read is begun after it but the one it fell into.
THEOREM InterruptedRunsStartNothing == Spec => []NothingStartsAfterCtrlC
PROOF
<1>1. Inv => NothingStartsAfterCtrlC
  BY DEF Inv, LoopInv, NothingStartsAfterCtrlC
<1>2. QED
  BY <1>1, InvAlways, PTL

=============================================================================
