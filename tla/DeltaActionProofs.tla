------------------------- MODULE DeltaActionProofs -------------------------
(***************************************************************************)
(* What the delta monitor keeps to, for every book, every band and a chain *)
(* of proofs of any length.  The argument: while a read is under way only  *)
(* its own steps touch the snapshot and the reading, the chain of proofs   *)
(* is only ever appended to, and an available reading stands at the judge. *)
(***************************************************************************)
EXTENDS DeltaAction, TLAPS

\* What came from the chain is of the snapshot; what is published, of the API.
ReadingInv ==
    /\ published.from = "api"
    /\ reading.available => pc = "judge"
    /\ (reading.available /\ reading.from = "chain")
          => /\ snapshot.count # 0
             /\ reading.deviation = proofs[snapshot.count]
             /\ reading.threshold = snapshot.exit

\* Every proof was inside the exit band of its day.
AttestedInv ==
    /\ band.exit <= widest
    /\ \A n \in 1 .. Len(proofs) : Abs(proofs[n]) <= widest

Inv == TypeOK /\ ReadingInv /\ AttestedInv

-----------------------------------------------------------------------------
(* Shapes of the values.                                                    *)

\* Both edges of a band are thresholds.
LEMMA BandParts ==
    ASSUME NEW b \in Bands
    PROVE  /\ b.exit \in Nat /\ b.trigger \in Nat
           /\ b.exit \in Thresholds /\ b.trigger \in Thresholds
BY DeltaAssumption DEF Thresholds

\* An answer without data is a reading.
LEMMA UnavailableIsAReading ==
    ASSUME NEW from \in {"chain", "api"}
    PROVE  /\ Unavailable(from) \in Readings
           /\ ~Unavailable(from).available
           /\ Unavailable(from).from = from
BY DEF Unavailable, Readings, Fields

\* So is what the caller holds between two reads.
LEMMA NoReadingIsAReading == NoReading \in Readings /\ ~NoReading.available
BY UnavailableIsAReading DEF NoReading

\* A longer chain agrees with the one before it.
LEMMA AppendedProofs ==
    ASSUME NEW d \in Deltas, proofs \in Seq(Deltas), proofs' = Append(proofs, d)
    PROVE  /\ proofs' \in Seq(Deltas) /\ Len(proofs') = Len(proofs) + 1
           /\ \A n \in 1 .. Len(proofs) : proofs'[n] = proofs[n]
           /\ proofs'[Len(proofs')] = d
BY DeltaAssumption

\* Every proof of the chain carries a deviation.
LEMMA AttestedIsAnInteger ==
    ASSUME proofs \in Seq(Deltas), NEW n \in 1 .. Len(proofs)
    PROVE  proofs[n] \in Deltas /\ proofs[n] \in Int
<1>1. proofs[n] \in Deltas
  OBVIOUS
<1>2. QED
  BY <1>1, DeltaAssumption

-----------------------------------------------------------------------------
(* Initially.                                                               *)

\* No proof, no reading.
LEMMA InitInv == Init => Inv
<1> SUFFICES ASSUME Init PROVE Inv
  OBVIOUS
<1>1. band \in Bands /\ band.exit \in Nat
  BY BandParts DEF Init, ReadInit
<1>2. proofs = << >> /\ Len(proofs) = 0 /\ proofs \in Seq(Deltas)
  BY DEF Init, ReadInit
<1>3. snapshot \in [exit : Fields(Thresholds), count : 0 .. Len(proofs)]
  BY <1>2 DEF Init, ReadInit, NoSnapshot, Fields
<1>4. published \in Readings /\ reading \in Readings
  BY UnavailableIsAReading, NoReadingIsAReading DEF Init, ReadInit
<1>5. TypeOK
  BY <1>1, <1>2, <1>3, <1>4, DeltaAssumption
     DEF TypeOK, ReadTypeOK, Init, ReadInit, ReadPoints, NoJob
<1>6. ReadingInv
  BY UnavailableIsAReading, NoReadingIsAReading DEF ReadingInv, Init, ReadInit
<1>7. AttestedInv
  BY <1>1, <1>2 DEF AttestedInv, Init
<1>8. QED
  BY <1>5, <1>6, <1>7 DEF Inv

-----------------------------------------------------------------------------
(* The world, which leaves the read alone.                                  *)

\* What the job and the read hold stays; the chain may have become longer.
LEMMA TheReadStands ==
    ASSUME Inv, UNCHANGED <<pc, read, job>>,
           live' \in Deltas, band' \in Bands,
           proofs' \in Seq(Deltas), Len(proofs') \in Len(proofs) .. MaxProofs,
           \A n \in 1 .. Len(proofs) : proofs'[n] = proofs[n],
           published' \in Readings, published'.from = "api", widest' \in Nat
    PROVE  TypeOK' /\ ReadingInv'
<1>1. snapshot' = snapshot /\ reading' = reading /\ pc' = pc /\ source' = source
  BY DEF read
<1>2. Len(proofs) \in Nat /\ Len(proofs') \in Nat
  BY DEF Inv, TypeOK, ReadTypeOK
<1>3. snapshot' \in [exit : Fields(Thresholds), count : 0 .. Len(proofs')]
  BY <1>1, <1>2 DEF Inv, TypeOK, ReadTypeOK
<1>4. ReadTypeOK'
  BY <1>1, <1>3, <1>2 DEF Inv, TypeOK, ReadTypeOK
<1>5. TypeOK'
  BY <1>1, <1>4 DEF Inv, TypeOK, job
<1>6. snapshot.count # 0 => proofs'[snapshot.count] = proofs[snapshot.count]
  BY <1>2 DEF Inv, TypeOK, ReadTypeOK
<1>7. ReadingInv'
  BY <1>1, <1>6 DEF Inv, ReadingInv
<1>8. QED
  BY <1>5, <1>7

\* Whatever moves outside, one case for each.
LEMMA WorldKeepsInv ==
    ASSUME Inv, World, UNCHANGED job,
           widest' = IF band'.exit > widest THEN band'.exit ELSE widest
    PROVE  Inv'
<1>1. /\ live \in Deltas /\ band \in Bands /\ proofs \in Seq(Deltas)
      /\ Len(proofs) \in Nat /\ Len(proofs) <= MaxProofs /\ published \in Readings
      /\ widest \in Nat
  BY DEF Inv, TypeOK, ReadTypeOK
<1>2. ASSUME NEW d \in Deltas, Drift(d)
      PROVE  Inv'
  <2>1. TypeOK' /\ ReadingInv'
    BY <1>1, <1>2, TheReadStands, BandParts, DeltaAssumption DEF Drift, Inv, ReadingInv
  <2>2. AttestedInv'
    BY <1>1, <1>2, BandParts DEF Drift, Inv, AttestedInv
  <2>3. QED
    BY <2>1, <2>2 DEF Inv
<1>3. ASSUME NEW b \in Bands, Retune(b)
      PROVE  Inv'
  <2>1. b.exit \in Nat
    BY BandParts
  <2>2. TypeOK' /\ ReadingInv'
    BY <1>1, <1>3, <2>1, TheReadStands, DeltaAssumption DEF Retune, Inv, ReadingInv
  <2>3. widest <= widest' /\ band'.exit <= widest' /\ widest' \in Nat
    BY <1>1, <1>3, <2>1 DEF Retune
  <2>4. ASSUME NEW n \in 1 .. Len(proofs)
        PROVE  Abs(proofs[n]) <= widest'
    <3>1. Abs(proofs[n]) <= widest
      BY DEF Inv, AttestedInv
    <3>2. proofs[n] \in Int
      BY <1>1, AttestedIsAnInteger
    <3>3. Abs(proofs[n]) \in Int
      BY <3>2 DEF Abs
    <3>4. QED
      BY <3>1, <3>3, <2>3, <1>1
  <2>5. AttestedInv'
    BY <1>3, <2>3, <2>4 DEF Retune, AttestedInv
  <2>6. QED
    BY <2>2, <2>5 DEF Inv
<1>4. ASSUME NEW d \in Deltas, Rebalance(d)
      PROVE  Inv'
  <2>1. /\ proofs' \in Seq(Deltas) /\ Len(proofs') = Len(proofs) + 1
        /\ \A n \in 1 .. Len(proofs) : proofs'[n] = proofs[n]
        /\ proofs'[Len(proofs')] = d
    BY <1>1, <1>4, AppendedProofs DEF Rebalance
  <2>2. Len(proofs') \in Len(proofs) .. MaxProofs
    BY <1>1, <1>4, <2>1, DeltaAssumption DEF Rebalance
  <2>3. band' = band /\ published' = published /\ live' = d /\ UNCHANGED <<pc, read>>
    BY <1>4 DEF Rebalance
  <2>4. widest' = widest
    BY <1>1, <2>3, BandParts DEF Inv, AttestedInv
  <2>5. TypeOK' /\ ReadingInv'
    BY <1>1, <2>1, <2>2, <2>3, <2>4, TheReadStands DEF Inv, ReadingInv
  <2>6. Abs(d) <= widest
    BY <1>1, <1>4, BandParts, DeltaAssumption DEF Rebalance, Inv, AttestedInv, Abs
  <2>7. AttestedInv'
    BY <1>1, <2>1, <2>3, <2>4, <2>6 DEF Inv, AttestedInv
  <2>8. QED
    BY <2>5, <2>7 DEF Inv
<1>5. CASE Publish
  <2>1. /\ UNCHANGED <<live, band, proofs, pc, read>>
    BY <1>5 DEF Publish
  <2>2. published' \in Readings /\ published'.from = "api"
    <3>1. CASE published' = Unavailable("api")
      BY <3>1, UnavailableIsAReading
    <3>2. CASE published' \in
               [from : {"api"}, available : {TRUE}, deviation : {live, Unpublished},
                threshold : {IF t THEN band.trigger ELSE Unpublished : t \in ThresholdPublished}]
      BY <3>2, <1>1, BandParts DEF Readings, Fields
    <3>3. QED
      BY <3>1, <3>2, <1>5 DEF Publish
  <2>3. widest' = widest
    BY <1>1, <2>1, BandParts DEF Inv, AttestedInv
  <2>4. TypeOK' /\ ReadingInv'
    BY <1>1, <2>1, <2>2, <2>3, TheReadStands, DeltaAssumption
  <2>5. AttestedInv'
    BY <2>1, <2>3 DEF Inv, AttestedInv
  <2>6. QED
    BY <2>4, <2>5 DEF Inv
<1>6. QED
  BY <1>2, <1>3, <1>4, <1>5 DEF World

-----------------------------------------------------------------------------
(* The read, which leaves the world alone.                                  *)

\* A step of the job: the same world, so what is attested stands.
LEMMA WorldStands ==
    ASSUME Inv, UNCHANGED world,
           widest' = IF band'.exit > widest THEN band'.exit ELSE widest
    PROVE  AttestedInv' /\ widest' = widest
<1>1. band' = band /\ proofs' = proofs /\ band \in Bands /\ widest \in Nat
  BY DEF world, Inv, TypeOK, ReadTypeOK
<1>2. widest' = widest
  BY <1>1, BandParts DEF Inv, AttestedInv
<1>3. QED
  BY <1>1, <1>2 DEF Inv, AttestedInv

\* The read goes on without an answer, or ends with none from the chain.
LEMMA NoAnswerYet ==
    ASSUME Inv, UNCHANGED <<world, source, job>>, widest' = widest,
           pc' \in ReadPoints, reading' \in Readings, ~reading'.available,
           snapshot' \in [exit : Fields(Thresholds), count : 0 .. Len(proofs)],
           pc' = "proof" => snapshot'.count # 0
    PROVE  TypeOK' /\ ReadingInv'
<1>1. live' = live /\ band' = band /\ proofs' = proofs /\ published' = published
  BY DEF world
<1>2. ReadTypeOK'
  BY <1>1 DEF Inv, TypeOK, ReadTypeOK
<1>3. TypeOK'
  BY <1>2 DEF Inv, TypeOK, job
<1>4. ReadingInv'
  BY <1>1 DEF Inv, ReadingInv
<1>5. QED
  BY <1>3, <1>4

\* Await by await.
LEMMA ReadKeepsInv ==
    ASSUME Inv, ReadStep, UNCHANGED job,
           widest' = IF band'.exit > widest THEN band'.exit ELSE widest
    PROVE  Inv'
<1>1. UNCHANGED world /\ source' = source
  BY DEF ReadStep, BeginRead, ReadConfig, ReadProof, DecodeThrows, ReadApi, read
<1>2. AttestedInv' /\ widest' = widest
  BY <1>1, WorldStands
<1>3. /\ snapshot \in [exit : Fields(Thresholds), count : 0 .. Len(proofs)]
      /\ reading \in Readings /\ published \in Readings /\ published.from = "api"
      /\ proofs \in Seq(Deltas) /\ Len(proofs) \in Nat /\ band \in Bands
      /\ live' = live /\ band' = band /\ proofs' = proofs /\ published' = published
  BY <1>1 DEF Inv, TypeOK, ReadTypeOK, ReadingInv, world
<1>4. ASSUME NEW from \in {"chain", "api"}, reading' = Unavailable(from),
             pc' \in {"judge", "api"},
             snapshot' \in [exit : Fields(Thresholds), count : 0 .. Len(proofs)]
      PROVE  TypeOK' /\ ReadingInv'
  BY <1>1, <1>2, <1>4, NoAnswerYet, UnavailableIsAReading DEF ReadPoints
<1>5. CASE BeginRead
  <2>1. /\ reading' = reading /\ snapshot' = snapshot /\ pc = "idle"
        /\ pc' \in {"api", "config"}
    BY <1>5 DEF BeginRead, read
  <2>2. ~reading.available
    BY <2>1 DEF Inv, ReadingInv
  <2>3. TypeOK' /\ ReadingInv'
    BY <1>1, <1>2, <1>3, <2>1, <2>2, NoAnswerYet DEF ReadPoints
  <2>4. QED
    BY <1>2, <2>3 DEF Inv
<1>6. CASE ReadConfig
  <2>1. [exit |-> band.exit, count |-> Len(proofs)]
            \in [exit : Fields(Thresholds), count : 0 .. Len(proofs)]
    BY <1>3, BandParts DEF Fields
  <2>2. snapshot' \in [exit : Fields(Thresholds), count : 0 .. Len(proofs)]
    BY <1>3, <1>6, <2>1 DEF ReadConfig
  <2>3. CASE ChainUnavailable
    BY <1>2, <1>4, <2>2, <2>3 DEF ChainUnavailable, Inv
  <2>4. CASE ~ChainUnavailable
    <3>1. /\ snapshot' = [exit |-> band.exit, count |-> Len(proofs)]
          /\ proofs # << >> /\ pc' = "proof" /\ reading' = reading
      BY <1>6, <2>4 DEF ReadConfig
    <3>2. Len(proofs) # 0 /\ snapshot'.count # 0
      BY <1>3, <3>1
    <3>3. ~reading.available
      BY <1>6 DEF ReadConfig, Inv, ReadingInv
    <3>4. TypeOK' /\ ReadingInv'
      BY <1>1, <1>2, <1>3, <2>2, <3>1, <3>2, <3>3, NoAnswerYet DEF ReadPoints
    <3>5. QED
      BY <1>2, <3>4 DEF Inv
  <2>5. QED
    BY <2>3, <2>4
<1>7. CASE ReadProof
  <2>1. snapshot' = snapshot /\ pc = "proof"
    BY <1>7 DEF ReadProof
  <2>2. CASE ChainUnavailable
    BY <1>2, <1>3, <1>4, <2>1, <2>2 DEF ChainUnavailable, Inv
  <2>3. CASE ~ChainUnavailable
    <3>1. /\ reading' = [from |-> "chain", available |-> TRUE,
                         deviation |-> proofs[snapshot.count],
                         threshold |-> snapshot.exit]
          /\ pc' = "judge"
      BY <1>7, <2>3 DEF ReadProof
    <3>2. snapshot.count \in 1 .. Len(proofs) /\ snapshot.exit \in Fields(Thresholds)
      BY <1>3, <2>1 DEF Inv, TypeOK, ReadTypeOK
    <3>3. proofs[snapshot.count] \in Deltas
      BY <1>3, <3>2
    <3>4. reading' \in Readings
      BY <3>1, <3>2, <3>3 DEF Readings, Fields
    <3>5. TypeOK'
      BY <1>1, <1>2, <1>3, <2>1, <3>1, <3>4
         DEF Inv, TypeOK, ReadTypeOK, ReadPoints, job
    <3>6. ReadingInv'
      BY <1>3, <2>1, <3>1, <3>2 DEF ReadingInv
    <3>7. QED
      BY <1>2, <3>5, <3>6 DEF Inv
  <2>4. QED
    BY <2>2, <2>3
<1>8. CASE DecodeThrows
  <2>1. /\ reading' = reading /\ snapshot' = snapshot /\ pc \in {"config", "proof"}
        /\ pc' = "thrown"
    BY <1>8 DEF DecodeThrows, read
  <2>2. ~reading.available
    BY <2>1 DEF Inv, ReadingInv
  <2>3. TypeOK' /\ ReadingInv'
    BY <1>1, <1>2, <1>3, <2>1, <2>2, NoAnswerYet DEF ReadPoints
  <2>4. QED
    BY <1>2, <2>3 DEF Inv
<1>9. CASE ReadApi
  <2>1. snapshot' = snapshot /\ pc' = "judge"
    BY <1>9 DEF ReadApi
  <2>2. CASE reading' = published
    <3>1. TypeOK'
      BY <1>1, <1>2, <1>3, <2>1, <2>2 DEF Inv, TypeOK, ReadTypeOK, ReadPoints, job
    <3>2. ReadingInv'
      BY <1>3, <2>1, <2>2 DEF ReadingInv
    <3>3. QED
      BY <1>2, <3>1, <3>2 DEF Inv
  <2>3. CASE \E from \in {"chain", "api"} : reading' = Unavailable(from)
    BY <1>2, <1>3, <1>4, <2>1, <2>3 DEF Inv
  <2>4. QED
    BY <1>9, <2>2, <2>3 DEF ReadApi
<1>10. QED
  BY <1>5, <1>6, <1>7, <1>8, <1>9 DEF ReadStep

\* The end of a job drops the reading.
LEMMA ConcludeKeepsInv ==
    ASSUME Inv, Conclude,
           widest' = IF band'.exit > widest THEN band'.exit ELSE widest
    PROVE  Inv'
<1>1. /\ UNCHANGED world /\ source' = source /\ failOnUnavailable' = failOnUnavailable
      /\ snapshot' = NoSnapshot /\ reading' = NoReading /\ pc' = "idle"
      /\ verdict' \in {"pass", "fail"}
  BY DEF Conclude, EndRead, Summarize
<1>2. AttestedInv' /\ widest' = widest
  BY <1>1, WorldStands
<1>3. /\ live' = live /\ band' = band /\ proofs' = proofs /\ published' = published
      /\ Len(proofs) \in Nat
  BY <1>1 DEF world, Inv, TypeOK, ReadTypeOK
<1>4. snapshot' \in [exit : Fields(Thresholds), count : 0 .. Len(proofs')]
  BY <1>1, <1>3 DEF NoSnapshot, Fields
<1>5. TypeOK'
  BY <1>1, <1>2, <1>3, <1>4, NoReadingIsAReading DEF Inv, TypeOK, ReadTypeOK, ReadPoints
<1>6. ReadingInv'
  BY <1>1, <1>3, NoReadingIsAReading DEF Inv, ReadingInv
<1>7. QED
  BY <1>2, <1>5, <1>6 DEF Inv

\* World, read and verdict together.
LEMMA InvAlways == Spec => []Inv
<1>1. Inv /\ [Next]_vars => Inv'
  <2> SUFFICES ASSUME Inv, [Next]_vars PROVE Inv'
    OBVIOUS
  <2>1. CASE Next
    BY <2>1, WorldKeepsInv, ReadKeepsInv, ConcludeKeepsInv DEF Next, JobStep
  <2>2. CASE UNCHANGED vars
    BY <2>2 DEF vars, world, read, job, Inv, TypeOK, ReadTypeOK, ReadingInv, AttestedInv
  <2>3. QED
    BY <2>1, <2>2
<1>2. QED
  BY InitInv, <1>1, PTL DEF Spec

-----------------------------------------------------------------------------

\* The monitor stays well typed.
THEOREM TypeCorrect == Spec => []TypeOK
PROOF
<1>1. Inv => TypeOK
  BY DEF Inv
<1>2. QED
  BY <1>1, InvAlways, PTL

\* A chain reading is never torn, however many proofs and band changes land
\* between the two calls of a read.
THEOREM ReadingsAreOfOneInstant == Spec => []OneInstant
PROOF
<1>1. Inv => OneInstant
  BY DEF Inv, ReadingInv, OneInstant
<1>2. QED
  BY <1>1, InvAlways, PTL

-----------------------------------------------------------------------------
(* Verdicts.                                                                *)

\* Only the end of a job takes the caller back to where jobs start.
LEMMA OnlyConcludeConcludes ==
    ASSUME Inv, [Next]_vars, Concludes
    PROVE  Conclude
<1>1. ~(World /\ UNCHANGED job)
  BY DEF Concludes, World, Drift, Retune, Rebalance, Publish
<1>2. ~JobStep
  BY DEF Concludes, JobStep, ReadStep, BeginRead, ReadConfig, ReadProof, DecodeThrows,
         ReadApi, ChainUnavailable
<1>3. ~UNCHANGED vars
  BY DEF Concludes, vars
<1>4. QED
  BY <1>1, <1>2, <1>3 DEF Next

\* No missing, unreadable or malformed measurement turns a job green.
THEOREM GreenIsMeasured == Spec => GreenMeansMeasuredInside
PROOF
<1>1. ASSUME Inv, [Next]_vars, Concludes, verdict' = "pass", failOnUnavailable
      PROVE  reading.available /\ reading.deviation \in -Limit .. Limit
  <2>1. /\ pc \in {"judge", "thrown"}
        /\ verdict' = Summarize(IF pc = "thrown" THEN 1 ELSE DeltaExit(reading))
    BY <1>1, OnlyConcludeConcludes DEF Conclude
  <2>2. (IF pc = "thrown" THEN 1 ELSE DeltaExit(reading)) = 0
    BY <1>1, <2>1 DEF Summarize
  <2>3. DeltaExit(reading) = 0
    BY <2>2
  <2>4. reading.available /\ reading.deviation # Unpublished /\ ~(Abs(reading.deviation) > Limit)
    BY <2>3 DEF DeltaExit
  <2>5. reading.deviation \in Int
    BY <1>1, <2>4, DeltaAssumption DEF Inv, TypeOK, ReadTypeOK, Readings, Fields
  <2>6. reading.deviation \in -Limit .. Limit
    BY <2>4, <2>5, LimitAssumption DEF Abs
  <2>7. QED
    BY <2>4, <2>6
<1>2. Inv /\ [Next]_vars =>
        [(Concludes /\ verdict' = "pass" /\ failOnUnavailable)
           => reading.available /\ reading.deviation \in -Limit .. Limit]_vars
  BY <1>1
<1>3. QED
  BY <1>2, InvAlways, PTL DEF Spec, GreenMeansMeasuredInside

\* The chain alone fails a job only where the band has been wider than the limit.
THEOREM AttestedDeltasAreInside == Spec => ChainBreachNeedsAWideBand
PROOF
<1>1. ASSUME Inv, [Next]_vars, Concludes, verdict' = "fail",
             reading.from = "chain", reading.available
      PROVE  Limit < widest
  <2>1. pc = "judge" /\ verdict' = Summarize(DeltaExit(reading))
    BY <1>1, OnlyConcludeConcludes DEF Conclude, Inv, ReadingInv
  <2>2. /\ snapshot.count # 0 /\ reading.deviation = proofs[snapshot.count]
    BY <1>1 DEF Inv, ReadingInv
  <2>3. snapshot.count \in 1 .. Len(proofs)
    BY <1>1, <2>2 DEF Inv, TypeOK, ReadTypeOK
  <2>4. proofs[snapshot.count] \in Int
    BY <1>1, <2>3, AttestedIsAnInteger DEF Inv, TypeOK, ReadTypeOK
  <2>5. reading.deviation \in Int /\ reading.deviation # Unpublished
    BY <2>2, <2>4, DeltaAssumption
  <2>6. Abs(reading.deviation) <= widest
    BY <1>1, <2>2, <2>3 DEF Inv, AttestedInv
  <2>7. DeltaExit(reading) # 0
    BY <1>1, <2>1 DEF Summarize
  <2>8. Abs(reading.deviation) > Limit
    BY <1>1, <2>5, <2>7 DEF DeltaExit
  <2>9. Abs(reading.deviation) \in Int /\ widest \in Nat
    BY <1>1, <2>5 DEF Abs, Inv, TypeOK
  <2>10. QED
    BY <2>6, <2>8, <2>9, LimitAssumption
<1>2. Inv /\ [Next]_vars =>
        [(Concludes /\ verdict' = "fail" /\ reading.from = "chain" /\ reading.available)
           => Limit < widest]_vars
  BY <1>1
<1>3. QED
  BY <1>2, InvAlways, PTL DEF Spec, ChainBreachNeedsAWideBand

=============================================================================
