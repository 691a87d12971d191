----------------------------- MODULE DeltaSource -----------------------------
(***************************************************************************)
(* One reading of the hedge's net delta: PoyzClient.getDelta over the      *)
(* on-chain proof chain and the status API, while the book, the chain and  *)
(* the indexer move on between its steps.                                  *)
(*                                                                         *)
(* Every await of the read is a step: the config, then the proof account   *)
(* its counter points at, then (for a source that may fall back) the API.  *)
(* The program and the indexer are not in this repository; Drift, Retune,  *)
(* Rebalance and Publish model them from what chain.ts and api.ts say.     *)
(***************************************************************************)
EXTENDS Integers, Sequences

CONSTANTS
    Deltas,               \* net deviations of the book, in bps
    Bands,                \* configured bands, [trigger, exit] in bps
    MaxProofs,            \* bound on the length of the proof chain
    ThresholdPublished,   \* whether the API's envelopes may carry the band
    Unpublished           \* a null field

ASSUME DeltaAssumption ==
    /\ Deltas \subseteq Int /\ 0 \in Deltas
    /\ Bands \subseteq [trigger : Nat, exit : Nat]
    /\ \A b \in Bands : b.exit <= b.trigger
    /\ MaxProofs \in Nat
    /\ ThresholdPublished \in (SUBSET BOOLEAN) \ {{}}
    /\ Unpublished \notin Int

VARIABLES
    live,                 \* the book's deviation now
    band,                 \* config.deltaBandBps and config.deltaExitBps
    proofs,               \* delta_bps_after of each committed proof, oldest first
    published,            \* the status API's delta envelope
    source,               \* --source
    pc,                   \* where the caller and its read stand
    snapshot,             \* the config the read resolved
    reading               \* the SourcedValue getDelta answers with

world == <<live, band, proofs, published>>
read  == <<source, snapshot, reading>>

Sources == {"auto", "chain", "api"}
ReadPoints == {"idle", "config", "proof", "api", "judge", "thrown"}

Abs(n) == IF n < 0 THEN -n ELSE n

Fields(values) == values \cup {Unpublished}
Thresholds == {b.trigger : b \in Bands} \cup {b.exit : b \in Bands}
Readings == [from : {"chain", "api"}, available : BOOLEAN,
             deviation : Fields(Deltas), threshold : Fields(Thresholds)]

Unavailable(from) ==
    [from |-> from, available |-> FALSE,
     deviation |-> Unpublished, threshold |-> Unpublished]

ReadTypeOK ==
    /\ live \in Deltas
    /\ band \in Bands
    /\ proofs \in Seq(Deltas) /\ Len(proofs) <= MaxProofs
    /\ published \in Readings
    /\ source \in Sources
    /\ snapshot \in [exit : Fields(Thresholds), count : 0 .. Len(proofs)]
    /\ pc = "proof" => snapshot.count # 0
    /\ reading \in Readings

NoSnapshot == [exit |-> Unpublished, count |-> 0]
NoReading  == Unavailable("chain")

ReadInit ==
    /\ live = 0
    /\ band \in Bands
    /\ proofs = << >>
    /\ published = Unavailable("api")
    /\ source \in Sources
    /\ snapshot = NoSnapshot
    /\ reading = NoReading

-----------------------------------------------------------------------------
(* The world.                                                               *)

\* Prices move and the two legs part.
Drift(d) ==
    /\ live' = d
    /\ UNCHANGED <<band, proofs, published, pc, read>>

\* The authority changes the band.
Retune(b) ==
    /\ band' = b
    /\ UNCHANGED <<live, proofs, published, pc, read>>

\* A keeper rebalances and commits the proof; the program records a delta only
\* inside the exit band.
Rebalance(d) ==
    /\ Len(proofs) < MaxProofs
    /\ Abs(d) <= band.exit
    /\ live' = d
    /\ proofs' = Append(proofs, d)
    /\ UNCHANGED <<band, published, pc, read>>

\* The indexer publishes what it measures, or an envelope with fields missing.
Publish ==
    /\ published' \in
         {Unavailable("api")} \cup
         [from : {"api"}, available : {TRUE},
          deviation : {live, Unpublished},
          threshold : {IF t THEN band.trigger ELSE Unpublished : t \in ThresholdPublished}]
    /\ UNCHANGED <<live, band, proofs, pc, read>>

World ==
    \/ \E d \in Deltas : Drift(d) \/ Rebalance(d)
    \/ \E b \in Bands : Retune(b)
    \/ Publish

-----------------------------------------------------------------------------
(* The read.                                                                *)

BeginRead ==
    /\ pc = "idle"
    /\ pc' = IF source = "api" THEN "api" ELSE "config"
    /\ UNCHANGED <<world, read>>

\* The chain has no answer: final for `chain`, the fallback for `auto`.
ChainUnavailable ==
    /\ reading' = Unavailable("chain")
    /\ pc' = IF source = "chain" THEN "judge" ELSE "api"

\* Mutant: the newest sequence number is taken to be the counter itself.
ReadConfigOffByOne ==
    /\ pc = "config"
    /\ \/ /\ snapshot' = [exit |-> band.exit, count |-> Len(proofs) + 1]
          /\ IF proofs = << >> THEN ChainUnavailable
             ELSE pc' = "proof" /\ UNCHANGED reading
       \/ /\ ChainUnavailable
          /\ UNCHANGED snapshot
    /\ UNCHANGED <<world, source>>

\* getConfig answers with the counter and the bands, or the call fails.
ReadConfig ==
    /\ pc = "config"
    /\ \/ /\ snapshot' = [exit |-> band.exit, count |-> Len(proofs)]
          /\ IF proofs = << >> THEN ChainUnavailable
             ELSE pc' = "proof" /\ UNCHANGED reading
       \/ /\ ChainUnavailable
          /\ UNCHANGED snapshot
    /\ UNCHANGED <<world, source>>

\* Mutant: the newest proof at the time of this call, not the counted one.
ReadProofNewest ==
    /\ pc = "proof"
    /\ \/ /\ reading' = [from |-> "chain", available |-> TRUE,
                         deviation |-> proofs[Len(proofs)],
                         threshold |-> snapshot.exit]
          /\ pc' = "judge"
       \/ ChainUnavailable
    /\ UNCHANGED <<world, source, snapshot>>

\* getMultipleAccountsInfo answers for the counted proof; it may also fail, or
\* come from a node that does not have the account yet.
ReadProof ==
    /\ pc = "proof"
    /\ \/ /\ reading' = [from |-> "chain", available |-> TRUE,
                         deviation |-> proofs[snapshot.count],
                         threshold |-> snapshot.exit]
          /\ pc' = "judge"
       \/ ChainUnavailable
    /\ UNCHANGED <<world, source, snapshot>>

\* Account data too short for its layout throws a RangeError, which readChain
\* does not turn into an unavailable reading.
DecodeThrows ==
    /\ pc \in {"config", "proof"}
    /\ pc' = "thrown"
    /\ UNCHANGED <<world, read>>

\* Mutant: the fallback keeps the label of the source that had no answer.
ReadApiMislabelled ==
    /\ pc = "api"
    /\ \/ reading' = [published EXCEPT !.from = IF source = "api" THEN "api" ELSE "chain"]
       \/ reading' = Unavailable(IF source = "api" THEN "api" ELSE "chain")
    /\ pc' = "judge"
    /\ UNCHANGED <<world, source, snapshot>>

\* The API answers with its envelope, or cannot be reached in time.  When both
\* sources are out, `auto` answers with the chain's reason.
ReadApi ==
    /\ pc = "api"
    /\ \/ reading' = IF published.available \/ source = "api"
                     THEN published ELSE Unavailable("chain")
       \/ reading' = Unavailable(IF source = "api" THEN "api" ELSE "chain")
    /\ pc' = "judge"
    /\ UNCHANGED <<world, source, snapshot>>

\* The caller is done with the reading.
EndRead ==
    /\ snapshot' = NoSnapshot
    /\ reading' = NoReading
    /\ UNCHANGED source

ReadStep == BeginRead \/ ReadConfig \/ ReadProof \/ DecodeThrows \/ ReadApi

\* A chain reading is the chain at one instant, that of the config read, however
\* many proofs and band changes land before the proof account is fetched.
OneInstant ==
    (pc = "judge" /\ reading.from = "chain" /\ reading.available)
        => /\ reading.deviation = proofs[snapshot.count]
           /\ reading.threshold = snapshot.exit

=============================================================================
