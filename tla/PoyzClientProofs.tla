-------------------------- MODULE PoyzClientProofs --------------------------
(***************************************************************************)
(* What holds of a process around a PoyzClient, whatever its command needs *)
(* of the client.  Every part runs as it does alone, so that what is proved*)
(* of each part holds of the process; the two parts that read and judge    *)
(* have their proofs here.                                                 *)
(*                                                                         *)
(* The chain of proofs, for a log, a page and a corruption of any size:    *)
(* the log is a chain in which the n-th record carries sequence n - 1, the *)
(* hash before it and its own digest; a page is distinct records of it,    *)
(* newest first, all but one as they are in the log.                       *)
(*                                                                         *)
(* `poyz status`, for any number of rebalances and whatever answers or     *)
(* fails: getStats goes through its awaits once, in order, so the config   *)
(* it holds is the one of this call, and the one await after it is reached *)
(* with that config in hand.                                               *)
(***************************************************************************)
EXTENDS PoyzClient, DeltaActionProofs, ProtocolSessionProofs, TLAPS

-----------------------------------------------------------------------------
(* The chain of proofs.                                                     *)

\* A record with its own four fields, as the program stores them.
IsRecord(r) ==
    /\ r = [sequence |-> r.sequence, figures |-> r.figures,
            prevHash |-> r.prevHash, thisHash |-> r.thisHash]
    /\ r.figures = [f \in RecordFields |-> r.figures[f]]

Chained(n) ==
    /\ IsRecord(log[n])
    /\ log[n].sequence = n - 1
    /\ log[n].thisHash = Digest(log[n])
    /\ n > 1 => log[n].prevHash = log[n - 1].thisHash

LogInv ==
    /\ \E S : log \in Seq(S)
    /\ Len(log) <= MaxLog
    /\ \A n \in 1 .. Len(log) : Chained(n)
    /\ counted \in 0 .. Len(log)
    /\ verifier \in {"idle", "counted", "fetched"}
    /\ verifier = "counted" => counted # 0

\* The page is the records of the log at the positions pick, the one at
\* alteration.at set aside.
PageOf(size, pick) ==
    /\ DOMAIN window = 1 .. size /\ Len(window) = size
    /\ \A i, j \in 1 .. size : i < j => pick[i] > pick[j]
    /\ \A i \in 1 .. size : i # alteration.at => window[i] = log[pick[i]]
    /\ alteration # Untouched =>
          alteration.at \in 1 .. size /\ alteration.original = log[pick[alteration.at]]

WindowInv ==
    \E size \in 0 .. counted : \E pick \in [1 .. size -> 1 .. counted] : PageOf(size, pick)

\* What is left of the record that came back different.
AlteredTo(x) ==
    LET other == Altered(alteration.original, alteration.part, x) IN
    /\ other # alteration.original
    /\ window[alteration.at] = IF alteration.rehashed THEN Hashed(other) ELSE other

AlterationInv ==
    alteration # Untouched => alteration.part \in Parts /\ \E x : AlteredTo(x)

ProofInv == LogInv /\ WindowInv /\ AlterationInv

-----------------------------------------------------------------------------

\* Committing extends the chain and leaves the records before it alone.
LEMMA CommitKeepsTheLog ==
    ASSUME LogInv, NEW x, Commit(Plain(x))
    PROVE  /\ LogInv'
           /\ \A n \in 1 .. Len(log) : log'[n] = log[n]
PROOF
  <1>1. PICK S : log \in Seq(S)
    BY DEF LogInv
  <1> DEFINE e == Hashed([sequence |-> Len(log), figures |-> Plain(x),
                          prevHash |-> lastProofHash, thisHash |-> NoProof])
  <1> DEFINE T == S \cup {e}
  <1>2. log' = Append(log, e) /\ Len(log) < MaxLog
        /\ UNCHANGED <<counted, verifier>>
    BY DEF Commit
  <1>3. log \in Seq(T)
    BY <1>1
  <1>4. e \in T
    OBVIOUS
  <1> HIDE DEF e, T
  <1>5. /\ log' \in Seq(T) /\ Len(log') = Len(log) + 1
        /\ \A n \in 1 .. Len(log) : log'[n] = log[n]
        /\ log'[Len(log) + 1] = e
    BY <1>2, <1>3, <1>4
  <1>6. Len(log) \in Nat
    BY <1>1
  <1>7. /\ IsRecord(e) /\ e.sequence = Len(log) /\ e.prevHash = lastProofHash
        /\ e.thisHash = Digest(e)
    BY DEF e, IsRecord, Hashed, Digest, Plain, ProgramFields, RecordFields
  <1>8. ASSUME NEW n \in 1 .. Len(log') PROVE Chained(n)'
    <2>1. CASE n <= Len(log)
      <3>1. Chained(n) /\ log'[n] = log[n] /\ (n > 1 => log'[n - 1] = log[n - 1])
        BY <2>1, <1>5, <1>6, <1>8 DEF LogInv
      <3>2. QED BY <3>1 DEF Chained, IsRecord, Digest
    <2>2. CASE n = Len(log) + 1
      <3>1. log'[n] = e /\ n - 1 = Len(log)
        BY <2>2, <1>5, <1>6
      <3>2. n > 1 => lastProofHash = log'[n - 1].thisHash
        BY <3>1, <1>1, <1>5, <1>6 DEF lastProofHash
      <3>3. QED BY <3>1, <3>2, <1>7 DEF Chained, IsRecord, Digest
    <2>3. QED BY <2>1, <2>2, <1>5, <1>6, <1>8
  <1>9. Len(log') <= MaxLog /\ counted' \in 0 .. Len(log')
    BY <1>2, <1>5, <1>6, ProofChainAssumption DEF LogInv
  <1>10. QED BY <1>2, <1>5, <1>8, <1>9 DEF LogInv

\* The accounts asked for are counted ones, however large or small the limit.
LEMMA AskedAreCounted ==
    ASSUME NEW limit \in Int, counted \in Nat \ {0}
    PROVE  /\ PageSize(limit) \in 1 .. counted
           /\ Asked(limit) \subseteq 1 .. counted
PROOF
  BY ProofChainAssumption DEF PageSize, Asked, Smaller, Larger

\* What a node answers: distinct records below the counter, newest first.
LEMMA AnswersArePages ==
    ASSUME NEW limit \in Int, counted \in Nat, NEW pick \in Answers(limit)
    PROVE  counted # 0 =>
             \E size \in 0 .. counted :
                /\ pick \in [1 .. size -> 1 .. counted]
                /\ \A i, j \in 1 .. size : i < j => pick[i] > pick[j]
PROOF
  <1> SUFFICES ASSUME counted # 0
               PROVE  \E size \in 0 .. counted :
                        /\ pick \in [1 .. size -> 1 .. counted]
                        /\ \A i, j \in 1 .. size : i < j => pick[i] > pick[j]
    OBVIOUS
  <1>1. PICK size \in 0 .. PageSize(limit) :
           /\ pick \in [1 .. size -> Asked(limit)]
           /\ \A i, j \in 1 .. size : i < j => pick[i] > pick[j]
    BY DEF Answers
  <1>2. PageSize(limit) \in 1 .. counted /\ Asked(limit) \subseteq 1 .. counted
    BY AskedAreCounted
  <1>3. size \in 0 .. counted /\ pick \in [1 .. size -> 1 .. counted]
    BY <1>1, <1>2
  <1>4. QED BY <1>1, <1>3

-----------------------------------------------------------------------------
(* The invariant.                                                            *)

LEMMA EmptyPage ==
    ASSUME counted' = 0, window' = << >>, alteration' = Untouched
    PROVE  WindowInv'
PROOF
  <1> DEFINE none == [i \in 1 .. 0 |-> 1]
  <1>1. none \in [1 .. 0 -> 1 .. counted'] /\ 0 \in 0 .. counted'
    OBVIOUS
  <1>2. PageOf(0, none)'
    BY DEF PageOf
  <1>3. QED BY <1>1, <1>2 DEF WindowInv

\* An empty log and no page.
LEMMA InitEstablishesProofInv == ASSUME ProofInit PROVE ProofInv
PROOF
  <1>1. LogInv
    <2>1. log \in Seq({}) /\ Len(log) = 0
      BY DEF ProofInit
    <2>2. QED BY <2>1, ProofChainAssumption DEF ProofInit, LogInv
  <1>2. WindowInv
    <2> DEFINE none == [i \in 1 .. 0 |-> 1]
    <2>1. none \in [1 .. 0 -> 1 .. counted] /\ 0 \in 0 .. counted
      BY DEF ProofInit
    <2>2. DOMAIN window = 1 .. 0 /\ Len(window) = 0
      BY DEF ProofInit
    <2>3. PageOf(0, none)
      BY <2>2 DEF ProofInit, PageOf
    <2>4. QED BY <2>1, <2>3 DEF WindowInv
  <1>3. QED BY <1>1, <1>2 DEF ProofInv, AlterationInv, ProofInit

\* A page stays one of the log when the log grows past it.
LEMMA WindowSurvivesGrowth ==
    ASSUME LogInv, WindowInv,
           \A n \in 1 .. Len(log) : log'[n] = log[n],
           UNCHANGED <<counted, window, alteration>>
    PROVE  WindowInv'
PROOF
  <1> PICK size \in 0 .. counted : \E pick \in [1 .. size -> 1 .. counted] : PageOf(size, pick)
    BY DEF WindowInv
  <1>1. PICK pick \in [1 .. size -> 1 .. counted] : PageOf(size, pick)
    OBVIOUS
  <1>2. \A i \in 1 .. size : pick[i] \in 1 .. Len(log)
    BY DEF LogInv
  <1>3. PageOf(size, pick)'
    BY <1>1, <1>2 DEF PageOf
  <1>4. QED BY <1>3 DEF WindowInv

\* What a fetch leaves is a page, whatever it left out or altered.
LEMMA FetchLeavesAPage ==
    ASSUME LogInv, verifier = "counted", counted # 0,
           NEW limit \in Int, NEW pick \in Answers(limit),
           UNCHANGED <<log, counted>>,
           \/ window' = Genuine(pick) /\ alteration' = Untouched
           \/ \E k \in DOMAIN pick : \E r, p, rehashed :
                /\ window' = [i \in DOMAIN pick |-> IF i # k THEN log[pick[i]] ELSE r]
                /\ alteration' = [at |-> k, part |-> p, rehashed |-> rehashed,
                                  original |-> log[pick[k]]]
    PROVE  WindowInv'
PROOF
  <1>1. counted \in Nat \ {0}
    BY DEF LogInv
  <1>2. PICK size \in 0 .. counted :
           /\ pick \in [1 .. size -> 1 .. counted]
           /\ \A i, j \in 1 .. size : i < j => pick[i] > pick[j]
    BY <1>1, AnswersArePages
  <1>3. DOMAIN pick = 1 .. size /\ size \in Nat
    BY <1>1, <1>2
  <1>4. DOMAIN window' = 1 .. size
    BY <1>3 DEF Genuine
  <1>5. Len(window') = size
    <2>1. window' \in Seq({window'[i] : i \in 1 .. size})
      BY <1>3, <1>4 DEF Genuine
    <2>2. QED BY <1>3, <1>4, <2>1
  <1>6. PageOf(size, pick)'
    BY <1>2, <1>3, <1>4, <1>5 DEF PageOf, Genuine, Untouched
  <1>7. QED BY <1>2, <1>6 DEF WindowInv

\* A step that keeps the page keeps what is known of its alteration.
LEMMA AlterationOnlyAtAFetch ==
    ASSUME AlterationInv, UNCHANGED <<window, alteration>>
    PROVE  AlterationInv'
PROOF
  BY DEF AlterationInv, AlteredTo

\* A step that moves neither the log nor the page keeps both.
LEMMA WindowSurvivesACount ==
    ASSUME WindowInv, counted \in Nat, counted' \in Nat, counted <= counted',
           UNCHANGED <<log, window, alteration>>
    PROVE  WindowInv'
PROOF
  <1> PICK size \in 0 .. counted : \E pick \in [1 .. size -> 1 .. counted] : PageOf(size, pick)
    BY DEF WindowInv
  <1>1. PICK pick \in [1 .. size -> 1 .. counted] : PageOf(size, pick)
    OBVIOUS
  <1>2. size \in 0 .. counted' /\ pick \in [1 .. size -> 1 .. counted']
    OBVIOUS
  <1>3. PageOf(size, pick)'
    BY <1>1 DEF PageOf
  <1>4. QED BY <1>2, <1>3 DEF WindowInv

\* A step of the verifier leaves the log a chain.
LEMMA LogOutlivesReads ==
    ASSUME LogInv, UNCHANGED log,
           counted' \in 0 .. Len(log), verifier' \in {"idle", "counted", "fetched"},
           verifier' = "counted" => counted' # 0
    PROVE  LogInv'
PROOF
  <1>1. \A n \in 1 .. Len(log) : Chained(n)'
    BY DEF LogInv, Chained, IsRecord, Digest
  <1>2. QED BY <1>1 DEF LogInv

\* Commits, reads and alterations keep the invariant.
LEMMA StepKeepsProofInv == ASSUME ProofInv, [ProofNext]_proofVars PROVE ProofInv'
PROOF
  <1> USE DEF ProofInv
  <1>0. Len(log) \in Nat /\ counted \in 0 .. Len(log)
    BY DEF LogInv
  <1>1. ASSUME NEW x \in Figures, Commit(Plain(x)) PROVE ProofInv'
    <2>1. LogInv' /\ \A n \in 1 .. Len(log) : log'[n] = log[n]
      BY <1>1, CommitKeepsTheLog
    <2>2. UNCHANGED <<counted, window, alteration>>
      BY <1>1 DEF Commit
    <2>3. WindowInv'
      BY <2>1, <2>2, WindowSurvivesGrowth
    <2>4. AlterationInv'
      BY <2>2, AlterationOnlyAtAFetch
    <2>5. QED BY <2>1, <2>3, <2>4
  <1>2. CASE CountProofs
    <2>1. /\ UNCHANGED <<log, window, alteration>> /\ counted' = Len(log)
          /\ verifier' = IF log = << >> THEN "idle" ELSE "counted"
      BY <1>2 DEF CountProofs
    <2>2. log # << >> => Len(log) # 0
      BY DEF LogInv
    <2>3. LogInv'
      BY <2>1, <2>2, <1>0, LogOutlivesReads
    <2>4. WindowInv'
      BY <2>1, <1>0, WindowSurvivesACount
    <2>5. AlterationInv'
      BY <2>1, AlterationOnlyAtAFetch
    <2>6. QED BY <2>3, <2>4, <2>5
  <1>3. ASSUME NEW limit \in PageLimits, FetchWindow(limit) PROVE ProofInv'
    <2>1. /\ verifier = "counted" /\ UNCHANGED <<log, counted>> /\ verifier' = "fetched"
          /\ alteration' = Untouched /\ counted # 0
      BY <1>3 DEF FetchWindow, LogInv
    <2>2. PICK pick \in Answers(limit) : window' = Genuine(pick)
      BY <1>3 DEF FetchWindow
    <2>3. limit \in Int
      BY ProofChainAssumption
    <2>4. LogInv'
      BY <2>1, <1>0, LogOutlivesReads
    <2>5. WindowInv'
      BY <2>1, <2>2, <2>3, FetchLeavesAPage
    <2>6. AlterationInv'
      BY <2>1 DEF AlterationInv
    <2>7. QED BY <2>4, <2>5, <2>6
  <1>4. ASSUME NEW limit \in PageLimits, NEW p \in Parts, NEW x, NEW rehashed \in BOOLEAN,
               FetchAltered(limit, p, x, rehashed)
        PROVE  ProofInv'
    <2>1. /\ verifier = "counted" /\ UNCHANGED <<log, counted>> /\ verifier' = "fetched"
          /\ counted # 0
      BY <1>4 DEF FetchAltered, LogInv
    <2>2. PICK pick \in Answers(limit) : \E k \in DOMAIN pick :
             LET other == Altered(log[pick[k]], p, x) IN
             /\ other # log[pick[k]]
             /\ window' = [i \in DOMAIN pick |->
                              IF i # k THEN log[pick[i]]
                              ELSE IF rehashed THEN Hashed(other) ELSE other]
             /\ alteration' = [at |-> k, part |-> p, rehashed |-> rehashed,
                               original |-> log[pick[k]]]
      BY <1>4 DEF FetchAltered
    <2>3. PICK k \in DOMAIN pick :
             LET other == Altered(log[pick[k]], p, x) IN
             /\ other # log[pick[k]]
             /\ window' = [i \in DOMAIN pick |->
                              IF i # k THEN log[pick[i]]
                              ELSE IF rehashed THEN Hashed(other) ELSE other]
             /\ alteration' = [at |-> k, part |-> p, rehashed |-> rehashed,
                               original |-> log[pick[k]]]
      BY <2>2
    <2> DEFINE other == Altered(log[pick[k]], p, x)
               answered  == IF rehashed THEN Hashed(other) ELSE other
    <2>4. /\ window' = [i \in DOMAIN pick |-> IF i # k THEN log[pick[i]] ELSE answered]
          /\ window'[k] = answered
      BY <2>3
    <2>5. limit \in Int
      BY ProofChainAssumption
    <2>6. LogInv'
      BY <2>1, <1>0, LogOutlivesReads
    <2>7. WindowInv'
      <3>1. alteration' = [at |-> k, part |-> p, rehashed |-> rehashed,
                          original |-> log[pick[k]]]
        BY <2>3
      <3> HIDE DEF answered
      <3>2. \E j \in DOMAIN pick : \E r, q, b :
               /\ window' = [i \in DOMAIN pick |-> IF i # j THEN log[pick[i]] ELSE r]
               /\ alteration' = [at |-> j, part |-> q, rehashed |-> b,
                                 original |-> log[pick[j]]]
        BY <2>4, <3>1
      <3>3. QED BY <2>1, <2>5, <3>2, FetchLeavesAPage
    <2>8. AlterationInv'
      <3>1. alteration'.at = k /\ alteration'.part = p /\ alteration'.rehashed = rehashed
            /\ alteration'.original = log[pick[k]]
        BY <2>3
      <3>2. AlteredTo(x)'
        BY <2>3, <2>4, <3>1 DEF AlteredTo
      <3>3. QED BY <3>1, <3>2 DEF AlterationInv
    <2>9. QED BY <2>6, <2>7, <2>8
  <1>5. CASE FetchFails
    <2>1. UNCHANGED <<log, counted, window, alteration>> /\ verifier' = "idle"
      BY <1>5 DEF FetchFails
    <2>2. QED
      BY <2>1, <1>0, LogOutlivesReads, WindowSurvivesACount, AlterationOnlyAtAFetch
  <1>6. CASE EndVerify
    <2>1. /\ UNCHANGED log /\ counted' = 0 /\ window' = << >> /\ alteration' = Untouched
          /\ verifier' = "idle"
      BY <1>6 DEF EndVerify
    <2>2. LogInv'
      BY <2>1, <1>0, LogOutlivesReads
    <2>3. WindowInv'
      BY <2>1, EmptyPage
    <2>4. QED BY <2>1, <2>2, <2>3 DEF AlterationInv
  <1>7. CASE UNCHANGED proofVars
    <2>1. UNCHANGED <<log, counted, window, alteration, verifier>>
      BY <1>7 DEF proofVars
    <2>2. LogInv'
      BY <2>1, <1>0, LogOutlivesReads DEF LogInv
    <2>3. QED
      BY <2>1, <2>2, <1>0, WindowSurvivesACount, AlterationOnlyAtAFetch
  <1>8. QED
    BY <1>1, <1>2, <1>3, <1>4, <1>5, <1>6, <1>7 DEF ProofNext, Verify
-----------------------------------------------------------------------------
(* What the invariant says of a page.                                        *)

\* The client recomputes what the program stored.
LEMMA ClientDigestIsTheProgramsDigest ==
    ASSUME NEW r PROVE computeProofHash(r) = Digest(r)
PROOF
  <1>1. ProgramFields = HashedFields
    BY DEF ProgramFields, RecordFields, HashedFields
  <1>2. QED BY <1>1 DEF computeProofHash, Digest

\* Every record of the log passes the digest check.
LEMMA LogRecordsMatch ==
    ASSUME LogInv, NEW n \in 1 .. Len(log)
    PROVE  hashMatches(log[n])
PROOF
  BY ClientDigestIsTheProgramsDigest DEF LogInv, Chained, hashMatches

\* A page as the log has it is not flagged, whatever is missing from it.
LEMMA GenuinePagesPass == ASSUME ProofInv PROVE UntouchedNeverFlagged
PROOF
  <1> SUFFICES ASSUME alteration = Untouched, NEW j \in DOMAIN window
               PROVE  ~Flagged(window, j)
    BY DEF UntouchedNeverFlagged
  <1> PICK size \in 0 .. counted : \E pick \in [1 .. size -> 1 .. counted] : PageOf(size, pick)
    BY DEF ProofInv, WindowInv
  <1>1. PICK pick \in [1 .. size -> 1 .. counted] : PageOf(size, pick)
    OBVIOUS
  <1>2. \A i \in DOMAIN window : window[i] = log[pick[i]] /\ pick[i] \in 1 .. Len(log)
    BY <1>1 DEF PageOf, Untouched, ProofInv, LogInv
  <1>3. hashMatches(window[j])
    BY <1>2, LogRecordsMatch DEF ProofInv
  <1>4. ASSUME NEW i \in Predecessors(window, j)
        PROVE  window[i].thisHash = window[j].prevHash
    <2>1. i \in DOMAIN window /\ window[i].sequence + 1 = window[j].sequence
      BY <1>4 DEF Predecessors
    <2>2. Chained(pick[i]) /\ Chained(pick[j]) /\ pick[i] \in Int /\ pick[j] \in Int
      BY <1>2, <2>1 DEF ProofInv, LogInv
    <2>3. pick[j] > 1 /\ pick[j] - 1 = pick[i]
      <3>1. window[i].sequence = pick[i] - 1 /\ window[j].sequence = pick[j] - 1
        BY <1>2, <2>1, <2>2 DEF Chained
      <3>2. (pick[i] - 1) + 1 = pick[j] - 1
        BY <2>1, <3>1
      <3>3. pick[i] >= 1
        BY <1>2, <2>1 DEF ProofInv, LogInv
      <3>4. pick[j] - 1 = pick[i]
        BY <2>2, <3>2
      <3>5. pick[j] > 1
        BY <2>2, <3>3, <3>4
      <3>6. QED BY <3>4, <3>5
    <2>4. QED BY <1>2, <2>1, <2>2, <2>3 DEF Chained
  <1>5. linksToPrevious(window, j) # "no"
    BY <1>4 DEF linksToPrevious
  <1>6. QED BY <1>3, <1>5 DEF Flagged

\* An altered record is a record, with its sequence unless that was altered.
LEMMA AlteredParts ==
    ASSUME NEW r, IsRecord(r), NEW p \in Parts, NEW x
    PROVE  /\ IsRecord(Altered(r, p, x))
           /\ p # "sequence" => Altered(r, p, x).sequence = r.sequence
           /\ p \in RecordFields =>
                /\ Altered(r, p, x).prevHash = r.prevHash
                /\ Altered(r, p, x).thisHash = r.thisHash
                /\ Altered(r, p, x).figures =
                      [f \in RecordFields |-> IF f = p THEN x ELSE r.figures[f]]
PROOF
  <1>1. CASE p = "sequence"
    BY <1>1 DEF Altered, IsRecord, RecordFields, HashedFields
  <1>2. CASE p = "prevHash"
    BY <1>2 DEF Altered, IsRecord, RecordFields, HashedFields
  <1>3. CASE p = "thisHash"
    BY <1>3 DEF Altered, IsRecord, RecordFields, HashedFields
  <1>4. CASE p \in RecordFields
    <2>1. p # "sequence" /\ p # "prevHash" /\ p # "thisHash"
      BY <1>4 DEF RecordFields, HashedFields
    <2>2. Altered(r, p, x) = [r EXCEPT !.figures =
                     [f \in RecordFields |-> IF f = p THEN x ELSE r.figures[f]]]
      BY <2>1 DEF Altered
    <2>3. QED BY <2>1, <2>2 DEF IsRecord
  <1>5. QED BY <1>1, <1>2, <1>3, <1>4 DEF Parts

\* An alteration of another part leaves the sequence.
LEMMA AlteredKeepsSequence ==
    ASSUME NEW r, IsRecord(r), NEW p \in Parts, p # "sequence", NEW x
    PROVE  IsRecord(Altered(r, p, x)) /\ Altered(r, p, x).sequence = r.sequence
PROOF
  BY AlteredParts, ZenonT(60)

\* An alteration the digest covers changes the digest, or the stored digest.
LEMMA AlterationShows ==
    ASSUME NEW r, IsRecord(r),
           NEW p \in Parts \ {"timestamp", "oraclePostedSlot"}, NEW x,
           Altered(r, p, x) # r
    PROVE  /\ p # "thisHash" => Digest(Altered(r, p, x)) # Digest(r)
                                /\ Altered(r, p, x).thisHash = r.thisHash
           /\ p = "thisHash" => Digest(Altered(r, p, x)) = Digest(r)
                                /\ Altered(r, p, x).thisHash # r.thisHash
PROOF
  <1> DEFINE other == Altered(r, p, x)
  <1>0. p \in Parts
    OBVIOUS
  <1>1. CASE p \in {"sequence", "prevHash", "thisHash"}
    <2> HIDE DEF other
    <2>1. IsRecord(other) /\ other # r
      BY AlteredParts DEF other
    <2>2. /\ p = "sequence" => other.sequence = x /\ other.figures = r.figures
                /\ other.prevHash = r.prevHash /\ other.thisHash = r.thisHash
          /\ p = "prevHash" => other.sequence = r.sequence /\ other.figures = r.figures
                /\ other.prevHash = x /\ other.thisHash = r.thisHash
          /\ p = "thisHash" => other.sequence = r.sequence /\ other.figures = r.figures
                /\ other.prevHash = r.prevHash /\ other.thisHash = x
      <3>1. CASE p = "sequence"
        BY <3>1 DEF other, Altered, IsRecord
      <3>2. CASE p = "prevHash"
        BY <3>2 DEF other, Altered, IsRecord
      <3>3. CASE p = "thisHash"
        BY <3>3 DEF other, Altered, IsRecord
      <3>4. QED BY <1>1, <3>1, <3>2, <3>3
    <2>3. /\ p = "sequence" => other.sequence # r.sequence
          /\ p = "prevHash" => other.prevHash # r.prevHash
          /\ p = "thisHash" => other.thisHash # r.thisHash
      BY <2>1, <2>2 DEF IsRecord
    <2>4. /\ p # "thisHash" => Digest(other) # Digest(r) /\ other.thisHash = r.thisHash
          /\ p = "thisHash" => Digest(other) = Digest(r) /\ other.thisHash # r.thisHash
      BY <1>1, <2>2, <2>3 DEF Digest
    <2>5. QED BY <2>4 DEF other
  <1>2. CASE p \in ProgramFields
    <2>1. p \in RecordFields /\ p # "thisHash"
      BY <1>2 DEF ProgramFields, RecordFields, HashedFields
    <2> HIDE DEF other
    <2>2. /\ other.sequence = r.sequence /\ IsRecord(other) /\ other # r
          /\ other.prevHash = r.prevHash /\ other.thisHash = r.thisHash
          /\ other.figures = [f \in RecordFields |-> IF f = p THEN x ELSE r.figures[f]]
      <3>1. p # "sequence"
        BY <2>1 DEF RecordFields, HashedFields
      <3>2. QED BY <2>1, <3>1, <1>0, AlteredParts DEF other
    <2>3. x # r.figures[p]
      <3>1. SUFFICES ASSUME x = r.figures[p] PROVE other.figures = r.figures
        BY <2>2 DEF IsRecord
      <3>2. QED BY <2>2, <3>1 DEF IsRecord
    <2>4. other.figures[p] = x
      BY <2>1, <2>2
    <2>5. [f \in ProgramFields |-> other.figures[f]] # [f \in ProgramFields |-> r.figures[f]]
      BY <1>2, <2>3, <2>4
    <2>6. Digest(other) # Digest(r)
      BY <2>5 DEF Digest
    <2>7. QED BY <2>1, <2>2, <2>6 DEF other
  <1>3. QED BY <1>1, <1>2 DEF Parts, ProgramFields
\* The record that was altered is one of the log, as the program stored it.
LEMMA OriginalIsOfTheLog ==
    ASSUME ProofInv, alteration # Untouched
    PROVE  /\ IsRecord(alteration.original)
           /\ alteration.original.thisHash = Digest(alteration.original)
           /\ alteration.at \in DOMAIN window
PROOF
  <1> PICK size \in 0 .. counted : \E pick \in [1 .. size -> 1 .. counted] : PageOf(size, pick)
    BY DEF ProofInv, WindowInv
  <1>1. PICK pick \in [1 .. size -> 1 .. counted] : PageOf(size, pick)
    OBVIOUS
  <1>2. /\ alteration.at \in 1 .. size /\ alteration.original = log[pick[alteration.at]]
        /\ DOMAIN window = 1 .. size
    BY <1>1 DEF PageOf
  <1>3. pick[alteration.at] \in 1 .. Len(log)
    BY <1>2 DEF ProofInv, LogInv
  <1>4. QED BY <1>2, <1>3 DEF ProofInv, LogInv, Chained

\* An alteration that keeps the digest fails the digest check.
LEMMA AlteredPagesFail == ASSUME ProofInv PROVE AlterationIsFlagged
PROOF
  <1> SUFFICES ASSUME alteration # Untouched, ~alteration.rehashed,
                      alteration.part \notin {"timestamp", "oraclePostedSlot"}
               PROVE  ~hashMatches(window[alteration.at])
    BY DEF AlterationIsFlagged
  <1>1. alteration.part \in Parts \ {"timestamp", "oraclePostedSlot"}
    BY DEF ProofInv, AlterationInv
  <1>2. PICK x : AlteredTo(x)
    BY DEF ProofInv, AlterationInv
  <1> DEFINE r     == alteration.original
             other == Altered(r, alteration.part, x)
  <1>3. window[alteration.at] = other /\ other # r
    BY <1>2 DEF AlteredTo
  <1>4. IsRecord(r) /\ r.thisHash = Digest(r)
    BY OriginalIsOfTheLog
  <1>5. /\ alteration.part # "thisHash" => Digest(other) # Digest(r) /\ other.thisHash = r.thisHash
        /\ alteration.part = "thisHash" => Digest(other) = Digest(r) /\ other.thisHash # r.thisHash
    BY <1>1, <1>3, <1>4, AlterationShows
  <1> HIDE DEF other, r
  <1>6. Digest(other) # other.thisHash
    BY <1>4, <1>5
  <1>7. QED BY <1>3, <1>6, ClientDigestIsTheProgramsDigest DEF hashMatches

\* One that recomputes it no longer links to the record that follows.
LEMMA RehashedPagesBreak == ASSUME ProofInv PROVE RehashedBreaksTheLink
PROOF
  <1> SUFFICES ASSUME alteration # Untouched, alteration.rehashed,
                      alteration.part \in HashedFields \cup {"prevHash"},
                      NEW j \in DOMAIN window,
                      window[j].sequence = alteration.original.sequence + 1
               PROVE  linksToPrevious(window, j) = "no"
    BY DEF RehashedBreaksTheLink
  <1> PICK size \in 0 .. counted : \E pick \in [1 .. size -> 1 .. counted] : PageOf(size, pick)
    BY DEF ProofInv, WindowInv
  <1>1. PICK pick \in [1 .. size -> 1 .. counted] : PageOf(size, pick)
    OBVIOUS
  <1>2. PICK x : AlteredTo(x)
    BY DEF ProofInv, AlterationInv
  <1> DEFINE at    == alteration.at
             p     == alteration.part
             r     == alteration.original
             other == Altered(r, p, x)
  <1>3. /\ p \in Parts \ {"timestamp", "oraclePostedSlot"} /\ p # "sequence" /\ p # "thisHash"
        /\ p = "prevHash" \/ p \in RecordFields
    BY DEF HashedFields, RecordFields, Parts
  <1>4. IsRecord(r) /\ r.thisHash = Digest(r) /\ at \in DOMAIN window
    BY OriginalIsOfTheLog
  <1>5. window[at] = Hashed(other) /\ other # r
    BY <1>2 DEF AlteredTo
  <1>6. Digest(other) # Digest(r)
    BY <1>3, <1>4, <1>5, AlterationShows
  <1>7. IsRecord(other) /\ other.sequence = r.sequence
    <2>1. p \in Parts /\ p # "sequence" /\ IsRecord(r)
      BY <1>3, <1>4
    <2> HIDE DEF p, r
    <2>2. IsRecord(Altered(r, p, x)) /\ Altered(r, p, x).sequence = r.sequence
      BY <2>1, AlteredKeepsSequence
    <2>3. QED BY <2>2
  <1> HIDE DEF other
  <1>8. window[at].sequence = r.sequence /\ window[at].thisHash = Digest(other)
    BY <1>5, <1>7 DEF Hashed, IsRecord
  \* Positions and sequence numbers run against each other.
  <1>9. /\ DOMAIN window = 1 .. size /\ size \in Nat
        /\ \A i \in 1 .. size : pick[i] \in 1 .. Len(log) /\ pick[i] \in Nat
                               /\ window[i].sequence = pick[i] - 1
        /\ r = log[pick[at]]
    <2>1. /\ DOMAIN window = 1 .. size /\ size \in Nat /\ r = log[pick[at]]
          /\ \A i \in 1 .. size : pick[i] \in 1 .. Len(log) /\ pick[i] \in Nat
      BY <1>1, SMTT(30) DEF PageOf, ProofInv, LogInv
    <2>2. ASSUME NEW i \in 1 .. size PROVE window[i].sequence = pick[i] - 1
      <3>1. log[pick[i]].sequence = pick[i] - 1
        BY <2>1 DEF ProofInv, LogInv, Chained
      <3>2. CASE i = at
        BY <2>1, <3>1, <3>2, <1>8
      <3>3. CASE i # at
        BY <3>1, <3>3, <1>1 DEF PageOf
      <3>4. QED BY <3>2, <3>3
    <2>3. QED BY <2>1, <2>2
  <1>10. j # at /\ pick[j] = pick[at] + 1
    <2>1. j \in 1 .. size /\ at \in 1 .. size
      BY <1>4, <1>9
    <2>2. window[j].sequence = pick[j] - 1 /\ window[at].sequence = pick[at] - 1
          /\ pick[j] \in Nat /\ pick[at] \in Nat
      BY <1>9, <2>1
    <2>3. window[j].sequence = window[at].sequence + 1
      BY <1>8
    <2>4. pick[j] - 1 = (pick[at] - 1) + 1
      BY <2>2, <2>3
    <2>5. pick[j] = pick[at] + 1
      <3>1. \A a, b \in Nat : a - 1 = (b - 1) + 1 => a = b + 1
        OBVIOUS
      <3>2. pick[j] \in Nat /\ pick[at] \in Nat
        BY <2>2
      <3>3. QED BY <3>1, <3>2, <2>4, Zenon
    <2>6. j # at
      BY <2>2, <2>5
    <2>7. QED BY <2>5, <2>6
  <1>11. window[j].prevHash = r.thisHash
    <2>1. window[j] = log[pick[j]]
      BY <1>1, <1>9, <1>10 DEF PageOf
    <2>2. Chained(pick[j]) /\ pick[j] > 1 /\ pick[j] - 1 = pick[at]
      <3>1. j \in 1 .. size /\ at \in 1 .. size
        BY <1>4, <1>9
      <3>2. pick[j] \in 1 .. Len(log) /\ pick[at] \in 1 .. Len(log) /\ Len(log) \in Nat
        BY <1>9, <3>1 DEF ProofInv, LogInv
      <3>3. Chained(pick[j])
        BY <3>2 DEF ProofInv, LogInv
      <3>4. pick[j] - 1 = pick[at] /\ pick[at] >= 1
        BY <1>10, <3>2
      <3>5. pick[j] > 1
        BY <1>10, <3>2
      <3>6. QED BY <3>3, <3>4, <3>5
    <2>3. QED BY <1>9, <2>1, <2>2 DEF Chained
  <1>12. Predecessors(window, j) = {at}
    <2>1. ASSUME NEW i \in 1 .. size, NEW k \in 1 .. size, i < k
          PROVE  window[i].sequence > window[k].sequence
      <3>1. pick[i] > pick[k] /\ pick[i] \in Nat /\ pick[k] \in Nat
        BY <1>1, <1>9, <2>1 DEF PageOf
      <3>2. window[i].sequence = pick[i] - 1 /\ window[k].sequence = pick[k] - 1
        BY <1>9
      <3>3. QED BY <3>1, <3>2
    <2>2. ASSUME NEW i \in 1 .. size PROVE i \in Int /\ window[i].sequence \in Int
      <3>1. window[i].sequence = pick[i] - 1 /\ pick[i] \in Nat
        BY <1>9
      <3>2. QED BY <1>9, <3>1
    <2>3. ASSUME NEW i \in 1 .. size, NEW k \in 1 .. size,
                 window[i].sequence = window[k].sequence
          PROVE  i = k
      <3>1. ~(window[i].sequence > window[k].sequence) /\ ~(window[k].sequence > window[i].sequence)
        BY <2>2, <2>3
      <3>2. ~(i < k) /\ ~(k < i)
        BY <2>1, <3>1
      <3>3. QED BY <2>2, <3>2
    <2>4. /\ j \in 1 .. size /\ at \in 1 .. size /\ DOMAIN window = 1 .. size
          /\ window[j].sequence = window[at].sequence + 1
      BY <1>4, <1>8, <1>9
    <2>5. window[at].sequence < window[j].sequence
      BY <2>2, <2>4
    <2>6. SortedBefore(window, at, j)
      BY <2>5 DEF SortedBefore
    <2>7. ASSUME NEW k \in 1 .. size, SortedBefore(window, at, k), SortedBefore(window, k, j)
          PROVE  FALSE
      <3>1. window[k].sequence = window[at].sequence \/ window[k].sequence = window[j].sequence
        <4>1. /\ window[at].sequence \in Int /\ window[k].sequence \in Int
              /\ window[j].sequence \in Int
          BY <2>2, <2>4
        <4>2. window[at].sequence <= window[k].sequence /\ window[k].sequence <= window[j].sequence
          BY <2>7, <4>1 DEF SortedBefore
        <4>3. window[j].sequence = window[at].sequence + 1
          BY <2>4
        <4>. DEFINE f == window[at].sequence
                    g == window[k].sequence
                    h == window[j].sequence
        <4>4. f \in Int /\ g \in Int /\ h \in Int /\ f <= g /\ g <= h /\ h = f + 1
          BY <4>1, <4>2, <4>3
        <4>. HIDE DEF f, g, h
        <4>5. g = f \/ g = h
          BY <4>4
        <4>6. QED BY <4>5 DEF f, g, h
      <3>2. k = at \/ k = j
        BY <2>4, <2>3, <3>1
      <3>3. QED BY <2>2, <2>4, <2>7, <3>2 DEF SortedBefore
    <2>8. ASSUME NEW i \in Predecessors(window, j) PROVE i = at
      <3>1. i \in 1 .. size /\ window[i].sequence + 1 = window[j].sequence
        BY <2>4, <2>8 DEF Predecessors
      <3>2. window[i].sequence \in Int /\ window[at].sequence \in Int
        BY <2>2, <2>4, <3>1
      <3>3. window[at].sequence + 1 = window[i].sequence + 1
        BY <2>4, <3>1
      <3>4. window[i].sequence = window[at].sequence
        BY <3>2, <3>3
      <3>5. QED BY <2>4, <2>3, <3>1, <3>4
    <2>9. at \in Predecessors(window, j)
      BY <2>4, <2>6, <2>7 DEF Predecessors, IsPrevious
    <2>10. QED BY <2>8, <2>9
  <1>13. QED BY <1>4, <1>6, <1>8, <1>11, <1>12 DEF linksToPrevious

-----------------------------------------------------------------------------
(* The theorems.                                                             *)

LEMMA ProofInvAlways == ProofSpec => []ProofInv
PROOF
  BY InitEstablishesProofInv, StepKeepsProofInv, PTL DEF ProofSpec

\* A page is at most the counted accounts, and names of a corruption make sense.
THEOREM ProofTypes == ProofSpec => []ProofTypeOK
PROOF
  <1>1. ProofInv => ProofTypeOK
    <2> SUFFICES ASSUME ProofInv PROVE ProofTypeOK
      OBVIOUS
    <2>1. Len(window) <= counted
      <3> PICK size \in 0 .. counted :
                 \E pick \in [1 .. size -> 1 .. counted] : PageOf(size, pick)
        BY DEF ProofInv, WindowInv
      <3>1. PICK pick \in [1 .. size -> 1 .. counted] : PageOf(size, pick)
        OBVIOUS
      <3>2. QED BY <3>1 DEF PageOf, ProofInv, LogInv
    <2>2. alteration # Untouched =>
             alteration.at \in DOMAIN window /\ alteration.part \in Parts
      BY OriginalIsOfTheLog DEF ProofInv, AlterationInv
    <2>3. QED BY <2>1, <2>2 DEF ProofTypeOK, ProofInv, LogInv
  <1>2. QED BY <1>1, ProofInvAlways, PTL

\* verifyProofChain never calls a page broken that came back as stored, however
\* many accounts are missing and however long the chain is.
THEOREM UntouchedPagesPass == ProofSpec => []UntouchedNeverFlagged
PROOF
  BY GenuinePagesPass, ProofInvAlways, PTL

\* Whatever field the digest covers comes back different, the digest shows it.
THEOREM AlterationsShow == ProofSpec => []AlterationIsFlagged
PROOF
  BY AlteredPagesFail, ProofInvAlways, PTL

\* An altered record with a recomputed digest is given away by its successor.
THEOREM RehashedRecordsUnlink == ProofSpec => []RehashedBreaksTheLink
PROOF
  BY RehashedPagesBreak, ProofInvAlways, PTL

-----------------------------------------------------------------------------
(* The status page.                                                         *)

Points == {"api", "metrics", "config", "delta", "done", "thrown"}
Notes  == {"api", "chain", "delta", "paused"}

\* What getStats may hold at the point where it stands.
StatsOK(s, from) ==
    /\ s \in [at : Points, heard : SUBSET Metrics, notes : SUBSET Notes,
              config : Books \cup {Unread}, attested : -1 .. MaxSettled]
    /\ s.at \in {"api", "metrics"} => s.heard = {}
    /\ s.at \in {"api", "metrics", "config"} => s.config = Unread
    /\ s.at = "delta" => s.config # Unread
    /\ s.attested # -1 => s.attested = s.config.count
    /\ (s.at = "done" /\ from # "api" /\ (s.config = Unread \/ "delta" \notin s.heard))
          => s.notes \cap {"chain", "delta"} # {}

StatusInv ==
    /\ book \in Books /\ asked \in StatusSources
    /\ StatsOK(stats, asked)
    /\ probe.config \in Books \cup {Unread}
    /\ probe.at = "config" => probe.config = Unread

-----------------------------------------------------------------------------
(* What each await of getStats leaves.                                      *)

\* A call that has not started.
LEMMA NothingHeard ==
    ASSUME NEW from
    PROVE  StatsOK(NotStarted, from)
<1>1. -1 \in -1 .. MaxSettled
  BY StatusAssumption
<1>2. QED
  BY <1>1 DEF StatsOK, NotStarted, Points

\* A config that was read is not the unread one.
LEMMA BooksAreRead ==
    ASSUME NEW b \in Books
    PROVE  b # Unread /\ b.count \in 0 .. MaxSettled /\ b.count # -1
BY StatusAssumption DEF Books, Unread

\* The steps that only move on, note a gap, or keep what the metrics answered.
LEMMA MovesOn ==
    ASSUME NEW s, NEW from, StatsOK(s, from), s.at \in {"api", "metrics", "config", "delta"},
           NEW heard \in SUBSET Metrics, s.heard \subseteq heard,
           NEW notes \in SUBSET Notes, s.notes \subseteq notes,
           NEW next \in Points,
           next \in {"api", "metrics"} => heard = {},
           next \in {"api", "metrics", "config"} => s.at \in {"api", "metrics", "config"},
           next # "delta",
           next = "done" => from = "api" \/ "chain" \in notes
    PROVE  StatsOK([s EXCEPT !.at = next, !.notes = notes, !.heard = heard], from)
<1> DEFINE t == [s EXCEPT !.at = next, !.notes = notes, !.heard = heard]
<1>1. t \in [at : Points, heard : SUBSET Metrics, notes : SUBSET Notes,
             config : Books \cup {Unread}, attested : -1 .. MaxSettled]
  BY DEF StatsOK
<1>2. /\ t.at = next /\ t.notes = notes /\ t.heard = heard
      /\ t.config = s.config /\ t.attested = s.attested
  BY DEF StatsOK
<1> HIDE DEF t
<1>3. t.at \in {"api", "metrics", "config"} => t.config = Unread
  BY <1>2 DEF StatsOK
<1>4. t.attested # -1 => t.attested = t.config.count
  BY <1>2 DEF StatsOK
<1>5. t.at = "done" /\ from # "api" => t.notes \cap {"chain", "delta"} # {}
  BY <1>2
<1>6. t.at \in {"api", "metrics"} => t.heard = {}
  BY <1>2
<1>7. QED
  BY <1>1, <1>2, <1>3, <1>4, <1>5, <1>6 DEF StatsOK

\* With a config read and a delta, or a note on its absence, the call may end.
LEMMA MayEnd ==
    ASSUME NEW s, NEW from, NEW b \in Books,
           s \in [at : Points, heard : SUBSET Metrics, notes : SUBSET Notes,
                  config : Books \cup {Unread}, attested : -1 .. MaxSettled],
           s.config = b, s.attested # -1 => s.attested = b.count,
           "delta" \in s.heard \cup s.notes
    PROVE  StatsOK(Noted(s), from)
<1> DEFINE more == IF s.config.paused THEN {"paused"} ELSE {}
           t == [s EXCEPT !.at = "done", !.notes = @ \cup more]
<1>1. Noted(s) = t
  BY DEF Noted
<1>2. more \subseteq Notes
  BY DEF Notes
<1> HIDE DEF more
<1>3. t \in [at : Points, heard : SUBSET Metrics, notes : SUBSET Notes,
             config : Books \cup {Unread}, attested : -1 .. MaxSettled]
  BY <1>2 DEF Points
<1>4. /\ t.at = "done" /\ t.config = b /\ t.heard = s.heard
      /\ t.attested = s.attested /\ s.notes \subseteq t.notes
  BY <1>2
<1> HIDE DEF t
<1>5. t.config # Unread
  BY <1>4, BooksAreRead
<1>6. "delta" \notin t.heard => t.notes \cap {"chain", "delta"} # {}
  BY <1>4
<1>7. t.attested # -1 => t.attested = t.config.count
  BY <1>4
<1>8. QED
  BY <1>1, <1>3, <1>4, <1>5, <1>6, <1>7 DEF StatsOK

-----------------------------------------------------------------------------
(* The invariant.                                                           *)

\* MovesOn in the words the actions use.
LEMMA MovesOnQuietly ==
    ASSUME NEW s, NEW from, StatsOK(s, from), s.at \in {"api", "metrics", "config", "delta"},
           NEW next \in Points,
           next \in {"api", "metrics"} => s.at \in {"api", "metrics"},
           next \in {"api", "metrics", "config"} => s.at \in {"api", "metrics", "config"},
           next # "delta", next = "done" => from = "api"
    PROVE  StatsOK([s EXCEPT !.at = next], from)
<1>1. /\ s.heard \in SUBSET Metrics /\ s.notes \in SUBSET Notes
      /\ next \in {"api", "metrics"} => s.heard = {}
  BY DEF StatsOK
<1>2. StatsOK([s EXCEPT !.at = next, !.notes = s.notes, !.heard = s.heard], from)
  BY <1>1, MovesOn
<1>3. [s EXCEPT !.at = next, !.notes = s.notes, !.heard = s.heard] = [s EXCEPT !.at = next]
  BY DEF StatsOK
<1>4. QED
  BY <1>2, <1>3

\* The same with a note of what is missing.
LEMMA MovesOnWithNote ==
    ASSUME NEW s, NEW from, StatsOK(s, from), s.at \in {"api", "metrics", "config", "delta"},
           NEW next \in Points, NEW note \in Notes,
           next \in {"api", "metrics"} => s.at \in {"api", "metrics"},
           next \in {"api", "metrics", "config"} => s.at \in {"api", "metrics", "config"},
           next # "delta", next = "done" => from = "api" \/ note = "chain"
    PROVE  StatsOK([s EXCEPT !.at = next, !.notes = @ \cup {note}], from)
<1> DEFINE notes == s.notes \cup {note}
<1>1. /\ s.heard \in SUBSET Metrics /\ notes \in SUBSET Notes
      /\ next \in {"api", "metrics"} => s.heard = {}
  BY DEF StatsOK
<1>2. s.notes \subseteq notes /\ note \in notes
  OBVIOUS
<1> HIDE DEF notes
<1>3. StatsOK([s EXCEPT !.at = next, !.notes = notes, !.heard = s.heard], from)
  BY <1>1, <1>2, MovesOn
<1>4. [s EXCEPT !.at = next, !.notes = notes, !.heard = s.heard]
        = [s EXCEPT !.at = next, !.notes = notes]
  BY DEF StatsOK
<1>5. QED
  BY <1>3, <1>4 DEF notes

\* getStats, await by await.
LEMMA StatsKeeps ==
    ASSUME StatusInv, StatsAsksApi \/ StatsAsksMetrics \/ StatsReadsConfig \/ StatsReadsProof
    PROVE  StatsOK(stats', asked)
<1>1. /\ StatsOK(stats, asked) /\ book \in Books
      /\ stats \in [at : Points, heard : SUBSET Metrics, notes : SUBSET Notes,
                     config : Books \cup {Unread}, attested : -1 .. MaxSettled]
  BY DEF StatusInv, StatsOK
<1>2. /\ AfterApi \in Points /\ AfterApi \in {"config", "done"}
      /\ AfterApi = "done" => asked = "api"
      /\ {"metrics", "thrown", "done"} \subseteq Points
      /\ {"api", "chain"} \subseteq Notes
  BY DEF AfterApi, Points, Notes
<1>3. CASE StatsAsksApi
  <2>1. stats.at = "api"
    BY <1>3 DEF StatsAsksApi
  <2>2. StatsOK([stats EXCEPT !.at = AfterApi], asked)
    BY <1>1, <1>2, <2>1, MovesOnQuietly
  <2>3. StatsOK([stats EXCEPT !.at = "metrics"], asked)
    BY <1>1, <1>2, <2>1, MovesOnQuietly
  <2>4. StatsOK([stats EXCEPT !.at = AfterApi, !.notes = @ \cup {"api"}], asked)
    BY <1>1, <1>2, <2>1, MovesOnWithNote
  <2>5. QED
    BY <1>3, <2>2, <2>3, <2>4 DEF StatsAsksApi
<1>4. CASE StatsAsksMetrics
  <2>1. PICK heard \in SUBSET Metrics :
           stats' = [stats EXCEPT !.at = AfterApi, !.heard = heard]
    BY <1>4 DEF StatsAsksMetrics
  <2>2. stats.at = "metrics"
    BY <1>4 DEF StatsAsksMetrics
  <2> DEFINE t == [stats EXCEPT !.at = AfterApi, !.heard = heard]
  <2>3. t \in [at : Points, heard : SUBSET Metrics, notes : SUBSET Notes,
               config : Books \cup {Unread}, attested : -1 .. MaxSettled]
    BY <1>1, <1>2
  <2>4. t.at = AfterApi /\ t.config = stats.config /\ t.attested = stats.attested
    BY <1>1
  <2>5. stats.config = Unread /\ (stats.attested # -1 => stats.attested = stats.config.count)
    BY <1>1, <2>2 DEF StatsOK
  <2> HIDE DEF t
  <2>6. StatsOK(t, asked)
    BY <1>2, <2>3, <2>4, <2>5 DEF StatsOK
  <2>7. QED
    BY <2>1, <2>6 DEF t
<1>5. ASSUME stats.at \in {"config", "delta"}
      PROVE  /\ StatsOK(ChainNotRead(stats), asked)
             /\ PageRejected => StatsOK(stats', asked)
  <2>1. StatsOK([stats EXCEPT !.at = "done", !.notes = @ \cup {"chain"}], asked)
    BY <1>1, <1>2, <1>5, MovesOnWithNote
  <2>2. StatsOK([NotStarted EXCEPT !.at = "thrown"], asked)
    <3>1. StatsOK(NotStarted, asked) /\ NotStarted.at = "api"
      BY NothingHeard DEF NotStarted
    <3>2. QED
      BY <1>2, <3>1, MovesOnQuietly
  <2>3. QED
    BY <2>1, <2>2 DEF ChainNotRead, PageRejected
<1>6. CASE StatsReadsConfig
  <2> DEFINE s == [stats EXCEPT !.config = book]
             t == [s EXCEPT !.at = "delta"]
  <2>1. stats.at = "config" /\ stats.config = Unread
    BY <1>1, <1>6 DEF StatsReadsConfig, StatsOK
  <2>2. stats.attested = -1
    <3>1. stats.attested # -1 => stats.attested = -1
      BY <1>1, <2>1 DEF StatsOK, Unread
    <3>2. QED
      BY <3>1
  <2>3. s \in [at : Points, heard : SUBSET Metrics, notes : SUBSET Notes,
               config : Books \cup {Unread}, attested : -1 .. MaxSettled]
    BY <1>1
  <2>4. s.config = book /\ s.attested = -1 /\ s.heard = stats.heard
    BY <1>1, <2>2
  <2> HIDE DEF s
  <2>5. "delta" \in s.heard => StatsOK(Noted(s), asked)
    BY <1>1, <2>3, <2>4, MayEnd
  <2>6. StatsOK(t, asked)
    <3>1. t \in [at : Points, heard : SUBSET Metrics, notes : SUBSET Notes,
                 config : Books \cup {Unread}, attested : -1 .. MaxSettled]
      BY <2>3 DEF Points
    <3>2. t.at = "delta" /\ t.config = book /\ t.attested = -1
      BY <2>3, <2>4
    <3> HIDE DEF t
    <3>3. QED
      BY <1>1, <3>1, <3>2, BooksAreRead DEF StatsOK
  <2>7. QED
    BY <1>5, <1>6, <2>1, <2>5, <2>6 DEF StatsReadsConfig, ConfigRead, s
<1>7. CASE StatsReadsProof
  <2>1. stats.at = "delta" /\ stats.config \in Books
    BY <1>1, <1>7 DEF StatsReadsProof, StatsOK
  <2>2. stats.config.count \in 0 .. MaxSettled /\ stats.config.count # -1
    BY <2>1, BooksAreRead
  <2>3. ASSUME NEW count \in {0, stats.config.count}
        PROVE  StatsOK(Noted(WithProof(stats, count)), asked)
    <3> DEFINE none == [stats EXCEPT !.notes = @ \cup {"delta"}]
               some == [stats EXCEPT !.attested = count, !.heard = @ \cup {"delta"}]
    <3>1. CASE count = 0
      <4>1. none \in [at : Points, heard : SUBSET Metrics, notes : SUBSET Notes,
                      config : Books \cup {Unread}, attested : -1 .. MaxSettled]
        BY <1>1 DEF Notes
      <4>2. none.config = stats.config /\ none.attested = stats.attested /\ "delta" \in none.notes
        BY <1>1
      <4>3. none.attested # -1 => none.attested = stats.config.count
        BY <1>1, <4>2 DEF StatsOK
      <4> HIDE DEF none
      <4>4. StatsOK(Noted(none), asked)
        BY <2>1, <4>1, <4>2, <4>3, MayEnd
      <4>5. QED
        BY <3>1, <4>4 DEF WithProof, none
    <3>2. CASE count # 0
      <4>1. count = stats.config.count
        BY <2>3, <3>2
      <4>2. count \in -1 .. MaxSettled
        BY <2>2, <4>1
      <4>3. some \in [at : Points, heard : SUBSET Metrics, notes : SUBSET Notes,
                      config : Books \cup {Unread}, attested : -1 .. MaxSettled]
        BY <1>1, <4>2 DEF Metrics
      <4>4. some.config = stats.config /\ some.attested = count /\ "delta" \in some.heard
        BY <1>1
      <4> HIDE DEF some
      <4>5. StatsOK(Noted(some), asked)
        BY <2>1, <4>1, <4>3, <4>4, MayEnd
      <4>6. QED
        BY <3>2, <4>5 DEF WithProof, some
    <3>3. QED
      BY <3>1, <3>2
  <2>4. QED
    BY <1>5, <1>7, <2>1, <2>3 DEF StatsReadsProof
<1>8. QED
  BY <1>3, <1>4, <1>6, <1>7

\* The invariant holds in every state of a page.
LEMMA StatusInvHolds == StatusSpec => []StatusInv
<1>1. StatusInit => StatusInv
  BY NothingHeard DEF StatusInit, StatusInv, NotProbed
<1>2. ASSUME StatusInv, [StatusNext]_statusVars
      PROVE  StatusInv'
  <2>1. CASE Settle
    <3>1. /\ book.count + 1 \in 0 .. MaxSettled
          /\ book' = [book EXCEPT !.count = book.count + 1]
      BY <1>2, <2>1, StatusAssumption DEF StatusInv, Settle, Books
    <3>2. book' \in Books
      BY <1>2, <3>1 DEF StatusInv, Books
    <3>3. QED
      BY <1>2, <2>1, <3>2 DEF StatusInv, Settle
  <2>2. CASE TogglePause
    <3>1. book' \in Books
      BY <1>2, <2>2 DEF StatusInv, TogglePause, Books
    <3>2. QED
      BY <1>2, <2>2, <3>1 DEF StatusInv, TogglePause
  <2>3. CASE StatsAsksApi \/ StatsAsksMetrics \/ StatsReadsConfig \/ StatsReadsProof
    <3>1. StatsOK(stats', asked)
      BY <1>2, <2>3, StatsKeeps
    <3>2. UNCHANGED <<book, asked>> /\ (UNCHANGED probe \/ PageRejected)
      BY <2>3 DEF StatsAsksApi, StatsAsksMetrics, StatsReadsConfig, StatsReadsProof
    <3>3. PageRejected => probe'.config = Unread /\ probe'.at = "done"
      BY DEF PageRejected, NotProbed
    <3>4. QED
      BY <1>2, <3>1, <3>2, <3>3 DEF StatusInv
  <2>4. CASE ProbeReadsConfig
    <3>1. probe'.config \in Books \cup {Unread} /\ probe'.at = "done"
      BY <1>2, <2>4 DEF StatusInv, ProbeReadsConfig, NotProbed
    <3>2. QED
      BY <1>2, <2>4, <3>1 DEF StatusInv, ProbeReadsConfig
  <2>5. CASE EndStatus
    BY <1>2, <2>5, NothingHeard DEF StatusInv, EndStatus, NotProbed
  <2>6. CASE UNCHANGED statusVars
    BY <1>2, <2>6 DEF StatusInv, statusVars
  <2>7. QED
    BY <1>2, <2>1, <2>2, <2>3, <2>4, <2>5, <2>6 DEF StatusNext
<1>3. QED
  BY <1>1, <1>2, PTL DEF StatusSpec

-----------------------------------------------------------------------------

\* The page is always in a state its two reads have.
THEOREM StatusTypes == StatusSpec => []StatusTypeOK
<1>1. StatusInv => StatusTypeOK
  BY DEF StatusInv, StatsOK, StatusTypeOK, Points
<1>2. QED
  BY <1>1, StatusInvHolds, PTL

\* The delta of the chain that a page shows is of the config it shows it with,
\* however many rebalances settle while it is read.
THEOREM OneConfigPerPage == StatusSpec => []StatsAreOfOneConfig
<1>1. StatusInv => StatsAreOfOneConfig
  BY DEF StatusInv, StatsOK, StatsAreOfOneConfig
<1>2. QED
  BY <1>1, StatusInvHolds, PTL

\* A page that lacks the config or the delta it asked the chain for says so.
THEOREM GapsHaveNotes == StatusSpec => []ChainGapsAreNoted
<1>1. StatusInv => ChainGapsAreNoted
  BY DEF StatusInv, StatsOK, ChainGapsAreNoted
<1>2. QED
  BY <1>1, StatusInvHolds, PTL

\* No failure that is caught takes an answer off the page.  (One that is not takes
\* all of them: OneHalfLeavesTheOther does not hold.)
THEOREM AnswersStay == StatusSpec => CaughtFailuresLoseNothing
<1>1. ASSUME StatusInv, [StatusNext]_statusVars
      PROVE  [Running /\ stats'.at # "thrown" => AnswersKept]_statusVars
  <2>1. /\ StatsOK(stats, asked)
        /\ stats \in [at : Points, heard : SUBSET Metrics, notes : SUBSET Notes,
                       config : Books \cup {Unread}, attested : -1 .. MaxSettled]
    BY <1>1 DEF StatusInv, StatsOK
  <2> DEFINE Kept(t) == /\ stats.heard \subseteq t.heard
                        /\ stats.config # Unread => t.config = stats.config
  <2>2. SUFFICES ASSUME StatusNext, Running, stats'.at # "thrown"
                 PROVE  AnswersKept
    BY <1>1
  <2> Kept(stats') /\ (probe.config # Unread => probe' = probe) => AnswersKept
    BY DEF AnswersKept
  <2> ~PageRejected
    BY <2>2, <2>1 DEF PageRejected, NotStarted
  <2>3. CASE StatsAsksApi
    <3>1. Kept([stats EXCEPT !.at = AfterApi])
      BY <2>1
    <3>2. Kept([stats EXCEPT !.at = "metrics"])
      BY <2>1
    <3>3. Kept([stats EXCEPT !.at = AfterApi, !.notes = @ \cup {"api"}])
      BY <2>1
    <3>4. Kept(stats')
      BY <2>3, <3>1, <3>2, <3>3 DEF StatsAsksApi
    <3>5. QED
      BY <2>3, <3>4 DEF StatsAsksApi
  <2>4. CASE StatsAsksMetrics
    <3>1. stats.at = "metrics"
      BY <2>4 DEF StatsAsksMetrics
    <3>2. Kept(stats')
      BY <2>1, <2>4, <3>1 DEF StatsAsksMetrics, StatsOK
    <3>3. QED
      BY <2>4, <3>2 DEF StatsAsksMetrics
  <2>5. Kept(ChainNotRead(stats))
    BY <2>1 DEF ChainNotRead
  <2>6. ASSUME NEW s, s.config \in Books \cup {Unread},
               s \in [at : Points, heard : SUBSET Metrics, notes : SUBSET Notes,
                      config : Books \cup {Unread}, attested : -1 .. MaxSettled],
               Kept(s)
        PROVE  Kept(Noted(s))
    BY <2>6 DEF Noted
  <2>7. CASE StatsReadsConfig
    <3> DEFINE s == [stats EXCEPT !.config = book]
    <3>1. stats.at = "config" /\ stats.config = Unread /\ book \in Books
      BY <1>1, <2>1, <2>7 DEF StatsReadsConfig, StatsOK, StatusInv
    <3>2. /\ s \in [at : Points, heard : SUBSET Metrics, notes : SUBSET Notes,
                    config : Books \cup {Unread}, attested : -1 .. MaxSettled]
          /\ s.heard = stats.heard /\ s.config = book
      BY <2>1, <3>1
    <3> HIDE DEF s
    <3>3. Kept(s)
      BY <3>1, <3>2
    <3>4. Kept(Noted(s))
      BY <2>6, <3>1, <3>2, <3>3
    <3>5. Kept([s EXCEPT !.at = "delta"])
      BY <3>2, <3>3
    <3>6. Kept(stats')
      BY <2>5, <2>7, <3>4, <3>5 DEF StatsReadsConfig, ConfigRead, s
    <3>7. QED
      BY <2>7, <3>6 DEF StatsReadsConfig
  <2>8. CASE StatsReadsProof
    <3>1. stats.at = "delta" /\ stats.config \in Books
      BY <2>1, <2>8 DEF StatsReadsProof, StatsOK
    <3>2. stats.config.count \in -1 .. MaxSettled /\ 0 \in -1 .. MaxSettled
      BY <3>1, BooksAreRead, StatusAssumption
    <3>3. ASSUME NEW count \in {0, stats.config.count}
          PROVE  Kept(Noted(WithProof(stats, count)))
      <4> DEFINE s == WithProof(stats, count)
      <4>1. s = [stats EXCEPT !.notes = @ \cup {"delta"}]
              \/ s = [stats EXCEPT !.attested = count, !.heard = @ \cup {"delta"}]
        BY DEF WithProof
      <4>2. count \in -1 .. MaxSettled /\ "delta" \in Metrics /\ "delta" \in Notes
        BY <3>2, <3>3 DEF Metrics, Notes
      <4>3. /\ s \in [at : Points, heard : SUBSET Metrics, notes : SUBSET Notes,
                      config : Books \cup {Unread}, attested : -1 .. MaxSettled]
            /\ stats.heard \subseteq s.heard /\ s.config = stats.config
        BY <2>1, <4>1, <4>2
      <4> HIDE DEF s
      <4>4. Kept(s) /\ s.config \in Books \cup {Unread}
        BY <3>1, <4>3
      <4>5. Kept(Noted(s))
        BY <2>6, <4>3, <4>4
      <4>6. QED
        BY <4>5 DEF s
    <3>4. Kept(stats')
      BY <2>5, <2>8, <3>3 DEF StatsReadsProof
    <3>5. QED
      BY <2>8, <3>4 DEF StatsReadsProof
  <2>9. CASE ProbeReadsConfig
    <3>1. probe.config = Unread
      BY <1>1, <2>9 DEF StatusInv, ProbeReadsConfig
    <3>2. QED
      BY <2>9, <3>1 DEF ProbeReadsConfig
  <2>10. CASE Settle \/ TogglePause
    BY <2>10 DEF Settle, TogglePause
  <2>11. QED
    BY <2>2, <2>3, <2>4, <2>7, <2>8, <2>9, <2>10 DEF StatusNext, EndStatus
<1>2. QED
  BY <1>1, StatusInvHolds, PTL DEF StatusSpec, CaughtFailuresLoseNothing

-----------------------------------------------------------------------------
(* The process.                                                             *)

LEMMA PartsStep ==
    [ClientNext]_clientVars => /\ [Next]_vars /\ [SessionNext]_sessionVars
                               /\ [ProofNext]_proofVars /\ [StatusNext]_statusVars
<1>. SUFFICES ASSUME [ClientNext]_clientVars
              PROVE  /\ [Next]_vars /\ [SessionNext]_sessionVars
                     /\ [ProofNext]_proofVars /\ [StatusNext]_statusVars
  OBVIOUS
<1>1. CASE UseDelta
  BY <1>1 DEF UseDelta
<1>2. CASE UseSession
  BY <1>2 DEF UseSession
<1>3. CASE UseProofs
  BY <1>3 DEF UseProofs
<1>4. CASE UseStatus
  BY <1>4 DEF UseStatus
<1>5. CASE UNCHANGED clientVars
  BY <1>5 DEF clientVars
<1>. QED  BY <1>1, <1>2, <1>3, <1>4, <1>5 DEF ClientNext

\* The process implements each part it is made of: no command takes a step that
\* the part would not take alone, and the parts share no state.
THEOREM ProcessImplementsItsParts ==
    ClientSpec => Spec /\ SessionSpec /\ ProofSpec /\ StatusSpec
<1>1. ClientInit => Init /\ SessionInit /\ ProofInit /\ StatusInit
  BY DEF ClientInit
<1>. QED  BY <1>1, PartsStep, PTL DEF ClientSpec, Spec, SessionSpec, ProofSpec, StatusSpec

\* A process uses one part of the client, and every part is always well formed.
THEOREM ClientTypes == ClientSpec => []ClientTypeOK
<1>1. ClientInit => use \in Uses
  BY DEF ClientInit
<1>2. use \in Uses /\ [ClientNext]_clientVars => (use \in Uses)'
  BY DEF ClientNext, UseDelta, UseSession, UseProofs, UseStatus, clientVars
<1>3. ClientSpec => [](use \in Uses)
  BY <1>1, <1>2, PTL DEF ClientSpec
<1>4. ClientSpec => [](TypeOK /\ SessionTypeOK /\ ProofTypeOK /\ StatusTypeOK)
  BY ProcessImplementsItsParts, TypeCorrect, SessionTypes, ProofTypes, StatusTypes, PTL
<1>5. use \in Uses /\ TypeOK /\ SessionTypeOK /\ ProofTypeOK /\ StatusTypeOK => ClientTypeOK
  BY DEF ClientTypeOK
<1>. QED  BY <1>3, <1>4, <1>5, PTL

\* What is proved of the parts holds of the process: what it sends is what was
\* meant and can be undone, what it reads back is what was stored, what it verifies
\* and shows is of one instant.
THEOREM ClientIsSafe ==
    ClientSpec => [](/\ OneInstant
                     /\ ExecutedAsMeant /\ FreshContextResolves /\ ExitsSurviveRotation
                     /\ FoundAsStored /\ CancellableReadsExpired /\ StaleReadingIsListed
                     /\ UntouchedNeverFlagged /\ AlterationIsFlagged /\ RehashedBreaksTheLink
                     /\ StatsAreOfOneConfig /\ ChainGapsAreNoted)
BY ProcessImplementsItsParts, ReadingsAreOfOneInstant,
   AcceptedIsMeant, FreshPlansResolve, ExitsStayOpen, OpenedIsFound, ExpiryIsSeen,
   StaleReadingIsSeen, UntouchedPagesPass, AlterationsShow, RehashedRecordsUnlink,
   OneConfigPerPage, GapsHaveNotes, PTL

\* The same of its steps: no green job without a measurement, no breach the chain
\* could not attest, no answer taken off the page by a failure that is caught.
THEOREM ClientStepsAreSafe ==
    ClientSpec => /\ GreenMeansMeasuredInside
                  /\ ChainBreachNeedsAWideBand
                  /\ CaughtFailuresLoseNothing
BY ProcessImplementsItsParts, GreenIsMeasured, AttestedDeltasAreInside, AnswersStay, PTL

=============================================================================
