----------------------------- MODULE ProofChain -----------------------------
(***************************************************************************)
(* Reading back and verifying the chain of rebalance proofs: the newest    *)
(* accounts below the config's counter (chain.ts, getRebalances), and the  *)
(* recomputed digest and link of each (proof.ts), while keepers commit     *)
(* more and the answer of the node leaves accounts out or carries one of   *)
(* them differently than the program stored it.                            *)
(*                                                                         *)
(* SHA-256 over the concatenated fields is a term that is equal exactly    *)
(* when the fields are.                                                    *)
(***************************************************************************)
EXTENDS Integers, Sequences

CONSTANTS
    Figures,              \* values of a field of a proof
    NoProof,              \* the 32 zero bytes the chain starts from
    ConfigAddress,        \* hashed in for domain separation
    MaxLog,               \* bound on the committed proofs
    PageLimits,           \* limits callers ask for
    MaxPage               \* the cap of getRebalances

ASSUME ProofChainAssumption ==
    /\ MaxLog \in Nat /\ MaxPage \in Nat \ {0} /\ PageLimits \subseteq Int

VARIABLES
    log,                  \* the proof accounts, oldest first
    counted,              \* config.rebalanceCount as this read resolved it
    window,               \* the records read, newest first
    alteration,           \* history: what the answer did to one record, if anything
    verifier              \* where the read stands

proofVars == <<log, counted, window, alteration, verifier>>

\* What the digest of proof.ts covers beside prevHash, config and sequence.
HashedFields ==
    {"slot", "oraclePrice", "oracleConf", "oracleExpo", "oraclePublishTime",
     "collateralNotional", "hedgedNotional", "deltaBpsBefore", "deltaBpsAfter",
     "venueId", "venuesHash", "keeper"}

RecordFields == HashedFields \cup {"timestamp", "oraclePostedSlot"}

\* What can come back different: a field, the sequence or one of the digests.
Parts == RecordFields \cup {"sequence", "prevHash", "thisHash"}

Untouched == [at |-> 0]

-----------------------------------------------------------------------------
(* The program.                                                             *)

\* hashv over the fields, in the order of the header of proof.rs.
ProgramFields == RecordFields \ {"timestamp", "oraclePostedSlot"}

Digest(record) ==
    <<"sha256", record.prevHash, ConfigAddress, record.sequence,
      [f \in ProgramFields |-> record.figures[f]]>>

Hashed(record) == [record EXCEPT !.thisHash = Digest(record)]

lastProofHash == IF log = << >> THEN NoProof ELSE log[Len(log)].thisHash

\* Sequence numbers from 0, each proof on the head before it.
Commit(figures) ==
    /\ Len(log) < MaxLog
    /\ log' = Append(log, Hashed([sequence |-> Len(log), figures |-> figures,
                                  prevHash |-> lastProofHash, thisHash |-> NoProof]))
    /\ UNCHANGED <<counted, window, alteration, verifier>>

-----------------------------------------------------------------------------
(* The read.                                                                *)

\* The config answers with its counter; nothing is fetched below a zero.
CountProofs ==
    /\ verifier = "idle"
    /\ counted' = Len(log)
    /\ verifier' = IF log = << >> THEN "idle" ELSE "counted"
    /\ UNCHANGED <<log, window, alteration>>

Smaller(m, n) == IF m < n THEN m ELSE n
Larger(m, n) == IF m < n THEN n ELSE m

\* How many accounts a caller's limit asks for.
PageSize(limit) == Smaller(counted, Larger(1, Smaller(limit, MaxPage)))

\* The indices of the log that are asked for.
Asked(limit) == (counted - PageSize(limit) + 1) .. counted

\* A record whose part p came back as x.
Altered(record, p, x) ==
    CASE p = "sequence" -> [record EXCEPT !.sequence = x]
      [] p = "prevHash" -> [record EXCEPT !.prevHash = x]
      [] p = "thisHash" -> [record EXCEPT !.thisHash = x]
      [] OTHER -> [record EXCEPT !.figures =
                     [f \in RecordFields |-> IF f = p THEN x ELSE record.figures[f]]]

\* The accounts there are of those asked for, newest first.
Answers(limit) ==
    UNION {{pick \in [1 .. size -> Asked(limit)] :
               \A i, j \in 1 .. size : i < j => pick[i] > pick[j]} :
           size \in 0 .. PageSize(limit)}

Genuine(pick) == [k \in DOMAIN pick |-> log[pick[k]]]

\* getMultipleAccountsInfo answers for the counted proofs, without those it does
\* not have.
FetchWindow(limit) ==
    /\ verifier = "counted"
    /\ \E pick \in Answers(limit) : window' = Genuine(pick)
    /\ alteration' = Untouched
    /\ verifier' = "fetched"
    /\ UNCHANGED <<log, counted>>

\* The same, with one record not as the program stored it; its digest is the old
\* one, or recomputed over what it says now.
FetchAltered(limit, p, x, rehashed) ==
    /\ verifier = "counted"
    /\ \E pick \in Answers(limit) : \E k \in DOMAIN pick :
         LET other == Altered(log[pick[k]], p, x) IN
         /\ other # log[pick[k]]
         /\ window' = [i \in DOMAIN pick |->
                          IF i # k THEN log[pick[i]]
                          ELSE IF rehashed THEN Hashed(other) ELSE other]
         /\ alteration' = [at |-> k, part |-> p, rehashed |-> rehashed,
                           original |-> log[pick[k]]]
    /\ verifier' = "fetched"
    /\ UNCHANGED <<log, counted>>

\* The RPC call fails; nothing is verified.
FetchFails ==
    /\ verifier = "counted"
    /\ verifier' = "idle"
    /\ UNCHANGED <<log, counted, window, alteration>>

\* The caller has verified the window and is done with it.
EndVerify ==
    /\ verifier = "fetched"
    /\ verifier' = "idle"
    /\ counted' = 0
    /\ window' = << >>
    /\ alteration' = Untouched
    /\ UNCHANGED log

-----------------------------------------------------------------------------
(* verifyProofChain: the records sorted by sequence, equal ones in the order *)
(* given.                                                                    *)

computeProofHash(record) ==
    <<"sha256", record.prevHash, ConfigAddress, record.sequence,
      [f \in HashedFields |-> record.figures[f]]>>

\* Mutant: the first proof, which links to nothing, is taken as it comes.
hashMatchesExceptFirst(record) ==
    record.sequence = 0 \/ computeProofHash(record) = record.thisHash

\* verifyProof
hashMatches(record) == computeProofHash(record) = record.thisHash

SortedBefore(w, i, j) ==
    \/ w[i].sequence < w[j].sequence
    \/ w[i].sequence = w[j].sequence /\ i < j

IsPrevious(w, i, j) ==
    /\ SortedBefore(w, i, j)
    /\ ~ \E k \in DOMAIN w : SortedBefore(w, i, k) /\ SortedBefore(w, k, j)

\* Mutant: whatever record comes before in the page has to be the predecessor.
PredecessorsAcrossGaps(w, j) == {i \in DOMAIN w : IsPrevious(w, i, j)}

\* Mutant: the records are taken in the order they were fetched.
PredecessorsUnsorted(w, j) ==
    {i \in DOMAIN w : i + 1 = j /\ w[i].sequence + 1 = w[j].sequence}

\* The record the link of w[j] is compared with: none across a gap.
Predecessors(w, j) ==
    {i \in DOMAIN w : IsPrevious(w, i, j) /\ w[i].sequence + 1 = w[j].sequence}

\* linksToPrevious, "unknown" for null.
linksToPrevious(w, j) ==
    IF Predecessors(w, j) = {} THEN "unknown"
    ELSE IF \E i \in Predecessors(w, j) : w[i].thisHash = w[j].prevHash THEN "yes" ELSE "no"

Flagged(w, j) == ~hashMatches(w[j]) \/ linksToPrevious(w, j) = "no"

-----------------------------------------------------------------------------

Plain(x) == [f \in RecordFields |-> x]

\* What a part may come back as: a sequence next to one of the log, the digest of
\* another proof, or another figure.
OtherValues(p) ==
    IF p = "sequence" THEN 0 .. MaxLog
    ELSE IF p \in {"prevHash", "thisHash"}
    THEN {NoProof} \cup {log[n].thisHash : n \in DOMAIN log}
    ELSE Figures

ProofInit ==
    /\ log = << >>
    /\ counted = 0
    /\ window = << >>
    /\ alteration = Untouched
    /\ verifier = "idle"

Verify ==
    \/ CountProofs
    \/ \E limit \in PageLimits :
         \/ FetchWindow(limit)
         \/ \E p \in Parts : \E x \in OtherValues(p), rehashed \in BOOLEAN :
               /\ rehashed => p # "thisHash"
               /\ FetchAltered(limit, p, x, rehashed)
    \/ FetchFails
    \/ EndVerify

ProofNext ==
    \/ \E x \in Figures : Commit(Plain(x))
    \/ Verify

ProofSpec == ProofInit /\ [][ProofNext]_proofVars

ProofTypeOK ==
    /\ Len(log) <= MaxLog
    /\ counted \in 0 .. Len(log)
    /\ verifier \in {"idle", "counted", "fetched"}
    /\ Len(window) <= counted
    /\ alteration # Untouched => alteration.at \in DOMAIN window /\ alteration.part \in Parts

-----------------------------------------------------------------------------

\* A page that came back as it was stored is never called broken: not for the
\* accounts that are missing from it, the proofs committed since the counter was
\* read, or where it starts.
UntouchedNeverFlagged ==
    alteration = Untouched => \A j \in DOMAIN window : ~Flagged(window, j)

\* A record that reads differently than the program hashed it has a digest that
\* does not match.
AlterationIsFlagged ==
    (alteration # Untouched /\ ~alteration.rehashed
        /\ alteration.part \notin {"timestamp", "oraclePostedSlot"})
        => ~hashMatches(window[alteration.at])

\* Recomputing the digest of an altered record only moves the mismatch: the next
\* proof, if it is in the page, no longer links.  (The newest record of a page
\* has nothing that vouches for it.)
RehashedBreaksTheLink ==
    (alteration # Untouched /\ alteration.rehashed
        /\ alteration.part \in HashedFields \cup {"prevHash"})
        => \A j \in DOMAIN window :
              window[j].sequence = alteration.original.sequence + 1
                  => linksToPrevious(window, j) = "no"

=============================================================================
