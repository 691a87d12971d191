---------------------------- MODULE StatusScreen ----------------------------
(***************************************************************************)
(* `poyz status`: PoyzClient.getStats (client.ts) and a second read of the *)
(* config (probeConfig, amounts.ts) run side by side, each of their calls  *)
(* answers, has nothing to report or fails on its own, and the protocol    *)
(* moves on in between.                                                    *)
(***************************************************************************)
EXTENDS Integers

CONSTANTS
    MaxSettled,           \* bound on the rebalances
    StatusSources         \* values of --source, see Sources in DeltaSource

ASSUME StatusAssumption == MaxSettled \in Nat

VARIABLES
    book,                 \* the config account: its counter, and whether it is paused
    asked,                \* --source
    stats,                \* where getStats stands, and its local variables
    probe                 \* where probeConfig stands, and what it read

statusVars == <<book, asked, stats, probe>>

Metrics == {"delta", "funding", "collateral"}
Books   == [count : 0 .. MaxSettled, paused : BOOLEAN]
Unread  == [count |-> -1, paused |-> FALSE]

NotStarted == [at |-> "api", heard |-> {}, notes |-> {}, config |-> Unread, attested |-> -1]
NotProbed  == [at |-> "config", config |-> Unread]

Running == stats.at \notin {"done", "thrown"} \/ probe.at # "done"

-----------------------------------------------------------------------------
(* The protocol: a rebalance is counted, the authority pauses and resumes.  *)

Settle ==
    /\ book.count < MaxSettled
    /\ book' = [book EXCEPT !.count = @ + 1]
    /\ UNCHANGED <<asked, stats, probe>>

TogglePause ==
    /\ book' = [book EXCEPT !.paused = ~@]
    /\ UNCHANGED <<asked, stats, probe>>

-----------------------------------------------------------------------------
(* getStats.                                                                *)

\* The chain half follows unless the source is the API alone.
AfterApi == IF asked = "api" THEN "done" ELSE "config"

\* /api/stats is asked first: the three metrics only when it answered.
StatsAsksApi ==
    /\ stats.at = "api"
    /\ \/ asked = "chain" /\ stats' = [stats EXCEPT !.at = AfterApi]
       \/ asked # "chain" /\ stats' = [stats EXCEPT !.at = "metrics"]
       \/ asked # "chain" /\ stats' = [stats EXCEPT !.at = AfterApi, !.notes = @ \cup {"api"}]
    /\ UNCHANGED <<book, asked, probe>>

\* Each metric has data, has none published, or fails; the last two alike.
StatsAsksMetrics ==
    /\ stats.at = "metrics"
    /\ \E heard \in SUBSET Metrics : stats' = [stats EXCEPT !.at = AfterApi, !.heard = heard]
    /\ UNCHANGED <<book, asked, probe>>

ChainNotRead(s) == [s EXCEPT !.at = "done", !.notes = @ \cup {"chain"}]

\* Pauses are noted last, in the same breath as the last answer.
Noted(s) ==
    [s EXCEPT !.at = "done", !.notes = @ \cup IF s.config.paused THEN {"paused"} ELSE {}]

\* Account data that is too short throws past getStats and rejects the pair of
\* reads: the command prints an error instead of a page, whatever either had.
PageRejected ==
    /\ stats' = [NotStarted EXCEPT !.at = "thrown"]
    /\ probe' = [NotProbed EXCEPT !.at = "done"]

ConfigRead(s) == IF "delta" \in s.heard THEN Noted(s) ELSE [s EXCEPT !.at = "delta"]

\* Mutant: when the chain half fails the call fails.
StatsReadsConfigOrRejects ==
    /\ stats.at = "config"
    /\ \/ /\ \/ stats' = ConfigRead([stats EXCEPT !.config = book])
             \/ stats' = [NotStarted EXCEPT !.at = "done"]
          /\ UNCHANGED probe
       \/ PageRejected
    /\ UNCHANGED <<book, asked>>

\* The config is read afresh.
StatsReadsConfig ==
    /\ stats.at = "config"
    /\ \/ /\ \/ stats' = ConfigRead([stats EXCEPT !.config = book])
             \/ stats' = ChainNotRead(stats)
          /\ UNCHANGED probe
       \/ PageRejected
    /\ UNCHANGED <<book, asked>>

\* Mutant: only the counter at zero is noted.
WithProofSilent(s, count) ==
    IF count = 0
    THEN [s EXCEPT !.notes = IF s.config.count = 0 THEN @ \cup {"delta"} ELSE @]
    ELSE [s EXCEPT !.attested = count, !.heard = @ \cup {"delta"}]

\* The newest proof that config counts, or none (0); `attested` is its number.
WithProof(s, count) ==
    IF count = 0 THEN [s EXCEPT !.notes = @ \cup {"delta"}]
    ELSE [s EXCEPT !.attested = count, !.heard = @ \cup {"delta"}]

\* Mutant: getDelta reads the config once more for itself.
StatsReadsNewestProof ==
    /\ stats.at = "delta"
    /\ \/ /\ \/ stats' = Noted(WithProof(stats, book.count))
             \/ stats' = Noted(WithProof(stats, 0))
             \/ stats' = ChainNotRead(stats)
          /\ UNCHANGED probe
       \/ PageRejected
    /\ UNCHANGED <<book, asked>>

\* Without a delta from the API: that of the newest proof, if its account is there.
StatsReadsProof ==
    /\ stats.at = "delta"
    /\ \/ /\ \/ stats' = Noted(WithProof(stats, stats.config.count))
             \/ stats' = Noted(WithProof(stats, 0))
             \/ stats' = ChainNotRead(stats)
          /\ UNCHANGED probe
       \/ PageRejected
    /\ UNCHANGED <<book, asked>>

-----------------------------------------------------------------------------
(* probeConfig, and the end of the process.                                 *)

\* Whatever goes wrong is an unread config, a decoding error included.
ProbeReadsConfig ==
    /\ probe.at = "config"
    /\ probe' \in {[at |-> "done", config |-> book], [NotProbed EXCEPT !.at = "done"]}
    /\ UNCHANGED <<book, asked, stats>>

EndStatus ==
    /\ ~Running
    /\ stats' = NotStarted
    /\ probe' = NotProbed
    /\ UNCHANGED <<book, asked>>

StatusInit ==
    /\ book \in Books /\ book.count = 0
    /\ asked \in StatusSources
    /\ stats = NotStarted
    /\ probe = NotProbed

StatusNext ==
    \/ Settle \/ TogglePause
    \/ StatsAsksApi \/ StatsAsksMetrics \/ StatsReadsConfig \/ StatsReadsProof
    \/ ProbeReadsConfig
    \/ EndStatus

StatusSpec == StatusInit /\ [][StatusNext]_statusVars

StatusTypeOK ==
    /\ book \in Books /\ asked \in StatusSources
    /\ stats.at \in {"api", "metrics", "config", "delta", "done", "thrown"}
    /\ stats.heard \subseteq Metrics
    /\ stats.config \in Books \cup {Unread} /\ probe.config \in Books \cup {Unread}

-----------------------------------------------------------------------------

\* The delta of the chain is the one its own config counts, so the threshold it
\* is judged by is of the same instant, whatever settles while the page is read.
StatsAreOfOneConfig ==
    stats.attested # -1 => stats.attested = stats.config.count

\* What a running page has of either half.
AnswersKept ==
    /\ stats.heard \subseteq stats'.heard
    /\ stats.config # Unread => stats'.config = stats.config
    /\ probe.config # Unread => probe'.config = probe.config

\* A call that fails in a way getStats and probeConfig catch takes no answer of
\* another call off the page: not the API's metrics when the chain cannot be read
\* after them, not the config when the newest proof cannot.
CaughtFailuresLoseNothing ==
    [][Running /\ stats'.at # "thrown" => AnswersKept]_statusVars

\* What the command says of itself: the two halves are read independently, "so one
\* being unavailable still leaves the other on screen".
OneHalfLeavesTheOther == [][Running => AnswersKept]_statusVars

\* A config or a delta that the chain was asked for and did not give has a note.
ChainGapsAreNoted ==
    (stats.at = "done" /\ asked # "api" /\ (stats.config = Unread \/ "delta" \notin stats.heard))
        => stats.notes \cap {"chain", "delta"} # {}

=============================================================================
