------------------------------ MODULE WriteFlow ------------------------------
(***************************************************************************)
(* `poyz mint` and `poyz mint cancel` (`poyz redeem` mirrors both): the    *)
(* build, simulate, confirm, send sequence of runWriteFlow over            *)
(* PoyzClient, for several invocations by one signer, concurrent or one    *)
(* retrying the other, against a cluster that moves on between their steps.*)
(*                                                                         *)
(* The cluster and the program are not in this repository: Settle, Expire, *)
(* Lapse, Fulfil and Rotate, and Accepts, model them from what client.ts,  *)
(* requests.ts and the IDL's own comments say.  The plan a run builds      *)
(* differs from another only in the request it addresses (the nonce) and   *)
(* in the addresses taken from the protocol config (the context).          *)
(***************************************************************************)
EXTENDS Integers

CONSTANTS
    Runs,                 \* invocations of the command
    Contexts,             \* address sets the protocol config may hold
    ExplicitNonces,       \* values of --nonce
    MaxNow,               \* bound on the clock, in milliseconds
    None                  \* null

ASSUME WriteAssumption ==
    /\ ExplicitNonces \subseteq Nat
    /\ MaxNow \in Nat
    /\ None \notin Contexts /\ None \notin Int

VARIABLES
    now,                  \* Date.now()
    onChain,              \* the context the protocol config holds now
    run,                  \* the state of each invocation
    pool,                 \* accepted transactions that may still land
    pending,              \* the open request accounts
    sent,                 \* history: every transaction the cluster accepted
    landed                \* history: those that executed

vars == <<now, onChain, run, pool, pending, sent, landed>>
cluster == <<now, onChain, pool, pending, sent, landed>>

Commands == {"mint", "cancel"}
Transactions == [run : Runs, command : Commands, nonce : Nat, context : Contexts]
Requests == [nonce : Nat, by : Runs, expired : BOOLEAN]
RunPoints == {"start", "probe", "build", "simulate", "confirm", "rebuild",
              "submit", "answer", "done"}
Planned == {"simulate", "confirm", "rebuild", "submit", "answer"}
Interrupted == 130

Invocations ==
    [pc : RunPoints, command : Commands, execute : BOOLEAN, yes : BOOLEAN,
     arg : ExplicitNonces \cup {None}, nonce : Nat \cup {None},
     cached : Contexts \cup {None}, simulated : Contexts \cup {None},
     plan : Contexts \cup {None}, approved : BOOLEAN, printed : BOOLEAN,
     exit : {0, 1, 2, 5, Interrupted, None}]

TypeOK ==
    /\ now \in 0 .. MaxNow
    /\ onChain \in Contexts
    /\ run \in [Runs -> Invocations]
    /\ \A r \in Runs :
         /\ run[r].pc \in Planned => run[r].simulated # None
         /\ run[r].pc = "done" <=> run[r].exit # None
    /\ pool \subseteq sent /\ landed \subseteq sent
    /\ sent \subseteq Transactions
    /\ pending \subseteq Requests

Fresh == [pc |-> "start", command |-> "mint", execute |-> FALSE, yes |-> FALSE,
          arg |-> None, nonce |-> None, cached |-> None, simulated |-> None,
          plan |-> None, approved |-> FALSE, printed |-> FALSE, exit |-> None]

Init ==
    /\ now = 0
    /\ onChain \in Contexts
    /\ run = [r \in Runs |-> Fresh]
    /\ pool = {} /\ pending = {} /\ sent = {} /\ landed = {}

-----------------------------------------------------------------------------
(* Helpers.                                                                 *)

Goto(r, point) == run' = [run EXCEPT ![r].pc = point]

\* The run ends with an error alone, or with its banner, plan and simulation:
\* everything a run prints on stdout, it prints when it ends.
Fail(r, code)   == run' = [run EXCEPT ![r].pc = "done", ![r].exit = code]
Report(r, code) == run' = [run EXCEPT ![r].pc = "done", ![r].exit = code,
                                      ![r].printed = TRUE]

\* Mutant: the clock wins over --nonce.
ReadNonceFromClock(arg) == now

\* readNonce: the flag, or the clock.
ReadNonce(arg) == IF arg # None THEN arg ELSE now

\* Mutant: every build reads the config afresh.
ContextRefreshed(r) == onChain

\* Mutant: the cache is used even when the probe left it empty.
ContextCachedOnly(r) == run[r].cached

\* getChainContext over getConfig: read once, then cached for the process.
Context(r) == IF run[r].cached # None THEN run[r].cached ELSE onChain

\* The program opens one request account per owner and nonce, in a transaction
\* built on the addresses the config holds (the oracle's may be repointed), and
\* closes an expired one for its owner; a cancel names no address that changes.
Accepts(command, nonce, context) ==
    IF command = "mint" THEN context = onChain /\ \A q \in pending : q.nonce # nonce
    ELSE \E q \in pending : q.nonce = nonce /\ q.expired

-----------------------------------------------------------------------------
(* One invocation.                                                          *)

\* Cancelling requires --nonce and converts no amount, so it skips the probe.
Start(r) ==
    /\ run[r].pc = "start"
    /\ \E command \in Commands, execute, yes \in BOOLEAN, arg \in ExplicitNonces \cup {None} :
         /\ command = "cancel" => arg # None
         /\ run' = [run EXCEPT ![r] =
                     [Fresh EXCEPT !.pc = IF command = "mint" THEN "probe" ELSE "build",
                                   !.command = command, !.execute = execute, !.yes = yes,
                                   !.arg = arg, !.nonce = ReadNonce(arg)]]
    /\ UNCHANGED cluster

\* probeConfig swallows a failed read; without the mint's decimals, from the
\* config or from --decimals, the run ends as a usage error.
Probe(r) ==
    /\ run[r].pc = "probe"
    /\ \/ run' = [run EXCEPT ![r].pc = "build", ![r].cached = onChain]
       \/ Goto(r, "build")
       \/ Fail(r, 2)
    /\ UNCHANGED cluster

\* buildPlan: the config read may fail, or an argument the builder refuses.
Build(r) ==
    /\ run[r].pc = "build"
    /\ \/ run' = [run EXCEPT ![r].pc = "simulate", ![r].cached = Context(r),
                             ![r].simulated = Context(r)]
       \/ run[r].cached = None /\ Fail(r, 1)
       \/ Fail(r, 2)
    /\ UNCHANGED cluster

\* Mutant: --yes is taken for --execute.
SimulateYesExecutes(r) ==
    /\ run[r].pc = "simulate"
    /\ \/ Fail(r, 1)
       \/ Report(r, 1)
       \/ /\ Accepts(run[r].command, run[r].nonce, run[r].simulated)
          /\ IF run[r].yes THEN Goto(r, "rebuild")
             ELSE IF run[r].execute THEN Goto(r, "confirm")
             ELSE Report(r, 5)
    /\ UNCHANGED cluster

\* The simulation fails to run, answers with an error, or passes; what follows is
\* the dry run's end, the prompt or the send.
Simulate(r) ==
    /\ run[r].pc = "simulate"
    /\ \/ Fail(r, 1)
       \/ Report(r, 1)
       \/ /\ Accepts(run[r].command, run[r].nonce, run[r].simulated)
          /\ IF ~run[r].execute THEN Report(r, 5)
             ELSE Goto(r, IF run[r].yes THEN "rebuild" ELSE "confirm")
    /\ UNCHANGED cluster

\* The prompt is answered yes, or no, or there is no terminal to ask on.
Confirm(r) ==
    /\ run[r].pc = "confirm"
    /\ \/ run' = [run EXCEPT ![r].pc = "rebuild", ![r].approved = TRUE]
       \/ Report(r, 5)
    /\ UNCHANGED cluster

\* send builds the plan again from the same parameters, then fetches a blockhash
\* and signs.
Rebuild(r) ==
    /\ run[r].pc = "rebuild"
    /\ \/ run' = [run EXCEPT ![r].pc = "submit", ![r].plan = Context(r)]
       \/ Report(r, 1) \/ Report(r, 2)
    /\ UNCHANGED cluster

\* sendRawTransaction: the call does not get through or preflight refuses it, or
\* the cluster takes the transaction.
Submit(r) ==
    /\ run[r].pc = "submit"
    /\ \/ /\ Report(r, 1)
          /\ UNCHANGED <<pool, sent>>
       \/ LET tx == [run |-> r, command |-> run[r].command, nonce |-> run[r].nonce,
                     context |-> run[r].plan]
          IN  /\ Accepts(tx.command, tx.nonce, tx.context)
              /\ pool' = pool \cup {tx} /\ sent' = sent \cup {tx}
              /\ Goto(r, "answer")
    /\ UNCHANGED <<now, onChain, pending, landed>>

\* Mutant: a lost answer is taken for a refusal.
AnswerLostIsRefusal(r) ==
    /\ run[r].pc = "answer"
    /\ Report(r, 0) \/ Report(r, 5)
    /\ UNCHANGED cluster

\* The signature comes back, or the answer is lost and reads as a failed send.
Answer(r) ==
    /\ run[r].pc = "answer"
    /\ Report(r, 0) \/ Report(r, 1)
    /\ UNCHANGED cluster

\* Ctrl-C: the write commands register no handler, so the process just ends.
Kill(r) ==
    /\ run[r].pc \notin {"start", "done"}
    /\ Fail(r, Interrupted)
    /\ UNCHANGED cluster

-----------------------------------------------------------------------------
(* The cluster.                                                             *)

\* A transaction executes: it opens its request, closes the one it cancels, or
\* fails on chain.
Settle(tx) ==
    /\ pool' = pool \ {tx}
    /\ IF Accepts(tx.command, tx.nonce, tx.context)
       THEN /\ landed' = landed \cup {tx}
            /\ pending' = IF tx.command = "mint"
                          THEN pending \cup {[nonce |-> tx.nonce, by |-> tx.run,
                                              expired |-> FALSE]}
                          ELSE {q \in pending : q.nonce # tx.nonce}
       ELSE UNCHANGED <<pending, landed>>
    /\ UNCHANGED <<now, onChain, run, sent>>

\* Its blockhash expires first.
Expire(tx) ==
    /\ pool' = pool \ {tx}
    /\ UNCHANGED <<now, onChain, run, pending, sent, landed>>

\* The request's deadline passes.
Lapse(q) ==
    /\ ~q.expired
    /\ pending' = (pending \ {q}) \cup {[q EXCEPT !.expired = TRUE]}
    /\ UNCHANGED <<now, onChain, run, pool, sent, landed>>

\* A keeper confirms the request, which closes it.
Fulfil(q) ==
    /\ pending' = pending \ {q}
    /\ UNCHANGED <<now, onChain, run, pool, sent, landed>>

Rotate(c) ==
    /\ c # onChain
    /\ onChain' = c
    /\ UNCHANGED <<now, run, pool, pending, sent, landed>>

Tick ==
    /\ now < MaxNow
    /\ now' = now + 1
    /\ UNCHANGED <<onChain, run, pool, pending, sent, landed>>

Invocation(r) ==
    \/ Start(r) \/ Probe(r) \/ Build(r) \/ Simulate(r) \/ Confirm(r)
    \/ Rebuild(r) \/ Submit(r) \/ Answer(r) \/ Kill(r)

Cluster ==
    \/ \E tx \in pool : Settle(tx) \/ Expire(tx)
    \/ \E q \in pending : Lapse(q) \/ Fulfil(q)
    \/ \E c \in Contexts : Rotate(c)
    \/ Tick

Next ==
    \/ \E r \in Runs : Invocation(r)
    \/ Cluster

Spec == Init /\ [][Next]_vars

-----------------------------------------------------------------------------

\* What reaches the cluster was asked for with --execute and approved, by --yes
\* or at the prompt.
OnlyApprovedIsSent ==
    \A tx \in sent : run[tx.run].execute /\ (run[tx.run].yes \/ run[tx.run].approved)

\* The plan that is sent is the plan that was simulated, although send builds it
\* anew and the config may have changed under the prompt.
SentAsSimulated == \A tx \in sent : tx.context = run[tx.run].simulated

\* Retrying with the same --nonce never holds collateral in two requests at once,
\* even when the first send landed and only its answer was lost.
OneEscrowAtATime ==
    \A p, q \in pending :
        (run[p.by].arg # None /\ run[p.by].arg = run[q.by].arg) => p = q

\* A run that ends as a usage error or as refused has put nothing on the wire.
RefusedSentNothing ==
    \A tx \in sent : run[tx.run].exit \notin {2, 5}

\* runWriteFlow's comment: "exit 0 only when a transaction was actually sent and
\* confirmed by the SDK".
ExitZeroIsConfirmed ==
    \A r \in Runs : run[r].exit = 0 => \E tx \in landed : tx.run = r

\* The CLI "prints the plan and the simulation result before anything is signed".
PrintedBeforeSent == \A tx \in sent : run[tx.run].printed

=============================================================================
