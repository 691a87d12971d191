----------------------------- MODULE PoyzClient -----------------------------
(***************************************************************************)
(* What a process uses a PoyzClient for.  The dispatcher of the CLI runs   *)
(* one command per process, and a command uses one part of the client: the *)
(* delta reading and the job around it, the status page, or instructions   *)
(* and account reads; a program that verifies proofs uses the fourth.  The *)
(* parts keep no state in common, so the ones not used stand still.        *)
(***************************************************************************)
EXTENDS DeltaAction, ProtocolSession, ProofChain, StatusScreen

VARIABLE use              \* the part of the client the command needs

clientVars == <<use, vars, sessionVars, proofVars, statusVars>>

Uses == {"delta", "session", "proofs", "status"}

\* One state for a part that is not used.
AtRest(part) ==
    CASE part = "delta"   -> /\ source = "auto" /\ failOnUnavailable
                             /\ band = CHOOSE b \in Bands : TRUE
      [] part = "session" -> oracle = CHOOSE o \in Oracles : TRUE
      [] part = "proofs"  -> TRUE
      [] part = "status"  -> /\ book = [count |-> 0, paused |-> FALSE]
                             /\ asked = CHOOSE s \in StatusSources : TRUE

ClientInit ==
    /\ use \in Uses
    /\ Init /\ SessionInit /\ ProofInit /\ StatusInit
    /\ \A part \in Uses \ {use} : AtRest(part)

UseDelta   == Next        /\ UNCHANGED <<use, sessionVars, proofVars, statusVars>>
UseSession == SessionNext /\ UNCHANGED <<use, vars, proofVars, statusVars>>
UseProofs  == ProofNext   /\ UNCHANGED <<use, vars, sessionVars, statusVars>>
UseStatus  == StatusNext  /\ UNCHANGED <<use, vars, sessionVars, proofVars>>

ClientNext ==
    \/ use = "delta" /\ UseDelta
    \/ use = "session" /\ UseSession
    \/ use = "proofs" /\ UseProofs
    \/ use = "status" /\ UseStatus

ClientSpec == ClientInit /\ [][ClientNext]_clientVars

\* The fairness of FairSpec, for a process that runs the delta command.
Fairly(step) == use = "delta" /\ step /\ UNCHANGED <<use, sessionVars, proofVars, statusVars>>

FairClientSpec ==
    /\ ClientSpec
    /\ WF_clientVars(Fairly(JobStep /\ UNCHANGED widest))
    /\ WF_clientVars(Fairly(Conclude /\ UNCHANGED widest))
    /\ WF_clientVars(Fairly(Publish /\ UNCHANGED <<job, widest>>))

\* The type invariants of the parts.
ClientTypeOK ==
    /\ use \in Uses
    /\ TypeOK /\ SessionTypeOK /\ ProofTypeOK /\ StatusTypeOK

=============================================================================
