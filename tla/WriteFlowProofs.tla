--------------------------- MODULE WriteFlowProofs ---------------------------
(***************************************************************************)
(* The safety properties of WriteFlow, for any number of invocations, any  *)
(* contexts and any nonces.                                                *)
(*                                                                         *)
(* An invocation is described by InvocationOK alone, and a transaction by  *)
(* what its invocation had simulated and was allowed; the steps of the     *)
(* cluster disturb neither.                                                *)
(***************************************************************************)
EXTENDS WriteFlow, TLAPS

Sending  == {"submit", "answer"}
Sent     == {"answer", "done"}
Executed == {"confirm", "rebuild", "submit", "answer"}
Allowed  == {"rebuild", "submit", "answer"}

\* What is true of an invocation wherever it stands.  From the moment a plan is
\* simulated the cache holds its context, so building it again gives the same plan.
InvocationOK(i) ==
    /\ i \in Invocations
    /\ i.pc \in Planned => i.simulated # None /\ i.cached = i.simulated
    /\ (i.pc = "done") <=> (i.exit # None)
    /\ i.pc \in Executed => i.execute = TRUE
    /\ i.pc \in Allowed => (i.yes = TRUE \/ i.approved = TRUE)
    /\ i.pc \in Sending => i.plan = i.simulated
    /\ i.pc # "start" => i.nonce \in Nat
    /\ i.pc # "start" /\ i.arg # None => i.nonce = i.arg

\* What is true of a transaction the cluster took, given its invocation.
TransactionOK(tx, i) ==
    /\ i.pc \in Sent
    /\ i.execute = TRUE
    /\ i.yes = TRUE \/ i.approved = TRUE
    /\ tx.context = i.simulated
    /\ tx.nonce = i.nonce
    /\ i.exit \notin {2, 5}

\* What is true of an open request, given the invocation that opened it.
RequestOK(q, i) == i.pc \in Sent /\ q.nonce = i.nonce

\* What a later state of an invocation keeps for its transactions.
Keeps(i, j) ==
    i.pc \in Sent =>
        /\ j.pc \in Sent
        /\ j.execute = i.execute /\ j.yes = i.yes /\ j.approved = i.approved
        /\ j.simulated = i.simulated /\ j.nonce = i.nonce
        /\ i.exit \notin {2, 5} => j.exit \notin {2, 5}

\* The inductive invariant.
Inv ==
    /\ TypeOK
    /\ \A r \in Runs : InvocationOK(run[r])
    /\ \A tx \in sent : TransactionOK(tx, run[tx.run])
    /\ \A q \in pending : RequestOK(q, run[q.by])
    /\ \A p, q \in pending : p.nonce = q.nonce => p = q

-----------------------------------------------------------------------------
(* The moves of one invocation.                                             *)

\* The moves that change nothing but the point an invocation stands at.
Steps == {<<"probe", "build">>, <<"simulate", "rebuild">>, <<"simulate", "confirm">>,
          <<"submit", "answer">>}

Codes == {0, 1, 2, 5, Interrupted}

\* An invocation that has started may end.
LEMMA Exits ==
    ASSUME NEW i, InvocationOK(i), i.pc # "start",
           NEW code \in Codes
    PROVE  InvocationOK([i EXCEPT !.pc = "done", !.exit = code])
<1> DEFINE j == [i EXCEPT !.pc = "done", !.exit = code]
<1>1. j \in Invocations
  BY DEF InvocationOK, Invocations, RunPoints, Codes
<1>2. j.pc = "done" /\ j.exit = code /\ j.nonce = i.nonce /\ j.arg = i.arg
  BY DEF InvocationOK, Invocations
<1> HIDE DEF j
<1>3. InvocationOK(j)
  BY <1>1, <1>2, WriteAssumption
  DEF InvocationOK, Codes, Interrupted, Planned, Executed, Allowed, Sending
<1>4. QED
  BY <1>3 DEF j

\* It may end with its report.
LEMMA Reports ==
    ASSUME NEW i, InvocationOK(i), i.pc # "start",
           NEW code \in Codes
    PROVE  InvocationOK([i EXCEPT !.pc = "done", !.exit = code, !.printed = TRUE])
<1> DEFINE j == [i EXCEPT !.pc = "done", !.exit = code, !.printed = TRUE]
<1>1. j \in Invocations
  BY DEF InvocationOK, Invocations, RunPoints, Codes
<1>2. j.pc = "done" /\ j.exit = code /\ j.nonce = i.nonce /\ j.arg = i.arg
  BY DEF InvocationOK, Invocations
<1> HIDE DEF j
<1>3. InvocationOK(j)
  BY <1>1, <1>2, WriteAssumption
  DEF InvocationOK, Codes, Interrupted, Planned, Executed, Allowed, Sending
<1>4. QED
  BY <1>3 DEF j

\* The probe caches what the config holds.
LEMMA Caches ==
    ASSUME NEW i, InvocationOK(i), i.pc = "probe",
           NEW c \in Contexts
    PROVE  InvocationOK([i EXCEPT !.pc = "build", !.cached = c])
<1> DEFINE j == [i EXCEPT !.pc = "build", !.cached = c]
<1>1. j \in Invocations
  BY DEF InvocationOK, Invocations, RunPoints
<1>2. j.pc = "build" /\ j.exit = i.exit /\ j.nonce = i.nonce /\ j.arg = i.arg
  BY DEF InvocationOK, Invocations
<1> HIDE DEF j
<1>3. InvocationOK(j)
  BY <1>1, <1>2, WriteAssumption DEF InvocationOK, Planned, Executed, Allowed, Sending
<1>4. QED
  BY <1>3 DEF j

\* The first build plans what it caches.
LEMMA Plans ==
    ASSUME NEW i, InvocationOK(i), i.pc = "build",
           NEW c \in Contexts
    PROVE  InvocationOK([i EXCEPT !.pc = "simulate", !.cached = c, !.simulated = c])
<1> DEFINE j == [i EXCEPT !.pc = "simulate", !.cached = c, !.simulated = c]
<1>1. j \in Invocations
  BY DEF InvocationOK, Invocations, RunPoints
<1>2. /\ j.pc = "simulate" /\ j.cached = c /\ j.simulated = c
      /\ j.exit = i.exit /\ j.nonce = i.nonce /\ j.arg = i.arg
  BY DEF InvocationOK, Invocations
<1> HIDE DEF j
<1>3. InvocationOK(j)
  BY <1>1, <1>2, WriteAssumption DEF InvocationOK, Planned, Executed, Allowed, Sending
<1>4. QED
  BY <1>3 DEF j

\* The prompt is answered yes.
LEMMA Approves ==
    ASSUME NEW i, InvocationOK(i), i.pc = "confirm"
    PROVE  InvocationOK([i EXCEPT !.pc = "rebuild", !.approved = TRUE])
<1> DEFINE j == [i EXCEPT !.pc = "rebuild", !.approved = TRUE]
<1>1. j \in Invocations
  BY DEF InvocationOK, Invocations, RunPoints
<1>2. /\ j.pc = "rebuild" /\ j.approved = TRUE /\ j.execute = i.execute
      /\ j.cached = i.cached /\ j.simulated = i.simulated
      /\ j.exit = i.exit /\ j.nonce = i.nonce /\ j.arg = i.arg
  BY DEF InvocationOK, Invocations
<1> HIDE DEF j
<1>3. InvocationOK(j)
  BY <1>1, <1>2, WriteAssumption DEF InvocationOK, Planned, Executed, Allowed, Sending
<1>4. QED
  BY <1>3 DEF j

\* The second build plans what was simulated.
LEMMA Replans ==
    ASSUME NEW i, InvocationOK(i), i.pc = "rebuild"
    PROVE  InvocationOK([i EXCEPT !.pc = "submit", !.plan = i.simulated])
<1> DEFINE j == [i EXCEPT !.pc = "submit", !.plan = i.simulated]
<1>1. j \in Invocations
  BY DEF InvocationOK, Invocations, RunPoints
<1>2. /\ j.pc = "submit" /\ j.plan = i.simulated
      /\ j.execute = i.execute /\ j.yes = i.yes /\ j.approved = i.approved
      /\ j.cached = i.cached /\ j.simulated = i.simulated
      /\ j.exit = i.exit /\ j.nonce = i.nonce /\ j.arg = i.arg
  BY DEF InvocationOK, Invocations
<1> HIDE DEF j
<1>3. InvocationOK(j)
  BY <1>1, <1>2, WriteAssumption DEF InvocationOK, Planned, Executed, Allowed, Sending
<1>4. QED
  BY <1>3 DEF j

\* A step to another point keeps everything else.
LEMMA Goes ==
    ASSUME NEW i, InvocationOK(i), NEW point \in RunPoints,
           <<i.pc, point>> \in Steps,
           point \in Executed => i.execute = TRUE,
           point \in Allowed => (i.yes = TRUE \/ i.approved = TRUE)
    PROVE  InvocationOK([i EXCEPT !.pc = point])
<1> DEFINE j == [i EXCEPT !.pc = point]
<1>1. j \in Invocations
  BY DEF InvocationOK, Invocations, RunPoints
<1>2. /\ j.pc = point /\ j.plan = i.plan
      /\ j.execute = i.execute /\ j.yes = i.yes /\ j.approved = i.approved
      /\ j.cached = i.cached /\ j.simulated = i.simulated
      /\ j.exit = i.exit /\ j.nonce = i.nonce /\ j.arg = i.arg
  BY DEF InvocationOK, Invocations
<1> HIDE DEF j
<1>3. InvocationOK(j)
  BY <1>1, <1>2, WriteAssumption DEF InvocationOK, Steps, Planned, Executed, Allowed, Sending
<1>4. QED
  BY <1>3 DEF j

-----------------------------------------------------------------------------
(* The steps of one invocation.                                             *)

\* The steps of an invocation other than the submission leave the cluster alone.
Quiet(r) ==
    \/ Start(r) \/ Probe(r) \/ Build(r) \/ Simulate(r) \/ Confirm(r)
    \/ Rebuild(r) \/ Answer(r) \/ Kill(r)

\* A quiet step takes its own invocation to a state InvocationOK describes and
\* changes nothing a transaction was sent with.
LEMMA QuietStep ==
    ASSUME Inv, NEW r \in Runs, Quiet(r)
    PROVE  \E j : /\ run' = [run EXCEPT ![r] = j]
                 /\ InvocationOK(j)
                 /\ Keeps(run[r], j)
<1>1. /\ InvocationOK(run[r]) /\ run[r] \in Invocations
      /\ onChain \in Contexts /\ now \in Nat
      /\ run \in [Runs -> Invocations]
  BY WriteAssumption DEF Inv, TypeOK
<1>2. CASE Start(r)
  <2>1. PICK command \in Commands, execute, yes \in BOOLEAN,
             arg \in ExplicitNonces \cup {None} :
          /\ command = "cancel" => arg # None
          /\ run' = [run EXCEPT ![r] =
                      [Fresh EXCEPT !.pc = IF command = "mint" THEN "probe" ELSE "build",
                                    !.command = command, !.execute = execute, !.yes = yes,
                                    !.arg = arg, !.nonce = ReadNonce(arg)]]
    BY <1>2, Zenon DEF Start
  <2> DEFINE j == [Fresh EXCEPT !.pc = IF command = "mint" THEN "probe" ELSE "build",
                                !.command = command, !.execute = execute, !.yes = yes,
                                !.arg = arg, !.nonce = ReadNonce(arg)]
  <2>2. ReadNonce(arg) \in Nat /\ (arg # None => ReadNonce(arg) = arg)
    BY <1>1, WriteAssumption DEF ReadNonce
  <2>3. InvocationOK(j)
    BY <2>2, WriteAssumption
    DEF InvocationOK, Invocations, Fresh, RunPoints, Commands, Planned, Executed, Allowed,
        Sending
  <2>4. Keeps(run[r], j)
    BY <1>2 DEF Start, Keeps, Sent
  <2>5. QED
    BY <2>1, <2>3, <2>4
<1>3. CASE Probe(r)
  <2>1. run[r].pc = "probe"
    BY <1>3 DEF Probe
  <2>2. /\ InvocationOK([run[r] EXCEPT !.pc = "build", !.cached = onChain])
        /\ InvocationOK([run[r] EXCEPT !.pc = "build"])
        /\ InvocationOK([run[r] EXCEPT !.pc = "done", !.exit = 2])
    BY <1>1, <2>1, Caches, Goes, Exits DEF Steps, RunPoints, Executed, Allowed, Codes
  <2>3. \E j \in {[run[r] EXCEPT !.pc = "build", !.cached = onChain],
                  [run[r] EXCEPT !.pc = "build"],
                  [run[r] EXCEPT !.pc = "done", !.exit = 2]} : run' = [run EXCEPT ![r] = j]
    BY <1>1, <1>3 DEF Probe, Goto, Fail
  <2>4. QED
    BY <2>1, <2>2, <2>3 DEF Keeps, Sent
<1>4. CASE Build(r)
  <2>1. run[r].pc = "build"
    BY <1>4 DEF Build
  <2>2. Context(r) \in Contexts
    BY <1>1 DEF Context, Invocations
  <2>3. /\ InvocationOK([run[r] EXCEPT !.pc = "simulate", !.cached = Context(r),
                                      !.simulated = Context(r)])
        /\ \A code \in {1, 2} : InvocationOK([run[r] EXCEPT !.pc = "done", !.exit = code])
    BY <1>1, <2>1, <2>2, Plans, Exits DEF Codes
  <2>4. \E j \in {[run[r] EXCEPT !.pc = "simulate", !.cached = Context(r),
                                 !.simulated = Context(r)],
                  [run[r] EXCEPT !.pc = "done", !.exit = 1],
                  [run[r] EXCEPT !.pc = "done", !.exit = 2]} : run' = [run EXCEPT ![r] = j]
    BY <1>1, <1>4 DEF Build, Fail
  <2>5. QED
    BY <2>1, <2>3, <2>4 DEF Keeps, Sent
<1>5. CASE Simulate(r)
  <2>1. run[r].pc = "simulate"
    BY <1>5 DEF Simulate
  <2>2. /\ InvocationOK([run[r] EXCEPT !.pc = "done", !.exit = 1])
        /\ \A code \in {1, 5} :
             InvocationOK([run[r] EXCEPT !.pc = "done", !.exit = code, !.printed = TRUE])
    BY <1>1, <2>1, Exits, Reports DEF Codes
  <2>3. /\ run[r].execute = TRUE => InvocationOK([run[r] EXCEPT !.pc = "confirm"])
        /\ run[r].execute = TRUE /\ run[r].yes = TRUE
             => InvocationOK([run[r] EXCEPT !.pc = "rebuild"])
    BY <1>1, <2>1, Goes DEF Steps, RunPoints, Executed, Allowed
  <2>4. \E j \in {[run[r] EXCEPT !.pc = "done", !.exit = 1],
                  [run[r] EXCEPT !.pc = "done", !.exit = 1, !.printed = TRUE],
                  [run[r] EXCEPT !.pc = "done", !.exit = 5, !.printed = TRUE],
                  [run[r] EXCEPT !.pc = "confirm"],
                  [run[r] EXCEPT !.pc = "rebuild"]} :
          /\ run' = [run EXCEPT ![r] = j]
          /\ InvocationOK(j)
    BY <1>1, <1>5, <2>2, <2>3 DEF Simulate, Goto, Fail, Report, Invocations
  <2>5. QED
    BY <2>1, <2>4 DEF Keeps, Sent
<1>6. CASE Confirm(r)
  <2>1. run[r].pc = "confirm"
    BY <1>6 DEF Confirm
  <2>2. /\ InvocationOK([run[r] EXCEPT !.pc = "rebuild", !.approved = TRUE])
        /\ InvocationOK([run[r] EXCEPT !.pc = "done", !.exit = 5, !.printed = TRUE])
    BY <1>1, <2>1, Approves, Reports DEF Codes
  <2>3. \E j \in {[run[r] EXCEPT !.pc = "rebuild", !.approved = TRUE],
                  [run[r] EXCEPT !.pc = "done", !.exit = 5, !.printed = TRUE]} :
          run' = [run EXCEPT ![r] = j]
    BY <1>1, <1>6 DEF Confirm, Report
  <2>4. QED
    BY <2>1, <2>2, <2>3 DEF Keeps, Sent
<1>7. CASE Rebuild(r)
  <2>1. run[r].pc = "rebuild"
    BY <1>7 DEF Rebuild
  <2>2. Context(r) = run[r].simulated
    BY <1>1, <2>1 DEF Context, InvocationOK, Planned
  <2>3. /\ InvocationOK([run[r] EXCEPT !.pc = "submit", !.plan = Context(r)])
        /\ \A code \in {1, 2} :
             InvocationOK([run[r] EXCEPT !.pc = "done", !.exit = code, !.printed = TRUE])
    BY <1>1, <2>1, <2>2, Replans, Reports DEF Codes
  <2>4. \E j \in {[run[r] EXCEPT !.pc = "submit", !.plan = Context(r)],
                  [run[r] EXCEPT !.pc = "done", !.exit = 1, !.printed = TRUE],
                  [run[r] EXCEPT !.pc = "done", !.exit = 2, !.printed = TRUE]} :
          run' = [run EXCEPT ![r] = j]
    BY <1>1, <1>7 DEF Rebuild, Report
  <2>5. QED
    BY <2>1, <2>3, <2>4 DEF Keeps, Sent
<1>8. CASE Answer(r)
  <2>1. run[r].pc = "answer"
    BY <1>8 DEF Answer
  <2>2. ASSUME NEW code \in {0, 1}
        PROVE  LET j == [run[r] EXCEPT !.pc = "done", !.exit = code, !.printed = TRUE]
               IN  InvocationOK(j) /\ Keeps(run[r], j)
    <3> DEFINE j == [run[r] EXCEPT !.pc = "done", !.exit = code, !.printed = TRUE]
    <3>1. InvocationOK(j)
      BY <1>1, <2>1, Reports DEF Codes
    <3>2. /\ j.pc = "done" /\ j.exit = code
          /\ j.execute = run[r].execute /\ j.yes = run[r].yes
          /\ j.approved = run[r].approved
          /\ j.simulated = run[r].simulated /\ j.nonce = run[r].nonce
      BY <1>1 DEF Invocations
    <3> HIDE DEF j
    <3>3. Keeps(run[r], j)
      BY <2>2, <3>2 DEF Keeps, Sent
    <3>4. QED
      BY <3>1, <3>3 DEF j
  <2>3. \E code \in {0, 1} :
          run' = [run EXCEPT ![r].pc = "done", ![r].exit = code, ![r].printed = TRUE]
    BY <1>8 DEF Answer, Report
  <2>4. \E code \in {0, 1} :
          run' = [run EXCEPT ![r] = [run[r] EXCEPT !.pc = "done", !.exit = code,
                                                   !.printed = TRUE]]
    BY <1>1, <2>3
  <2>5. QED
    BY <2>2, <2>4
<1>9. CASE Kill(r)
  <2> DEFINE j == [run[r] EXCEPT !.pc = "done", !.exit = Interrupted]
  <2>1. run[r].pc \notin {"start", "done"}
    BY <1>9 DEF Kill
  <2>2. InvocationOK(j)
    BY <1>1, <2>1, Exits DEF Codes
  <2>3. Keeps(run[r], j)
    BY <1>1, <2>1 DEF Keeps, Sent, Invocations, Interrupted
  <2>4. run' = [run EXCEPT ![r] = j]
    BY <1>1, <1>9 DEF Kill, Fail
  <2>5. QED
    BY <2>2, <2>3, <2>4
<1>10. QED
  BY <1>2, <1>3, <1>4, <1>5, <1>6, <1>7, <1>8, <1>9 DEF Quiet

-----------------------------------------------------------------------------
(* The inductive invariant.                                                 *)

\* The invocations satisfy their part of TypeOK when each of them is described by
\* InvocationOK.
LEMMA RunsTyped ==
    ASSUME NEW f, DOMAIN f = Runs, f = [r \in Runs |-> f[r]],
           \A r \in Runs : InvocationOK(f[r])
    PROVE  /\ f \in [Runs -> Invocations]
           /\ \A r \in Runs : /\ f[r].pc \in Planned => f[r].simulated # None
                              /\ f[r].pc = "done" <=> f[r].exit # None
BY DEF InvocationOK

\* The invariant holds of the processes before they start.
LEMMA InitInv == Init => Inv
<1> SUFFICES ASSUME Init PROVE Inv
  OBVIOUS
<1>1. Fresh \in Invocations
  BY DEF Fresh, Invocations, RunPoints, Commands
<1>2. InvocationOK(Fresh)
  BY <1>1 DEF InvocationOK, Fresh, Planned, Executed, Allowed, Sending
<1>3. \A r \in Runs : InvocationOK(run[r])
  BY <1>2 DEF Init
<1>4. /\ run \in [Runs -> Invocations]
      /\ \A r \in Runs : /\ run[r].pc \in Planned => run[r].simulated # None
                         /\ run[r].pc = "done" <=> run[r].exit # None
  BY <1>3, RunsTyped DEF Init
<1>5. TypeOK
  BY <1>4, WriteAssumption DEF Init, TypeOK
<1>6. QED
  BY <1>3, <1>5 DEF Init, Inv

\* An invocation that goes to a state InvocationOK describes leaves the rest of
\* the invocations as they were.
LEMMA OneMoves ==
    ASSUME Inv, NEW r \in Runs, NEW j, InvocationOK(j),
           run' = [run EXCEPT ![r] = j]
    PROVE  /\ run' \in [Runs -> Invocations]
           /\ run'[r] = j
           /\ \A o \in Runs \ {r} : run'[o] = run[o]
           /\ \A o \in Runs : InvocationOK(run'[o])
           /\ \A o \in Runs : /\ run'[o].pc \in Planned => run'[o].simulated # None
                              /\ run'[o].pc = "done" <=> run'[o].exit # None
<1>1. run \in [Runs -> Invocations] /\ \A o \in Runs : InvocationOK(run[o])
  BY DEF Inv, TypeOK
<1>2. run'[r] = j /\ \A o \in Runs \ {r} : run'[o] = run[o]
  BY <1>1
<1>3. \A o \in Runs : InvocationOK(run'[o])
  BY <1>1, <1>2
<1>4. QED
  BY <1>1, <1>2, <1>3, RunsTyped

\* A quiet step of an invocation preserves the invariant.
LEMMA QuietInv ==
    ASSUME Inv, NEW r \in Runs, Quiet(r)
    PROVE  Inv'
<1>1. PICK j : /\ run' = [run EXCEPT ![r] = j]
               /\ InvocationOK(j)
               /\ Keeps(run[r], j)
  BY QuietStep
<1>2. UNCHANGED cluster
  BY DEF Quiet, Start, Probe, Build, Simulate, Confirm, Rebuild, Answer, Kill
<1>3. TypeOK'
  BY <1>1, <1>2, OneMoves DEF Inv, TypeOK, cluster
<1>4. ASSUME NEW tx \in sent PROVE TransactionOK(tx, run'[tx.run])
  <2>1. TransactionOK(tx, run[tx.run]) /\ tx.run \in Runs
    BY DEF Inv, TypeOK, Transactions
  <2>2. CASE tx.run = r
    BY <1>1, <2>1, <2>2, OneMoves DEF TransactionOK, Keeps
  <2>3. CASE tx.run # r
    BY <1>1, <2>1, <2>3, OneMoves
  <2>4. QED
    BY <2>2, <2>3
<1>5. ASSUME NEW q \in pending PROVE RequestOK(q, run'[q.by])
  <2>1. RequestOK(q, run[q.by]) /\ q.by \in Runs
    BY DEF Inv, TypeOK, Requests
  <2>2. CASE q.by = r
    BY <1>1, <2>1, <2>2, OneMoves DEF RequestOK, Keeps
  <2>3. CASE q.by # r
    BY <1>1, <2>1, <2>3, OneMoves
  <2>4. QED
    BY <2>2, <2>3
<1>6. QED
  BY <1>1, <1>2, <1>3, <1>4, <1>5, OneMoves DEF Inv, cluster

\* A submission preserves the invariant: the transaction carries the plan that
\* was simulated and the nonce of its invocation, which has sent nothing before.
LEMMA SubmitInv ==
    ASSUME Inv, NEW r \in Runs, Submit(r)
    PROVE  Inv'
<1>1. /\ InvocationOK(run[r]) /\ run[r] \in Invocations
      /\ run \in [Runs -> Invocations] /\ onChain \in Contexts
      /\ run[r].pc = "submit"
  BY DEF Inv, TypeOK, Submit
<1>2. \A tx \in sent : tx.run \in Runs /\ tx.run # r
  BY <1>1 DEF Inv, TypeOK, Transactions, TransactionOK, Sent
<1>3. \A q \in pending : q.by \in Runs /\ q.by # r
  BY <1>1 DEF Inv, TypeOK, Requests, RequestOK, Sent
<1>4. UNCHANGED <<now, onChain, pending, landed>>
  BY DEF Submit
<1>5. CASE Report(r, 1) /\ UNCHANGED <<pool, sent>>
  <2> DEFINE j == [run[r] EXCEPT !.pc = "done", !.exit = 1, !.printed = TRUE]
  <2>1. InvocationOK(j)
    BY <1>1, Reports DEF Codes
  <2>2. run' = [run EXCEPT ![r] = j]
    BY <1>1, <1>5 DEF Report
  <2> HIDE DEF j
  <2>3. TypeOK'
    BY <1>4, <1>5, <2>1, <2>2, OneMoves DEF Inv, TypeOK
  <2>4. \A tx \in sent : TransactionOK(tx, run'[tx.run])
    BY <1>2, <2>1, <2>2, OneMoves DEF Inv
  <2>5. \A q \in pending : RequestOK(q, run'[q.by])
    BY <1>3, <2>1, <2>2, OneMoves DEF Inv
  <2>6. QED
    BY <1>4, <1>5, <2>1, <2>2, <2>3, <2>4, <2>5, OneMoves DEF Inv
<1>6. ASSUME NEW tx,
             tx = [run |-> r, command |-> run[r].command, nonce |-> run[r].nonce,
                   context |-> run[r].plan],
             Accepts(tx.command, tx.nonce, tx.context),
             pool' = pool \cup {tx}, sent' = sent \cup {tx}, Goto(r, "answer")
      PROVE  Inv'
  <2> DEFINE j == [run[r] EXCEPT !.pc = "answer"]
  <2>1. InvocationOK(j)
    BY <1>1, Goes DEF Steps, RunPoints, Executed, Allowed, InvocationOK
  <2>2. run' = [run EXCEPT ![r] = j]
    BY <1>1, <1>6 DEF Goto
  <2>3. TransactionOK(tx, j)
    <3>1. /\ j.pc = "answer" /\ j.exit = run[r].exit
          /\ j.execute = run[r].execute /\ j.yes = run[r].yes
          /\ j.approved = run[r].approved
          /\ j.simulated = run[r].simulated /\ j.nonce = run[r].nonce
      BY <1>1 DEF Invocations
    <3>2. tx.context = run[r].plan /\ tx.nonce = run[r].nonce
      BY <1>6
    <3> HIDE DEF j
    <3>3. QED
      BY <1>1, <3>1, <3>2, WriteAssumption
      DEF TransactionOK, InvocationOK, Sent, Sending, Executed, Allowed
  <2>4. tx \in Transactions /\ tx.run = r
    <3>1. run[r].plan \in Contexts
      BY <1>1 DEF InvocationOK, Invocations, Planned, Sending
    <3>2. run[r].command \in Commands /\ run[r].nonce \in Nat
      BY <1>1 DEF InvocationOK, Invocations
    <3>3. QED
      BY <1>6, <3>1, <3>2 DEF Transactions
  <2> HIDE DEF j
  <2>5. TypeOK'
    BY <1>4, <1>6, <2>1, <2>2, <2>4, OneMoves DEF Inv, TypeOK
  <2>6. \A u \in sent : TransactionOK(u, run'[u.run])
    BY <1>2, <2>1, <2>2, OneMoves DEF Inv
  <2>7. \A u \in sent' : TransactionOK(u, run'[u.run])
    <3>1. run'[tx.run] = j
      BY <2>1, <2>2, <2>4, OneMoves
    <3>2. TransactionOK(tx, run'[tx.run])
      BY <2>3, <3>1
    <3>3. QED
      BY <1>6, <2>6, <3>2
  <2>8. \A q \in pending : RequestOK(q, run'[q.by])
    BY <1>3, <2>1, <2>2, OneMoves DEF Inv
  <2>9. QED
    BY <1>4, <2>1, <2>2, <2>5, <2>7, <2>8, OneMoves DEF Inv
<1>7. QED
  BY <1>5, <1>6 DEF Submit

\* The steps of the cluster preserve the invariant: only Settle opens a request,
\* and only when no request with that nonce is open.
LEMMA ClusterInv ==
    ASSUME Inv, Cluster
    PROVE  Inv'
<1>1. ASSUME NEW tx \in pool, Settle(tx) PROVE Inv'
  <2>1. /\ UNCHANGED <<now, onChain, run, sent>> /\ pool' \subseteq pool
        /\ landed' \subseteq landed \cup {tx}
    BY <1>1 DEF Settle
  <2>2. tx \in Transactions /\ TransactionOK(tx, run[tx.run])
    BY DEF Inv, TypeOK
  <2> DEFINE new == [nonce |-> tx.nonce, by |-> tx.run, expired |-> FALSE]
  <2>3. \/ pending' \subseteq pending
        \/ /\ pending' = pending \cup {new}
           /\ \A q \in pending : q.nonce # tx.nonce
    BY <1>1 DEF Settle, Accepts
  <2>4. new \in Requests /\ RequestOK(new, run[new.by]) /\ new.nonce = tx.nonce
    BY <2>2 DEF Requests, Transactions, RequestOK, TransactionOK
  <2> HIDE DEF new
  <2>5. TypeOK'
    BY <2>1, <2>3, <2>4 DEF Inv, TypeOK
  <2>6. /\ \A q \in pending' : RequestOK(q, run[q.by])
        /\ \A p, q \in pending' : p.nonce = q.nonce => p = q
    BY <2>3, <2>4 DEF Inv
  <2>7. QED
    BY <2>1, <2>5, <2>6 DEF Inv
<1>2. ASSUME NEW tx \in pool, Expire(tx) PROVE Inv'
  BY <1>2 DEF Expire, Inv, TypeOK
<1>3. ASSUME NEW q \in pending, Lapse(q) PROVE Inv'
  <2> DEFINE new == [q EXCEPT !.expired = TRUE]
  <2>1. /\ UNCHANGED <<now, onChain, run, pool, sent, landed>>
        /\ pending' = (pending \ {q}) \cup {new}
    BY <1>3 DEF Lapse
  <2>2. q \in Requests
    BY DEF Inv, TypeOK
  <2>3. new \in Requests /\ new.nonce = q.nonce /\ new.by = q.by
    BY <2>2 DEF Requests
  <2> HIDE DEF new
  <2>4. TypeOK'
    BY <2>1, <2>3 DEF Inv, TypeOK
  <2>5. /\ \A p \in pending' : RequestOK(p, run[p.by])
        /\ \A p, o \in pending' : p.nonce = o.nonce => p = o
    BY <2>1, <2>3 DEF Inv, RequestOK
  <2>6. QED
    BY <2>1, <2>4, <2>5 DEF Inv
<1>4. ASSUME NEW q \in pending, Fulfil(q) PROVE Inv'
  BY <1>4 DEF Fulfil, Inv, TypeOK
<1>5. ASSUME NEW c \in Contexts, Rotate(c) PROVE Inv'
  BY <1>5 DEF Rotate, Inv, TypeOK
<1>6. CASE Tick
  BY <1>6, WriteAssumption DEF Tick, Inv, TypeOK
<1>7. QED
  BY <1>1, <1>2, <1>3, <1>4, <1>5, <1>6 DEF Cluster

\* Every step preserves the invariant.
LEMMA NextInv == Inv /\ [Next]_vars => Inv'
<1> SUFFICES ASSUME Inv, [Next]_vars PROVE Inv'
  OBVIOUS
<1>1. ASSUME NEW r \in Runs, Invocation(r) PROVE Inv'
  BY <1>1, QuietInv, SubmitInv DEF Invocation, Quiet
<1>2. CASE Cluster
  BY <1>2, ClusterInv
<1>3. CASE UNCHANGED vars
  BY <1>3 DEF vars, Inv, TypeOK
<1>4. QED
  BY <1>1, <1>2, <1>3 DEF Next

\* Inv holds in every state a behaviour reaches.
LEMMA Invariance == Spec => []Inv
BY InitInv, NextInv, PTL DEF Spec

-----------------------------------------------------------------------------

\* An invocation is always in a state runWriteFlow has, and has an exit code
\* exactly when it has ended.
THEOREM TypeCorrect == Spec => []TypeOK
<1>1. Inv => TypeOK
  BY DEF Inv
<1>2. QED
  BY <1>1, Invariance, PTL

\* Whatever reached the cluster was asked for with --execute and approved with
\* --yes or at the prompt.
THEOREM ApprovalPrecedesSending == Spec => []OnlyApprovedIsSent
<1>1. Inv => OnlyApprovedIsSent
  BY DEF Inv, TransactionOK, OnlyApprovedIsSent
<1>2. QED
  BY <1>1, Invariance, PTL

\* What is sent is what was simulated, however often the config rotates in between.
THEOREM RebuiltAsSimulated == Spec => []SentAsSimulated
<1>1. Inv => SentAsSimulated
  BY DEF Inv, TransactionOK, SentAsSimulated
<1>2. QED
  BY <1>1, Invariance, PTL

\* Retries with one explicit nonce never hold more than one request between them.
THEOREM RetryHoldsOnce == Spec => []OneEscrowAtATime
<1>1. Inv => OneEscrowAtATime
  <2> SUFFICES ASSUME Inv, NEW p \in pending, NEW q \in pending,
                      run[p.by].arg # None, run[p.by].arg = run[q.by].arg
               PROVE  p = q
    BY DEF OneEscrowAtATime
  <2>1. ASSUME NEW o \in pending, run[o.by].arg # None
        PROVE  o.nonce = run[o.by].arg
    BY <2>1 DEF Inv, TypeOK, Requests, RequestOK, InvocationOK, Sent
  <2>2. p.nonce = q.nonce
    BY <2>1
  <2>3. QED
    BY <2>2 DEF Inv
<1>2. QED
  BY <1>1, Invariance, PTL

\* An invocation that ends as refused, or as a usage error, has sent nothing.
THEOREM RefusalSendsNothing == Spec => []RefusedSentNothing
<1>1. Inv => RefusedSentNothing
  BY DEF Inv, TransactionOK, RefusedSentNothing
<1>2. QED
  BY <1>1, Invariance, PTL

=============================================================================
