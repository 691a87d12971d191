# Formal model of the POYZ SDK

TLA+ modules, TLC runs and TLAPS proofs for the code under `src/packages`: the
insurance-buffer policy (`risk-buffer`), the client library (`sdk`) and the
command line with its GitHub Action (`cli`). The on-chain program, the status API
and the cluster are not in the repository; they appear only as the environment
of the code that talks to them, and every such definition is marked external in
`PROJECT.json`.

## 1. The system

| component | state it keeps | operations | made correct by |
| --- | --- | --- | --- |
| stage ladder (`playbook.ts`) | none; its caller keeps the stage | `selectBufferStage`, `nextStage`, `negativeFundingPlaybook` | tightening at once, easing slowly, no flapping, no posture lost |
| ledger (`accounting.ts`) | balance and covered supply, passed by value | `applyBufferFlows`, `canDrawFromBuffer` | no loss vanishes; first loss first; the target is kept for stress |
| carry gate (`carry-gate.ts`) | none; its caller keeps whether it was closed | `evaluateCarryGate` | fails closed; admits only with runway; reopens only with margin |
| depletion, wipeout, scenarios (`depletion.ts`, ...) | none | estimates over one book | arithmetic |
| delta read (`client.ts`, `chain.ts`, `api.ts`) | nothing between two reads | `getDelta` over chain, API or both | one reading is one instant of one source; gaps stay gaps |
| delta monitor (`delta.ts`, `action.yml`, `summarize.mjs`) | one job | reading -> exit code -> verdict | green means measured inside; a drift is caught |
| keeper loop (`keeper.ts`, `context.ts`) | abort flag, breach seen, last reading missing | probe, prompt, read, judge, sleep, Ctrl-C | a breach reaches the exit code; the loop stops when told |
| write flow (`requests.ts`, `write.ts`, `client.ts`) | per process: the cached protocol config | build, simulate, confirm, build again, sign, send | only what was simulated and approved is sent; a retry does not escrow twice; a refusal means nothing was sent |
| proof chain (`proof.ts`, `getRebalances`) | none | page, hash, link | an honest page is never accused, an altered record always shows |
| instructions (`instructions.ts`, `pda.ts`, `borsh.ts`) | none | sixteen builders, derivations, integer writer | what the program accepts is what the caller meant |
| accounts (`accounts.ts`) | none | six decoders | what was stored is what is read |
| session (`client.ts`) | the cached config | context, build, send, read back | an outdated context is refused or harmless; nobody's funds wait for a restart |
| status page (`status.ts`, `getStats`, `probeConfig`) | nothing between two runs | two reads side by side, four calls | a caught failure leaves what was read, what the chain did not give is explained, one config per delta |
| `venue list` (`venue.ts`) | none | one read, one exit code | halted issuance is not reported as healthy |
| quotes, simulation summaries, units, signer | none | conversions | arithmetic |

How they meet. The CLI builds one `PoyzClient` per process; the client owns an
API client, a chain client and one cached config. Reads are sequences of awaited
calls to two services that change independently. Writes build a plan, simulate
it, ask, build it *again* in `send`, and print everything at the end. The keeper loop shares an
`AbortController` with its SIGINT handler. The risk-buffer functions are pure, so
all their history (the stage, the closed gate) lives in whoever calls them, and
nothing forces the caller to call them in a particular order. The instruction builders and
the account decoders meet the on-chain program through the IDL, which the SDK
carries as data (`generated/idl.ts`) and writes its accounts and fields by hand
against.

What is hard here, and hardly reachable by the repository's unit tests: calls on
stale arguments (a stage chosen before the book moved), history-dependent rules
over long sequences, two-call reads torn by a commit in between, fallbacks that
change the meaning of a value, an abort at any of three points of a loop, an
exception skipping an exit code, an answer lost after the effect, a process killed
while it waits, a context that outlives the config it was read from, hand-written
layouts where a swap still type-checks, a page of records with holes. Each is listed
at its line under `hazards` in `PROJECT.json`, with the properties about it.

## 2. The modules

| module | models |
| --- | --- |
| `BufferPolicy` | the decision functions of `risk-buffer` as operators, with the conditions the code throws on as assumptions |
| `DefensivePosture` | abstract specification: the posture follows the implied one down at once and up by bounded steps |
| `StageHysteresis` | `nextStage` driven by a coverage that moves freely between calls |
| `RiskBuffer` | ledger, draws, stage and mint gate over one book, in any order |
| `BufferCallers` | the two callers of `risk-buffer` composed: one that holds a coverage, one that holds a book |
| `DeltaSource` | one `getDelta`, step by await, against a book, a chain and an API that move |
| `DeltaAction` | `poyz delta` and the Action, job after job, over `DeltaSource` |
| `KeeperRun` | `poyz keeper run` over `DeltaSource` |
| `WriteFlow` | `poyz mint` and `poyz mint cancel`, several invocations against one cluster |
| `ProgramInterface` | the IDL: account slots and arguments of sixteen instructions, layouts of six accounts |
| `ClientInstructions` | the builders, the derivations and the integer writer |
| `AccountDecoders` | the decoders, as cursors over the IDL's layouts |
| `ProtocolSession` | one client building, sending and reading back against the program; `venue list` |
| `ProofChain` | reading a page of proofs and verifying it, against a growing log and a node that leaves out or alters |
| `StatusScreen` | `poyz status`, await by await |
| `PoyzClient` | the four uses of a client composed: delta, session, proofs, status |
| `*Proofs` | the theorems, see section 5 |
| `MC*` | constants for TLC |

Definitions carrying a `Mutant:` comment are not part of a specification: each is
a plausible bug of the operator that follows it, and shows that some property
notices it.

**Stage and ledger.** A stage is its severity rank, 0 (`backing_only`) to 4
(`healthy`). Ratios are pairs of integers and comparisons are cross-multiplied,
so `fraction <= 0.75` becomes `100 * num <= 75 * den`: the exact comparison the
float approximates. Dollar amounts are integers in buffer units. The three
first-loss draw purposes, the inflow classes and the outflow classes are each one
class, because the code sums or treats them alike. A carry observation is in bps
per day, a restatement the code does first. `RiskBuffer` keeps as variables what
the callers of the pure functions must keep: balance and supply (`BufferState`),
stage, current observation, `previouslyBlocked`. `passedThrough` and `posted`
are history.

**Delta reading.** `pc` names the await a read stands at. `ReadConfig` fixes the
counter and the bands (`snapshot`), `ReadProof` fetches the counted proof,
`ReadApi` is the fallback or the only source. A failing RPC call or a missing
account becomes an unavailable reading (`chainFailure`); account data too short
for its layout throws a `RangeError`, which does not (`DecodeThrows`). A reading
keeps its source, availability, deviation and threshold; the other fields of
`DeltaStatusView` decide nothing. The environment may move the book (`Drift`),
change the band (`Retune`), commit a proof (`Rebalance`, only inside the exit
band, which is what `chain.ts` says the program enforces) and publish
(`Publish`) between any two steps.

**Keeper loop.** One action per await, plus `Interrupt`, possible whenever the
handler is registered. The read is not given the signal, so it runs on.
`Escape` is the path through `finally` and `mapError`.

**Write flow.** Each invocation has its own record. Two plans of one command
differ only in the nonce and in the addresses taken from the config (`context`),
so that is all a transaction carries. `Context` is `getChainContext` over the
cached config. `Fail` is an error that leaves `runWriteFlow` and is printed alone
by `runCli`; `Report` ends a run with the `CliResult` that holds banner, plan and
simulation, which `main` prints then and not before (`printed`). `Kill` is
Ctrl-C, for which these commands register no handler; a process that is waiting
for an answer dies without taking back what it sent. The submission may fail, the
transaction may be taken and the answer lost, and a taken transaction may land,
fail or expire at any later time. `pending` holds the request accounts: opened by
a mint that executes, marked expired when the deadline passes, closed by a cancel
or by a keeper's confirmation, as the IDL's account documentation says. Argument
errors found before the client exists end a run with exit 2 and touch nothing;
they are left out. `poyz redeem` and its cancel are the same two commands with the
other token, and stake, unstake, claim and the keeper's bond commands use the same
flow without a request account. A mint names the oracle of its context and is
refused when that is no longer the config's; a cancel names no address that changes.

**Instructions and accounts.** An address is a term: a wallet, a program, a PDA over
its seeds or an associated token account, equal exactly when the 32-byte keys are.
Argument data is the sequence of typed values written, and `Fits` is the writer's
range check over `Width`, the integers of each type. `ProgramInterface` gives every
account slot what Anchor checks of it (signer, writable, derived from which seeds,
held by which account). A decoder is a sequence of typed reads. The cursor stands
behind the discriminator and the bytes of the fields read before (`Offsets`);
`FieldRead` is what the program has stored there, `Garbage` if a field of another
type lies there or none begins there. `View` is what the decoder makes of an
account, with `Never` for a zero or a system program that becomes `null`.

**Session.** `Plans` is what building every call comes to on every context the
client may hold; `Received` is a transaction as the program reads it, accounts by
slot and arguments by name, and `Located` its checks under the current config; both
are computed once. `Send` is a command: the call is built on the cached context
(`ContextOracle`, read first if there is none) and the program refuses it or
executes it: requests with their
deadline, cancel only past it, confirm only until it and only by a bonded keeper,
stake, unstake with its cooldown, keeper bonds, commits and venue reports. The
program's part is external: what it checks of accounts is the IDL's word, what it
does is taken from the IDL's documentation, `instructions.ts` and `types.ts`, and
only as far as accounts that are read back show it. Balances of tokens, funding,
the carry gate and the supply cap are not in it. `SetOracle` repoints the oracle at
any time, `Restart` is a new process, `Pass` moves the chain's clock; the local
clock is ahead of it by any of `Leads`.

**Proofs.** `CountProofs` and `FetchWindow` are the two calls of `getRebalances`:
the page ends below the counter, has at most `PageSize(limit)` records, and lacks
whatever accounts the node does not have. `FetchAltered` is the same answer with one
record changed in any one part, its digest kept or recomputed. `hashMatches`,
`Predecessors` and `linksToPrevious` are `verifyProof` and `verifyProofChain`. The
digest is a term over the fields that `proof.ts` lists, the program's over those it
stores, so a field forgotten on one side shows.

**Status page.** `stats.at` names the await of `getStats`, `heard` the metrics that
have a value, `notes` the explanations; `probe` is `probeConfig`, which runs beside
it. Any call may answer, have nothing or fail. `getStats` catches `PoyzChainError`
only: account data too short for its layout throws a `RangeError` past it, which
rejects the `Promise.all` of the command. `PageRejected` is that end: an error is
printed, there is no page, and everything either half had read is discarded.

**Composition.** `risk-buffer` has no state, so its modules have the state of whoever
calls it. `BufferCallers` is either of two: a monitor that is told a coverage and keeps
a stage over it (`StageHysteresis`), or an operator that keeps the whole book
(`RiskBuffer`). Each takes its own steps and what it does not hold stands still. The
dispatcher runs one command per process, and a command uses one part of the client.
`PoyzClient` starts in any of the four uses and takes that part's steps; the parts share
no state, so the others stand still, in one state (`AtRest`) to keep TLC from
multiplying them.

## 3. What TLC checks

| run | checks | states |
| --- | --- | --- |
| `buffer_callers` | the composition `BufferCallers`: types. Monitor: no flapping and the history it rests on, recovery and decline complete, refinement of `DefensivePosture`. Operator: conservation of losses, first loss, target kept, reopening margin, empty supply final, refinement | 41 298 |
| `two_step_easing` | expected violation, see section 6 | |
| `mint_dilution` | expected violation | |
| `delta_action` | the composition `PoyzClient`. Monitor: one instant, green means measured inside, chain failures need a wide band, drift caught through the API. Session: executed as meant, fresh context resolves, exits survive rotation, found as stored, cancellable reads expired, stale venue reading listed. Proofs: untouched never flagged, alteration flagged, rehashed record breaks the link. Status: one config, chain gaps noted, caught failures lose nothing | 221 032 |
| `action_promise` | expected violation | |
| `keeper_run` | types, exit 0 never hides a breach, nothing read after Ctrl-C, stops when told | 596 280 |
| `keeper_help` | expected violation | |
| `write_flow` | types, only approved sent, sent as simulated, one escrow per explicit nonce, refused runs sent nothing | 280 684 (with symmetry) |
| `confirmed_exit` | expected violation | |
| `printed_first` | expected violation | |
| `venue_list` | expected violation, over `ProtocolSession` alone | |
| `status_thrown` | expected violation, over `StatusScreen` alone | |

Bounds and why they are enough:

* Ladder, in `buffer_callers` and `two_step_easing`: coverages on, just below and just
  above every trigger and every easing edge (trigger plus margin), which are the only
  points `nextStage` compares with. No other bound.
* Book, in `buffer_callers` and `mint_dilution`: `MaxSupply = 2` gives empty, one-unit
  and diluted books; `TargetPerUnit = 20` makes one buffer unit five points of target,
  so every stage and the easing margin are reached; `Amounts` has nothing, small steps
  and one that empties the buffer; `Carries` lies below the floor, on it, within the
  reopening margin and above. `MaxBalance` and `MaxLoss` cap the history in the guards.
* `delta_action`, `keeper_run`: two bands, deviations inside and outside each,
  proof chains of up to `MaxProofs` (2 and 1), so that a commit can fall between
  the two calls of a read. `Limit` lies between the two exit bands.
  As a use of the client in `delta_action` the
  monitor leaves the API's threshold unpublished because no property of
  the Action reads it; `keeper_run` has it published or not.
* Session: one user, one keeper and the authority are all the roles an instruction
  has; two oracles make a context current or outdated. `Width` is u8 `0..1`, u64
  `0..3`, i32 `-1..1`, so that an amount of 4 is out of range while 0, refused by
  the builders, and 1 are in it. `Given` has the default token account and an
  explicit one where a builder takes it. `MaxRecords = 2` accounts beside the config
  (a keeper and a request or proof, two requests), `MaxHolding = 1`, `MaxCommits = 1`
  and a clock up to `MaxClock = 3` with TTL, cooldown and venue age of 1, which has
  every deadline before, at and after the clock. Every pair of plan and config is
  looked at in every state, so the reachable states only have to have each relation
  of cached to current oracle and each kind of account. Nobody needs a second user:
  addresses of two users differ by construction.
* Proofs: `MaxLog = 3` and `MaxPage = 3` with limits 0, 2 and 9 have pages that are
  clamped from below and from above, start at the first proof or not, and have holes
  at each end and in the middle; two figures, so that every field can differ.
* Status: `MaxSettled = 2` lets a rebalance fall between any two of the calls, before
  the first proof and after it.
* `write_flow`: two invocations are enough for every race, retry or cancellation
  between two runs; two contexts, one explicit nonce and a clock of two values, so that
  generated nonces may collide or differ. Invocations and contexts are
  interchangeable, and no property is temporal there, so symmetry is sound.

`keeper_run` and `keeper_help` switch deadlock checking off because a run ends;
all other runs check it. In `delta_action` all four uses go on for ever: jobs, commands,
pages and status screens follow one another.

Fairness. `StageHysteresis`: the caller keeps reassessing (weak fairness of
`ReassessLadder`); coverage may stop moving. `BufferCallers` has that for a monitor
and none for an operator, whose properties are all safety. `DeltaAction`: the schedule starts jobs
and each call answers or times out (weak fairness of the job's steps; every RPC
call and fetch in the code returns or fails), and the indexer keeps publishing,
which includes publishing that it has nothing. Nothing makes a keeper commit a
proof. `KeeperRun`: reads answer or fail, timers fire; nobody has to answer the
prompt or press Ctrl-C. `WriteFlow` needs none. `PoyzClient` has the fairness of
`DeltaAction` for a process that runs the delta command (`Fairly`), and none for the
other uses, whose properties are all safety.

## 4. Abstract specification

`DefensivePosture` has two variables, the posture in force and the implied one,
and three steps: drift, tighten, ease. `StageHysteresis` and `RiskBuffer` both
implement it (`LadderFollowsPosture` and `FollowsPosture`), the implied posture being
`SelectStage` of the current coverage, and in `RiskBuffer` the held stage itself
when the supply is zero and coverage has no value. TLC checks the refinement on
the instances above and TLAPS proves it.

## 5. What TLAPS proves

All theorems hold for every value of the constants the named assumptions admit:
ordered integer thresholds, integer margin, at least one easing step, positive
target, positive runway, natural reopening margin (what the code throws on
otherwise), natural amounts and bounds, and for a session integer amounts and
nonces and a clock that starts at 1. Nothing is assumed of how wide an integer type is,
or of how many users, keepers, oracles and token accounts there are, except that the
token account a builder derives by default is among them. `DecoderAssumption` says
that `Garbage` is no field name and `Never` no number.

* `BufferPolicyProofs`: what each operator returns. `SelectStage` and `NextStage`
  stay on the ladder, `NextStage` adopts lower and climbs boundedly, easing
  clears the margin, `ApplyFlows` conserves, `GrantedDraw` is bounded by the
  request and the balance and leaves the target alone.
* `RiskBufferProofs`: types, conservation, first loss, discretionary draws,
  reopening, empty supply, refinement. `TypeOK` is the inductive
  invariant of all of them (a non-negative balance is what the arithmetic
  needs), together with one lemma per operation on how it moves the ledger.
* `BufferCallersProofs`: the ladder and the composition. *Ladder*: types; with
  `MaxEaseSteps = 1`, `EasedPastTheEdge` and from it `NoFlap`; refinement. The inductive
  fact is that a stage reached by easing was reached above its own lower edge by the
  margin; that needs one-rung easing, because `nextStage` compares with the edge of the
  rung it leaves and only for one rung is this the lower edge of the rung it enters.
  *Composition*: a step of either caller is, for the ladder and for the book, a step of
  theirs or a stutter (`CallersStep`), so `CallersSpec` implies both specifications and
  every invariant and action property that the run `buffer_callers` checks holds of the
  callers (`CallersTypes`, `CallersAreSafe`, `CallersDoNotFlap`).
* `WriteFlowProofs`: types and the four safety properties, for any number of
  invocations, contexts and nonces. The inductive invariant describes every
  invocation on its own (`InvocationOK`), every transaction by what its
  invocation had (`TransactionOK`), every open request by the invocation that
  opened it (`RequestOK`), and says that open requests have distinct nonces.
  `SentAsSimulated` needs the part that from the moment a plan is simulated the
  cache holds its context, so that building it again can only give the same one.

* `DeltaActionProofs`: types, `OneInstant` and the two verdict properties, for any
  deviations and bands and any number of proofs. `ReadingInv` says that an available
  reading stands at the judge and, if it is the chain's, is the counted proof and
  the band of the snapshot; the chain only grows, so it stays so. `AttestedInv`
  says that every proof is inside the widest exit band there has been.
* `KeeperRunProofs`: types, `CleanExitMeansNeverFlagged`, `NothingStartsAfterCtrlC`.
  `LoopInv`: the flag `breachSeen` is the history of what was emitted, and an
  aborted run has one observation left unless it sleeps or has ended.
* `ProtocolSessionProofs`: types and the six properties of a session, in three parts.
  *Reading.* A decoder reads the fields its account begins with, types included, so
  its cursor stands where the field of that name begins (`DecodersReadPrefixes`,
  `SameOffsets`); offsets grow strictly (`OffsetsGrow`), so no other field begins
  there, and what is read is what was stored (`FieldReadIsItself`, `ViewShowsStored`).
  *Building.* One lemma per builder says that the transaction has the shape of its
  interface, carries what was meant and has every account where the interface derives
  it (`Sound`). For the five instructions that name the oracle this needs the current
  one; for the others, every exit among them, it holds under any config, which is all
  that `ExitsSurviveRotation` needs of the builders. *Executing.* The inductive
  invariant `SessionInv` says of every account held that it lies at the address its own
  fields give, has the fields of its kind and, if it is a request or a stake, belongs
  to a user and carries a nonce that the client can name again. Neither
  `FoundAsStored` nor `ExitsSurviveRotation` is inductive without it: both speak of
  accounts that other commands opened long before.
* `PoyzClientProofs`: the proof chain, the status page and the composition. *Proof
  chain*: types and the three properties, for a log, a page and limits of any size and
  any figures. The log is a chain (record n has sequence n - 1, the hash before it and
  its own digest); a page is distinct records of it, newest first, all but one as they
  are in the log (`PageOf`). Sorting then makes a record's predecessor the one before it
  in the log exactly when that is in the page. *Status page*: types and the three
  properties. `getStats` passes its awaits once, in order, so a config is held exactly
  from the second one on (`StatsOK`), and `probeConfig` holds none before its answer;
  what is kept is proved of every failure but the one that rejects the page.
  *Composition*: a step of the process is, for each of its parts, a step of that part or
  a stutter (`PartsStep`), so `ClientSpec` implies the specifications of the delta
  monitor, the session, the proof chain and the status page, and every invariant and
  action property that the run `delta_action` checks holds of the process
  (`ClientTypes`, `ClientIsSafe`, `ClientStepsAreSafe`).

Every invariant and every action property of the passing runs is proved. Only
model-checked are the liveness properties (`RecoveryCompletes`, `DeclineIsNotLost`,
`ApiDriftIsCaught`, `StopsWhenTold`), because fairness is outside the prover. The
refinements of `DefensivePosture` are proved for its safety part, which is all it has.
The properties of the runs that end in a violation are refuted by TLC.

## 6. Where the code and its words differ

Eight runs end in a violation on purpose. Each states what a comment, a help text
or a metadata file says:

* `two_step_easing`: the comment on `nextStage` promises no flapping for every
  policy; with `maxEaseStepsPerTransition` of 2 the stage eased into may be lost
  at once.
* `mint_dilution`: the header of `carry-gate.ts` says an admitted regime leaves
  `min_runway_days`; the gate looks at the book before the mint, which dilutes.
* `action_promise`: the Action promises to fail on a drift; with its default
  source it reads the last attested proof, inside the band by construction.
* `keeper_help`: the help promises exit 4 for any breach; an error escaping a
  later read makes it 1.
* `confirmed_exit`: the comment on `runWriteFlow` ties exit 0 to a confirmation
  the SDK never waits for.
* `printed_first`: the header of `write.ts` and the CLI's README say plan and
  simulation are shown before anything is sent or signed; they are returned, and
  printed when the run is over. The prompt is answered without them, and a run
  killed during the send leaves a request whose generated nonce was never shown.
* `venue_list`: the comment on the exit code of `venue list` calls a missing reading
  halted issuance; before the first report the age is null, nothing is compared and
  the exit code is 0.
* `status_thrown`: the header and the notes of `poyz status` say that one half being
  unavailable leaves the other on screen. A config or proof account too short for its
  layout throws past `getStats` and takes the page with it, the metrics the API had
  answered included. Failures that are caught do keep the promise
  (`CaughtFailuresLoseNothing`).

## 7. What is not modelled

Float rounding, decimal and USD conversions, quotes and units; the bytes under a
hash or an address; parsing, rendering, configuration and key files; blockhashes and
signatures; errors, events and the administrative instructions of the IDL, and the
venue table; wipeout and scenario tables; build scripts. `funding` and `simulate`
make one read and render it, and `getFunding` and `getCollateral` have the two
branches of `getDelta`.

Limits of what is:

* `OneEscrowAtATime` speaks of explicit nonces and of open requests only. Without
  `--nonce` a retry takes a new nonce from the clock and may open a second request;
  and a retry that arrives after the first request was confirmed or cancelled opens
  it again, since its account is closed by then. The model has both behaviours, and
  the code claims nothing about either.
* The properties of the proof chain say what a reader can conclude. The newest
  record of a page has nothing that vouches for it, so one that is altered and
  rehashed passes; a rehashed record with another sequence shows only as a gap.
* `CancellableReadsExpired` and `StaleReadingIsListed` hold for a local clock that
  is not behind the chain's. One that is ahead shows a request as expired early.
* In `ProtocolSession` the program has no carry gate, supply cap, token balance,
  quote or slashing, and the least bond is one unit; `claim_funding` and
  `buffer_deposit` are built and checked for accounts and arguments, but move
  nothing that is read back.
* `StatusScreen` does not tell a metric the API has not published from one it failed
  to serve: `getStats` notes the first and is silent about the second, and no text of
  the repository settles which gaps must be noted beyond "`notes` explains each gap".

## 8. Plan

Done: the policy, the delta reading and its two users, the write flow, requests and
their deadlines, instructions and accounts against the IDL, the proof chain, the
status page. Left, in order:

1. Pure operators against reference definitions: the integer carry gate against the
   exact one, the retired four-stage selector, wipeout, depletion, quotes.
2. `WriteFlow` on the plans of `ClientInstructions`, with the two program sides made
   one, and the write commands without a request (stake, bond) in it.
3. Two reads of one client in flight at once (`getRebalances` against `getConfig`
   with refresh) and which of them the cache keeps.
