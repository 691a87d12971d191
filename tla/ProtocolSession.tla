-------------------------- MODULE ProtocolSession --------------------------
(***************************************************************************)
(* A process with one PoyzClient, against the program: it reads the config *)
(* once, builds every instruction on what it read, and reads accounts back,*)
(* while the authority may repoint the oracle, deadlines pass and other    *)
(* processes do the same.                                                  *)
(*                                                                         *)
(* The program is not in this repository.  What it checks of a transaction *)
(* is taken from the IDL (Located); what an instruction does is taken from *)
(* the words of the IDL, instructions.ts and types.ts, and only as far as  *)
(* the accounts read back show it.                                         *)
(***************************************************************************)
EXTENDS AccountDecoders, FiniteSets

CONSTANTS
    Users, Keepers,       \* wallets
    Nonces,               \* request ids
    Amounts,              \* amounts given, those a builder refuses included
    Notionals,            \* the same, of what a keeper reports
    Hashes,               \* proof hashes
    Signed,               \* signed basis points
    Oracles,              \* price accounts the config may name
    Given,                \* explicit token accounts, Default included
    MaxRecords,           \* bound on the program accounts beside the config
    MaxCommits,           \* bound on committed proofs
    MaxHolding,           \* bound on a stake and on a bond
    MaxClock,             \* bound on the chain's clock
    Ttl, Cooldown,        \* request_ttl_sec, unstake_cooldown_sec
    MaxVenueStateAge,     \* max_venue_state_age_sec
    Leads                 \* by how much Date.now() may be ahead of the chain's clock

ASSUME SessionAssumption ==
    /\ Nonces \subseteq Int /\ Amounts \subseteq Int /\ Notionals \subseteq Int
    /\ Signed \subseteq Int /\ Leads \subseteq Nat
    /\ {MaxRecords, MaxCommits, MaxHolding, MaxClock, Ttl, Cooldown, MaxVenueStateAge}
           \subseteq Nat
    /\ MaxClock >= 1
    /\ Default \in Given

VARIABLES
    oracle,               \* config.oracle
    rebalanceCount,       \* config.rebalance_count
    venueStateAt,         \* config.venue_state_at, 0 before the first report
    clock,                \* the chain's clock
    held,                 \* the program's other accounts, by address
    cached                \* the oracle of the client's cached config, or Never

sessionVars == <<oracle, rebalanceCount, venueStateAt, clock, held, cached>>

PoyzProgram == Program("poyz")

-----------------------------------------------------------------------------
(* The config as stored, as decoded, and the context made of it.            *)

\* An account of which every field has a value of its own.
Blank(kind) ==
    [f \in {Layout[kind][n][1] : n \in DOMAIN Layout[kind]} \cup {"kind"} |->
        IF f = "kind" THEN kind
        ELSE LET n == CHOOSE n \in DOMAIN Layout[kind] : Layout[kind][n][1] = f
             IN  IF Layout[kind][n][2] \in {"pubkey", "hash"} THEN <<"account", f>> ELSE n]

BlankOf == [kind \in Kinds |-> Blank(kind)]

StoredConfig(o, count, reportedAt) ==
    [BlankOf["Config"] EXCEPT
        !.oracle = o, !.rebalance_count = count, !.venue_state_at = reportedAt,
        !.max_venue_state_age_sec = MaxVenueStateAge, !.guardian = SystemProgramId,
        !.pending_authority = SystemProgramId, !.negative_funding_since = 0]

chainContext(config) ==
    [programId      |-> PoyzProgram,
     config         |-> deriveVault("config", PoyzProgram),
     collateralMint |-> config.collateral_mint,
     syntheticMint  |-> config.synthetic_mint,
     bondMint       |-> config.bond_mint,
     oracle         |-> config.oracle,
     tokenProgram   |-> config.token_program]

ContextOf == [o \in Oracles |-> chainContext(View("Config", StoredConfig(o, 0, 0)))]

\* getChainContext over getConfig: cached after the first read.
ContextOracle == IF cached = Never THEN oracle ELSE cached

-----------------------------------------------------------------------------
(* Everything the client may be asked to build.                             *)

VenueIds == {0, 1}

Authority == BlankOf["Config"].authority

Parameters ==
    [mint_request    |-> [user : Users, nonce : Nonces, collateral_amount : Amounts,
                          min_synthetic_out : Amounts, user_collateral : Given],
     mint_cancel     |-> [user : Users, nonce : Nonces, user_collateral : Given],
     mint_confirm    |-> [keeper : Keepers, user : Users, nonce : Nonces,
                          hedge_proof_hash : Hashes, venue_id : VenueIds,
                          filled_notional : Notionals, user_synthetic : {Default}],
     redeem_request  |-> [user : Users, nonce : Nonces, synthetic_amount : Amounts,
                          min_collateral_out : Amounts, user_synthetic : {Default}],
     redeem_cancel   |-> [user : Users, nonce : Nonces, user_synthetic : Given],
     redeem_confirm  |-> [keeper : Keepers, user : Users, nonce : Nonces,
                          unwind_proof_hash : Hashes, venue_id : VenueIds,
                          unwound_notional : Notionals, user_collateral : {Default}],
     stake           |-> [owner : Users, amount : Amounts, owner_synthetic : Given],
     request_unstake |-> [owner : Users, amount : Amounts, owner_synthetic : Given],
     unstake         |-> [owner : Users, owner_synthetic : Given],
     claim_funding   |-> [owner : Users, owner_synthetic : Given],
     keeper_register |-> [keeper : Keepers, bond_amount : Amounts, keeper_bond_source : Given],
     keeper_bond     |-> [keeper : Keepers, amount : Amounts, keeper_bond_source : Given],
     keeper_unbond   |-> [keeper : Keepers, amount : Amounts, keeper_bond_destination : Given],
     commit_rebalance_proof |->
                         [keeper : Keepers, sequence : 0 .. MaxCommits, venues_hash : Hashes,
                          venue_id : VenueIds, delta_bps_before : Signed,
                          delta_bps_after : Signed, hedged_notional : Notionals,
                          collateral_notional : Notionals],
     buffer_deposit  |-> [depositor : Users, amount : Amounts, depositor_synthetic : Given],
     report_venue_state |->
                         [signer : Keepers \cup {Authority}, as : {"authority", "keeper"},
                          venue_id : VenueIds, net_carry_bps : Signed,
                          capacity_notional : Notionals]]

Instructions == DOMAIN Parameters

\* What building every call comes to, on every context a client may hold.
Plans ==
    [name \in Instructions |->
        {[params |-> p, on |-> [o \in Oracles |-> Build(ContextOf[o], name, p)]] :
            p \in Parameters[name]}]

Built == [name \in Instructions |-> {plan \in Plans[name] : \A o \in Oracles : plan.on[o].built}]

-----------------------------------------------------------------------------
(* What the program makes of a transaction.                                 *)

\* The bytes of an integer outside its type were written as their low bits.
Low(chunk) ==
    IF chunk[1] = "hash" \/ chunk[2] \in Width[chunk[1]] THEN chunk[2]
    ELSE chunk[2] % Cardinality(Width[chunk[1]])

\* Every account by its slot and every argument by its name.
Received(tx, interface) ==
    LET slots == interface.slots
        args  == interface.args
    IN  [name     |-> tx.name,
         accounts |-> [s \in {slots[n].name : n \in DOMAIN slots} |->
                          tx.keys[CHOOSE n \in DOMAIN slots : slots[n].name = s].pubkey],
         args     |-> [a \in {args[n][1] : n \in DOMAIN args} |->
                          Low(tx.data[CHOOSE n \in DOMAIN args : args[n][1] = a])]]

Resolved(received, seed) ==
    CASE seed[1] = "text" -> Seed(seed[2])
      [] seed[1] = "key"  -> KeySeed(received.accounts[seed[2]])
      [] seed[1] = "arg"  -> U64Seed(received.args[seed[2]])

InPlace(received, slot, pubkey, o) ==
    \/ slot.place[1] = "anywhere"
    \/ slot.place[1] = "at" /\ pubkey = Program(slot.place[2])
    \/ /\ slot.place[1] = "derived"
       /\ pubkey = FindProgramAddress(
                       [n \in DOMAIN slot.place[2] |-> Resolved(received, slot.place[2][n])],
                       PoyzProgram)
    \/ slot.optional /\ pubkey = PoyzProgram
    \/ slot.place[1] = "held by" /\ slot.place[2] # "config"
    \/ slot.place = HeldBy("config") /\ pubkey = StoredConfig(o, 0, 0)[slot.name]

\* Arguments and accounts are those the program looks for, under config.oracle = o.
Located(tx, interface, o) ==
    /\ DOMAIN tx.data = DOMAIN interface.args
    /\ \A n \in DOMAIN interface.args : tx.data[n][1] = interface.args[n][2]
    /\ DOMAIN tx.keys = DOMAIN interface.slots
    /\ \A n \in DOMAIN interface.slots :
         /\ interface.slots[n].signer => tx.keys[n].signer
         /\ interface.slots[n].writable => tx.keys[n].writable
         /\ InPlace(Received(tx, interface), interface.slots[n], tx.keys[n].pubkey, o)

\* The calls of which the program takes the transaction built on one context
\* under a config, and what it reads in it.
Taken ==
    [name \in Instructions |-> [planned \in Oracles |-> [current \in Oracles |->
        {[params |-> plan.params, received |-> Received(plan.on[planned], Interface[name])] :
            plan \in {plan \in Built[name] :
                          Located(plan.on[planned], Interface[name], current)}}]]]

AcceptedPlans ==
    [name \in Instructions |-> [planned \in Oracles |-> [current \in Oracles |->
        {call.received : call \in Taken[name][planned][current]}]]]

-----------------------------------------------------------------------------
(* Sending.                                                                 *)

\* Of an instruction as the client would build it now.
Accepted(name) == AcceptedPlans[name][ContextOracle][oracle]

Holds(address, kind) == address \in DOMAIN held /\ held[address].kind = kind

\* A registered keeper, the least bond being one unit.
IsBonded(account) == Holds(account, "Keeper") /\ held[account].bonded > 0

Store(address, record) ==
    /\ address \in DOMAIN held \/ Cardinality(DOMAIN held) < MaxRecords
    /\ held' = [a \in DOMAIN held \cup {address} |->
                   IF a = address THEN record ELSE held[a]]

Close(address) == held' = [a \in DOMAIN held \ {address} |-> held[a]]

\* The rest of a transaction that leaves the config alone.
ConfigStays == UNCHANGED <<rebalanceCount, venueStateAt>>

\* Issuance is open while the venue reading is there and not too old.
IssuanceOpen == venueStateAt # 0 /\ clock - venueStateAt <= MaxVenueStateAge

RequestMint(tx) ==
    /\ IssuanceOpen
    /\ tx.accounts.request \notin DOMAIN held
    /\ Store(tx.accounts.request,
             [BlankOf["MintRequest"] EXCEPT
                !.user = tx.accounts.user, !.nonce = tx.args.nonce,
                !.collateral_amount = tx.args.collateral_amount,
                !.min_synthetic_out = tx.args.min_synthetic_out,
                !.created_at = clock, !.deadline = clock + Ttl])
    /\ ConfigStays

RequestRedeem(tx) ==
    /\ tx.accounts.request \notin DOMAIN held
    /\ Store(tx.accounts.request,
             [BlankOf["RedeemRequest"] EXCEPT
                !.user = tx.accounts.user, !.nonce = tx.args.nonce,
                !.synthetic_amount = tx.args.synthetic_amount,
                !.min_collateral_out = tx.args.min_collateral_out,
                !.created_at = clock, !.deadline = clock + Ttl])
    /\ ConfigStays

\* The owner's, and only past the deadline.
Cancellable(tx, kind) ==
    LET request == tx.accounts.request IN
    /\ Holds(request, kind)
    /\ held[request].user = tx.accounts.user
    /\ clock > held[request].deadline

Cancel(tx, kind) ==
    /\ Cancellable(tx, kind)
    /\ Close(tx.accounts.request)
    /\ ConfigStays

\* A bonded keeper's, and only until the deadline.
Confirm(tx, kind) ==
    LET request == tx.accounts.request IN
    /\ IsBonded(tx.accounts.keeper_account)
    /\ Holds(request, kind)
    /\ held[request].user = tx.accounts.user
    /\ clock <= held[request].deadline
    /\ Close(request)
    /\ ConfigStays

Stake(tx) ==
    LET position == tx.accounts.position
        old == IF Holds(position, "StakePosition") THEN held[position]
               ELSE [BlankOf["StakePosition"] EXCEPT
                        !.owner = tx.accounts.owner, !.amount = 0,
                        !.pending_unstake = 0, !.cooldown_end = 0]
    IN  /\ old.amount + old.pending_unstake + tx.args.amount <= MaxHolding
        /\ Store(position, [old EXCEPT !.amount = @ + tx.args.amount,
                                       !.last_update = clock])
        /\ ConfigStays

RequestUnstake(tx) ==
    LET position == tx.accounts.position
        amount   == tx.args.amount
    IN  /\ Holds(position, "StakePosition")
        /\ amount <= held[position].amount
        /\ Store(position, [held[position] EXCEPT
                               !.amount = @ - amount, !.pending_unstake = @ + amount,
                               !.cooldown_end = clock + Cooldown, !.last_update = clock])
        /\ ConfigStays

\* Only once the cooldown has ended.
Withdrawable(tx) ==
    LET position == tx.accounts.position IN
    /\ Holds(position, "StakePosition")
    /\ held[position].pending_unstake > 0
    /\ clock >= held[position].cooldown_end

Unstake(tx) ==
    LET position == tx.accounts.position IN
    /\ Withdrawable(tx)
    /\ Store(position, [held[position] EXCEPT !.pending_unstake = 0, !.cooldown_end = 0])
    /\ ConfigStays

Register(tx) ==
    LET account == tx.accounts.keeper_account IN
    /\ account \notin DOMAIN held
    /\ Store(account, [BlankOf["Keeper"] EXCEPT
                          !.keeper = tx.accounts.keeper,
                          !.bonded = tx.args.bond_amount,
                          !.registered_at = clock, !.last_proof_at = 0, !.last_bond_at = clock])
    /\ ConfigStays

Bond(tx) ==
    LET account == tx.accounts.keeper_account IN
    /\ Holds(account, "Keeper")
    /\ held[account].bonded + tx.args.amount <= MaxHolding
    /\ Store(account, [held[account] EXCEPT !.bonded = @ + tx.args.amount,
                                            !.last_bond_at = clock])
    /\ ConfigStays

\* Not while the cooldown since the last proof is running.
Unbond(tx) ==
    LET account == tx.accounts.keeper_account IN
    /\ Holds(account, "Keeper")
    /\ tx.args.amount <= held[account].bonded
    /\ held[account].last_proof_at # 0 => clock >= held[account].last_proof_at + Cooldown
    /\ Store(account, [held[account] EXCEPT !.bonded = @ - tx.args.amount])
    /\ ConfigStays

\* The sequence must be the config's counter: of two keepers that read the same
\* counter one is refused.
CommitProof(tx) ==
    LET account == tx.accounts.keeper_account
        proof   == tx.accounts.proof
    IN  /\ IsBonded(account)
        /\ tx.args.sequence = rebalanceCount /\ rebalanceCount < MaxCommits
        /\ Cardinality(DOMAIN held) < MaxRecords
        /\ held' = [a \in DOMAIN held \cup {proof} |->
                       IF a = proof
                       THEN [BlankOf["RebalanceProof"] EXCEPT
                               !.keeper = tx.accounts.keeper,
                               !.sequence = rebalanceCount, !.timestamp = clock,
                               !.venues_hash = tx.args.venues_hash,
                               !.venue_id = tx.args.venue_id,
                               !.delta_bps_before = tx.args.delta_bps_before,
                               !.delta_bps_after = tx.args.delta_bps_after,
                               !.hedged_notional = tx.args.hedged_notional,
                               !.collateral_notional = tx.args.collateral_notional]
                       ELSE IF a = account THEN [held[a] EXCEPT !.last_proof_at = clock]
                       ELSE held[a]]
        /\ rebalanceCount' = rebalanceCount + 1
        /\ UNCHANGED venueStateAt

\* Signed by a bonded keeper or, without a keeper account, by the authority.
ReportVenue(tx) ==
    /\ IF tx.accounts.keeper_account = PoyzProgram
       THEN tx.accounts.signer = Authority
       ELSE IsBonded(tx.accounts.keeper_account)
    /\ venueStateAt' = clock
    /\ UNCHANGED <<rebalanceCount, held>>

\* A dry run, a refused transaction, or one of the two instructions that leave
\* the accounts above as they are (claim_funding, buffer_deposit): only the
\* client's cache is left filled.
PlanOnly ==
    /\ cached' = ContextOracle
    /\ UNCHANGED <<oracle, rebalanceCount, venueStateAt, clock, held>>

-----------------------------------------------------------------------------
(* The process and the world around it.                                     *)

\* A new process: nothing is cached.
Restart ==
    /\ cached' = Never
    /\ UNCHANGED <<oracle, rebalanceCount, venueStateAt, clock, held>>

SetOracle(o) ==
    /\ o # oracle
    /\ oracle' = o
    /\ UNCHANGED <<rebalanceCount, venueStateAt, clock, held, cached>>

Pass ==
    /\ clock < MaxClock
    /\ clock' = clock + 1
    /\ UNCHANGED <<oracle, rebalanceCount, venueStateAt, held, cached>>

SessionInit ==
    /\ oracle \in Oracles
    /\ rebalanceCount = 0
    /\ venueStateAt = 0
    /\ clock = 1
    /\ held = << >>
    /\ cached = Never

\* What an accepted transaction does, by its instruction.
Execute(tx) ==
    \/ tx.name = "mint_request"           /\ RequestMint(tx)
    \/ tx.name = "mint_cancel"            /\ Cancel(tx, "MintRequest")
    \/ tx.name = "mint_confirm"           /\ Confirm(tx, "MintRequest")
    \/ tx.name = "redeem_request"         /\ RequestRedeem(tx)
    \/ tx.name = "redeem_cancel"          /\ Cancel(tx, "RedeemRequest")
    \/ tx.name = "redeem_confirm"         /\ Confirm(tx, "RedeemRequest")
    \/ tx.name = "stake"                  /\ Stake(tx)
    \/ tx.name = "request_unstake"        /\ RequestUnstake(tx)
    \/ tx.name = "unstake"                /\ Unstake(tx)
    \/ tx.name = "keeper_register"        /\ Register(tx)
    \/ tx.name = "keeper_bond"            /\ Bond(tx)
    \/ tx.name = "keeper_unbond"          /\ Unbond(tx)
    \/ tx.name = "commit_rebalance_proof" /\ CommitProof(tx)
    \/ tx.name = "report_venue_state"     /\ ReportVenue(tx)

\* A call is built on the cached context, which is read first if there is none.
Send(tx) ==
    /\ cached' = ContextOracle
    /\ UNCHANGED <<oracle, clock>>
    /\ Execute(tx)

Command ==
    \/ \E name \in Instructions : \E tx \in Accepted(name) : Send(tx)
    \/ PlanOnly

SessionNext ==
    \/ Command
    \/ Restart
    \/ \E o \in Oracles : SetOracle(o)
    \/ Pass

SessionSpec == SessionInit /\ [][SessionNext]_sessionVars

-----------------------------------------------------------------------------
(* `poyz venue list`: a process of its own, so on a config read just now.   *)

EXIT_OK == 0
EXIT_UNAVAILABLE == 3

ReadConfigView == View("Config", StoredConfig(oracle, rebalanceCount, venueStateAt))

\* Mutant: only a config that could not be read counts as unavailable.
VenueListExitIfRead(now) == EXIT_OK

\* With the config read; the exit code is EXIT_UNAVAILABLE when it was not.
VenueListExit(now) ==
    LET config == ReadConfigView
        stale  == /\ config.venue_state_at # Never
                  /\ now - config.venue_state_at > config.max_venue_state_age_sec
    IN  IF stale THEN EXIT_UNAVAILABLE ELSE EXIT_OK

-----------------------------------------------------------------------------

SessionTypeOK ==
    /\ oracle \in Oracles /\ cached \in Oracles \cup {Never}
    /\ clock \in 1 .. MaxClock
    /\ rebalanceCount \in 0 .. MaxCommits /\ venueStateAt \in 0 .. clock
    /\ Cardinality(DOMAIN held) <= MaxRecords
    /\ \A a \in DOMAIN held : held[a].kind \in Kinds \ {"Config"}

-----------------------------------------------------------------------------

\* The token accounts an instruction may name: whose they are and of which mint.
Holder == [user_collateral |-> "user", user_synthetic |-> "user",
           owner_synthetic |-> "owner", depositor_synthetic |-> "depositor",
           keeper_bond_source |-> "keeper", keeper_bond_destination |-> "keeper"]
MintOf == [user_collateral |-> "collateral_mint", user_synthetic |-> "synthetic_mint",
           owner_synthetic |-> "synthetic_mint", depositor_synthetic |-> "synthetic_mint",
           keeper_bond_source |-> "bond_mint", keeper_bond_destination |-> "bond_mint"]

\* The account a caller means by parameter f: the given one, or its holder's
\* associated account for the mint of the config.
Meant(params, f) ==
    IF f \notin DOMAIN Holder \/ params[f] # Default THEN params[f]
    ELSE deriveAssociatedTokenAddress(params[Holder[f]], BlankOf["Config"][MintOf[f]],
                                      BlankOf["Config"].token_program)

AsMeant(params, received) ==
    /\ \A a \in DOMAIN received.args : received.args[a] = params[a]
    /\ \A s \in DOMAIN received.accounts \cap DOMAIN params :
         received.accounts[s] = Meant(params, s)

ReadAsMeant ==
    [planned \in Oracles |-> [current \in Oracles |->
        \A name \in Instructions : \A call \in Taken[name][planned][current] :
            AsMeant(call.params, call.received)]]

\* Whatever the program accepts, on a fresh or an outdated context, it reads as
\* the caller meant it: every argument, whose accounts, and of which mint.
ExecutedAsMeant == ReadAsMeant[ContextOracle][oracle]

Resolving ==
    {o \in Oracles : \A name \in Instructions : \A plan \in Built[name] :
        Located(plan.on[o], Interface[name], o)}

\* A plan built on the current config is never refused for its accounts or its
\* argument layout.
FreshContextResolves == ContextOracle = oracle => oracle \in Resolving

Overdue(a) ==
    \/ held[a].kind \in {"MintRequest", "RedeemRequest"} /\ clock > held[a].deadline
    \/ /\ held[a].kind = "StakePosition"
       /\ held[a].pending_unstake > 0
       /\ clock >= held[a].cooldown_end

\* The instruction that returns what the account holds.
ExitOf == [MintRequest |-> "mint_cancel", RedeemRequest |-> "redeem_cancel",
           StakePosition |-> "unstake"]

\* Nobody's funds wait for a restart: an expired request can be cancelled and an
\* unstake past its cooldown withdrawn by a client whose config is outdated.
ExitsSurviveRotation ==
    \A a \in DOMAIN held : Overdue(a) =>
        \E tx \in Accepted(ExitOf[held[a].kind]) :
            IF held[a].kind = "StakePosition"
            THEN tx.accounts.position = a /\ Withdrawable(tx)
            ELSE tx.accounts.request = a /\ Cancellable(tx, held[a].kind)

\* The address a get* call derives for the account stored as r.
AddressRead(r) ==
    CASE r.kind = "MintRequest"    -> deriveMintRequest(r.user, r.nonce, PoyzProgram)
      [] r.kind = "RedeemRequest"  -> deriveRedeemRequest(r.user, r.nonce, PoyzProgram)
      [] r.kind = "StakePosition"  -> deriveStakePosition(r.owner, PoyzProgram)
      [] r.kind = "Keeper"         -> deriveKeeper(r.keeper, PoyzProgram)
      [] r.kind = "RebalanceProof" -> deriveRebalanceProof(r.sequence, PoyzProgram)

\* What was opened by one call is found by the get call for the same names, and
\* reads as it was stored, for as long as it is held.
FoundAsStored ==
    \A a \in DOMAIN held :
        LET view == View(held[a].kind, held[a]) IN
        /\ a = AddressRead(held[a])
        /\ \A f \in DOMAIN view : view[f] \in {held[a][f], Never}

\* A request its owner can take back reads as expired, unless the local clock is
\* behind the chain's.
CancellableReadsExpired ==
    \A a \in DOMAIN held :
        (held[a].kind \in {"MintRequest", "RedeemRequest"} /\ clock > held[a].deadline)
            => \A lead \in Leads : Expired(View(held[a].kind, held[a]), clock + lead)

\* While a reading that has been reported is too old for the program, `venue
\* list` does not exit as for a healthy protocol (the local clock not behind).
StaleReadingIsListed ==
    (venueStateAt # 0 /\ ~IssuanceOpen)
        => \A lead \in Leads : VenueListExit(clock + lead) = EXIT_UNAVAILABLE

\* What the comment on the exit code says of a missing reading as well.
HaltedIssuanceIsListed ==
    ~IssuanceOpen => \A lead \in Leads : VenueListExit(clock + lead) = EXIT_UNAVAILABLE

=============================================================================
