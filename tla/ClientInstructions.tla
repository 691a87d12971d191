------------------------- MODULE ClientInstructions -------------------------
(***************************************************************************)
(* The instructions the SDK builds (instructions.ts), the addresses it     *)
(* derives (pda.ts) and the argument bytes it writes (borsh.ts).           *)
(*                                                                         *)
(* An address is a wallet, a mint, a program, an address derived from      *)
(* seeds or an associated token account: terms that are equal exactly when *)
(* the 32-byte keys are, derivation being collision free.  Argument data   *)
(* is the sequence of the typed values written.  Parameters carry the      *)
(* IDL's argument names; `collateralAmount` is collateral_amount.          *)
(***************************************************************************)
EXTENDS Integers, Sequences

CONSTANTS
    Width,                \* the integers each borsh type can hold
    NoHash,               \* the hash of 32 zero bytes
    Default               \* an optional account that was not given

Key(pubkey, signs, writes) == [pubkey |-> pubkey, signer |-> signs, writable |-> writes]
Signs(pubkey)     == Key(pubkey, TRUE, TRUE)
SignsOnly(pubkey) == Key(pubkey, TRUE, FALSE)
Writes(pubkey)    == Key(pubkey, FALSE, TRUE)
Reads(pubkey)     == Key(pubkey, FALSE, FALSE)

Program(name)   == <<"program", name>>
SystemProgramId == Program("system_program")

FindProgramAddress(seeds, program) == <<"derived", program, seeds>>

Seed(text)     == <<"text", text>>
KeySeed(key)   == <<"key", key>>
U64Seed(value) == <<"u64", value>>

-----------------------------------------------------------------------------
(* Program addresses.                                                       *)

deriveVault(seed, program) == FindProgramAddress(<<Seed(seed)>>, program)

deriveCollateralVault(mint, program) ==
    FindProgramAddress(<<Seed("collateral_vault"), KeySeed(mint)>>, program)

deriveKeeper(keeper, program) ==
    FindProgramAddress(<<Seed("keeper"), KeySeed(keeper)>>, program)

deriveStakePosition(owner, program) ==
    FindProgramAddress(<<Seed("stake"), KeySeed(owner)>>, program)

deriveMintRequest(user, nonce, program) ==
    FindProgramAddress(<<Seed("mint_request"), KeySeed(user), U64Seed(nonce)>>, program)

deriveRedeemRequest(user, nonce, program) ==
    FindProgramAddress(<<Seed("redeem_request"), KeySeed(user), U64Seed(nonce)>>, program)

deriveRebalanceProof(sequence, program) ==
    FindProgramAddress(<<Seed("proof"), U64Seed(sequence)>>, program)

deriveAssociatedTokenAddress(owner, mint, tokenProgram) ==
    FindProgramAddress(<<KeySeed(owner), KeySeed(tokenProgram), KeySeed(mint)>>,
                       Program("associated_token"))

-----------------------------------------------------------------------------
(* Helpers of the builders.                                                 *)

tokenAccount(explicit, owner, mint, ctx) ==
    IF explicit # Default THEN explicit
    ELSE deriveAssociatedTokenAddress(owner, mint, ctx.tokenProgram)

IsPositive(amount)  == amount > 0
NotNegative(amount) == amount >= 0
IsProofHash(hash)   == hash # NoHash
IsVenueId(venue)    == venue # 0 /\ venue \in Width["u8"]

u8(value)   == <<"u8", value>>
i32(value)  == <<"i32", value>>
u64(value)  == <<"u64", value>>
hash(value) == <<"hash", value>>

\* The writer throws on an integer its type cannot hold.
Fits(chunk) == chunk[1] = "hash" \/ chunk[2] \in Width[chunk[1]]

\* A builder's own checks come first, then the writer's; either throws.
Instruction(name, valid, keys, data) ==
    [built |-> valid /\ \A i \in DOMAIN data : Fits(data[i]),
     name |-> name, keys |-> keys, data |-> data]

-----------------------------------------------------------------------------
(* Issuance and redemption.                                                 *)

\* Mutant: the slippage floor is written before the amount.
buildMintRequestSwapped(ctx, p) ==
    Instruction("mint_request",
        IsPositive(p.collateral_amount) /\ NotNegative(p.min_synthetic_out) /\ NotNegative(p.nonce),
        <<Signs(p.user), Writes(ctx.config),
          Writes(deriveMintRequest(p.user, p.nonce, ctx.programId)), Reads(ctx.collateralMint),
          Writes(tokenAccount(p.user_collateral, p.user, ctx.collateralMint, ctx)),
          Writes(deriveCollateralVault(ctx.collateralMint, ctx.programId)),
          Reads(ctx.oracle), Reads(ctx.tokenProgram), Reads(SystemProgramId)>>,
        <<u64(p.nonce), u64(p.min_synthetic_out), u64(p.collateral_amount)>>)

buildMintRequest(ctx, p) ==
    Instruction("mint_request",
        IsPositive(p.collateral_amount) /\ NotNegative(p.min_synthetic_out) /\ NotNegative(p.nonce),
        <<Signs(p.user), Writes(ctx.config),
          Writes(deriveMintRequest(p.user, p.nonce, ctx.programId)), Reads(ctx.collateralMint),
          Writes(tokenAccount(p.user_collateral, p.user, ctx.collateralMint, ctx)),
          Writes(deriveCollateralVault(ctx.collateralMint, ctx.programId)),
          Reads(ctx.oracle), Reads(ctx.tokenProgram), Reads(SystemProgramId)>>,
        <<u64(p.nonce), u64(p.collateral_amount), u64(p.min_synthetic_out)>>)

\* Mutant: the cancel carries the oracle as the request does.
buildMintCancelWithOracle(ctx, p) ==
    Instruction("mint_cancel", NotNegative(p.nonce),
        <<Signs(p.user), Writes(ctx.config),
          Writes(deriveMintRequest(p.user, p.nonce, ctx.programId)), Reads(ctx.oracle),
          Writes(deriveCollateralVault(ctx.collateralMint, ctx.programId)),
          Writes(tokenAccount(p.user_collateral, p.user, ctx.collateralMint, ctx)),
          Reads(ctx.tokenProgram)>>,
        <<u64(p.nonce)>>)

buildMintCancel(ctx, p) ==
    Instruction("mint_cancel", NotNegative(p.nonce),
        <<Signs(p.user), Writes(ctx.config),
          Writes(deriveMintRequest(p.user, p.nonce, ctx.programId)), Reads(ctx.collateralMint),
          Writes(deriveCollateralVault(ctx.collateralMint, ctx.programId)),
          Writes(tokenAccount(p.user_collateral, p.user, ctx.collateralMint, ctx)),
          Reads(ctx.tokenProgram)>>,
        <<u64(p.nonce)>>)

buildMintConfirm(ctx, p) ==
    Instruction("mint_confirm",
        /\ IsProofHash(p.hedge_proof_hash) /\ IsVenueId(p.venue_id)
        /\ NotNegative(p.filled_notional) /\ NotNegative(p.nonce),
        <<Signs(p.keeper), Writes(ctx.config), Writes(deriveKeeper(p.keeper, ctx.programId)),
          Writes(deriveMintRequest(p.user, p.nonce, ctx.programId)), Writes(p.user),
          Writes(ctx.syntheticMint),
          Writes(tokenAccount(p.user_synthetic, p.user, ctx.syntheticMint, ctx)),
          Reads(ctx.oracle), Reads(ctx.tokenProgram)>>,
        <<u64(p.nonce), hash(p.hedge_proof_hash), u8(p.venue_id), u64(p.filled_notional)>>)

buildRedeemRequest(ctx, p) ==
    Instruction("redeem_request",
        IsPositive(p.synthetic_amount) /\ NotNegative(p.min_collateral_out) /\ NotNegative(p.nonce),
        <<Signs(p.user), Writes(ctx.config),
          Writes(deriveRedeemRequest(p.user, p.nonce, ctx.programId)), Reads(ctx.syntheticMint),
          Writes(tokenAccount(p.user_synthetic, p.user, ctx.syntheticMint, ctx)),
          Writes(deriveVault("redeem_escrow", ctx.programId)),
          Reads(ctx.oracle), Reads(ctx.tokenProgram), Reads(SystemProgramId)>>,
        <<u64(p.nonce), u64(p.synthetic_amount), u64(p.min_collateral_out)>>)

buildRedeemCancel(ctx, p) ==
    Instruction("redeem_cancel", NotNegative(p.nonce),
        <<Signs(p.user), Writes(ctx.config),
          Writes(deriveRedeemRequest(p.user, p.nonce, ctx.programId)), Reads(ctx.syntheticMint),
          Writes(deriveVault("redeem_escrow", ctx.programId)),
          Writes(tokenAccount(p.user_synthetic, p.user, ctx.syntheticMint, ctx)),
          Reads(ctx.tokenProgram)>>,
        <<u64(p.nonce)>>)

buildRedeemConfirm(ctx, p) ==
    Instruction("redeem_confirm",
        /\ IsProofHash(p.unwind_proof_hash) /\ IsVenueId(p.venue_id)
        /\ NotNegative(p.unwound_notional) /\ NotNegative(p.nonce),
        <<Signs(p.keeper), Writes(ctx.config), Writes(deriveKeeper(p.keeper, ctx.programId)),
          Writes(deriveRedeemRequest(p.user, p.nonce, ctx.programId)), Writes(p.user),
          Writes(ctx.syntheticMint), Writes(deriveVault("redeem_escrow", ctx.programId)),
          Reads(ctx.collateralMint),
          Writes(deriveCollateralVault(ctx.collateralMint, ctx.programId)),
          Writes(tokenAccount(p.user_collateral, p.user, ctx.collateralMint, ctx)),
          Reads(ctx.oracle), Reads(ctx.tokenProgram)>>,
        <<u64(p.nonce), hash(p.unwind_proof_hash), u8(p.venue_id), u64(p.unwound_notional)>>)

-----------------------------------------------------------------------------
(* Staking.                                                                 *)

buildStake(ctx, p) ==
    Instruction("stake", IsPositive(p.amount),
        <<Signs(p.owner), Writes(ctx.config), Writes(deriveStakePosition(p.owner, ctx.programId)),
          Reads(ctx.syntheticMint),
          Writes(tokenAccount(p.owner_synthetic, p.owner, ctx.syntheticMint, ctx)),
          Writes(deriveVault("stake_vault", ctx.programId)),
          Reads(ctx.tokenProgram), Reads(SystemProgramId)>>,
        <<u64(p.amount)>>)

\* The three exits of a position share their accounts but for the vault.
PositionKeys(vault, ctx, p) ==
    <<SignsOnly(p.owner), Writes(ctx.config), Writes(deriveStakePosition(p.owner, ctx.programId)),
      Reads(ctx.syntheticMint), Writes(deriveVault(vault, ctx.programId)),
      Writes(tokenAccount(p.owner_synthetic, p.owner, ctx.syntheticMint, ctx)),
      Reads(ctx.tokenProgram)>>

buildRequestUnstake(ctx, p) ==
    Instruction("request_unstake", IsPositive(p.amount),
                PositionKeys("stake_vault", ctx, p), <<u64(p.amount)>>)

buildUnstake(ctx, p) ==
    Instruction("unstake", TRUE, PositionKeys("stake_vault", ctx, p), << >>)

buildClaimFunding(ctx, p) ==
    Instruction("claim_funding", TRUE, PositionKeys("funding_vault", ctx, p), << >>)

-----------------------------------------------------------------------------
(* Keepers, the buffer and the venue report.                                *)

buildKeeperRegister(ctx, p) ==
    Instruction("keeper_register", IsPositive(p.bond_amount),
        <<Signs(p.keeper), Writes(ctx.config), Writes(deriveKeeper(p.keeper, ctx.programId)),
          Reads(ctx.bondMint),
          Writes(tokenAccount(p.keeper_bond_source, p.keeper, ctx.bondMint, ctx)),
          Writes(deriveVault("bond_vault", ctx.programId)),
          Reads(ctx.tokenProgram), Reads(SystemProgramId)>>,
        <<u64(p.bond_amount)>>)

buildKeeperBond(ctx, p) ==
    Instruction("keeper_bond", IsPositive(p.amount),
        <<Signs(p.keeper), Writes(ctx.config), Writes(deriveKeeper(p.keeper, ctx.programId)),
          Reads(ctx.bondMint),
          Writes(tokenAccount(p.keeper_bond_source, p.keeper, ctx.bondMint, ctx)),
          Writes(deriveVault("bond_vault", ctx.programId)), Reads(ctx.tokenProgram)>>,
        <<u64(p.amount)>>)

buildKeeperUnbond(ctx, p) ==
    Instruction("keeper_unbond", IsPositive(p.amount),
        <<SignsOnly(p.keeper), Writes(ctx.config), Writes(deriveKeeper(p.keeper, ctx.programId)),
          Reads(ctx.bondMint), Writes(deriveVault("bond_vault", ctx.programId)),
          Writes(tokenAccount(p.keeper_bond_destination, p.keeper, ctx.bondMint, ctx)),
          Reads(ctx.tokenProgram)>>,
        <<u64(p.amount)>>)

buildCommitRebalanceProof(ctx, p) ==
    Instruction("commit_rebalance_proof",
        /\ IsProofHash(p.venues_hash) /\ IsVenueId(p.venue_id)
        /\ IsPositive(p.collateral_notional) /\ NotNegative(p.hedged_notional)
        /\ NotNegative(p.sequence),
        <<Signs(p.keeper), Writes(ctx.config), Writes(deriveKeeper(p.keeper, ctx.programId)),
          Writes(deriveRebalanceProof(p.sequence, ctx.programId)),
          Reads(ctx.oracle), Reads(SystemProgramId)>>,
        <<u64(p.sequence), hash(p.venues_hash), u8(p.venue_id), i32(p.delta_bps_before),
          i32(p.delta_bps_after), u64(p.hedged_notional), u64(p.collateral_notional)>>)

buildBufferDeposit(ctx, p) ==
    Instruction("buffer_deposit", IsPositive(p.amount),
        <<Signs(p.depositor), Writes(ctx.config), Reads(ctx.syntheticMint),
          Writes(tokenAccount(p.depositor_synthetic, p.depositor, ctx.syntheticMint, ctx)),
          Writes(deriveVault("buffer_vault", ctx.programId)), Reads(ctx.tokenProgram)>>,
        <<u64(p.amount)>>)

\* An absent optional account is the program's own id in its slot.
buildReportVenueState(ctx, p) ==
    Instruction("report_venue_state",
        IsVenueId(p.venue_id) /\ NotNegative(p.capacity_notional),
        <<SignsOnly(p.signer), Writes(ctx.config),
          Reads(IF p.as = "keeper" THEN deriveKeeper(p.signer, ctx.programId) ELSE ctx.programId)>>,
        <<u8(p.venue_id), i32(p.net_carry_bps), u64(p.capacity_notional)>>)

Build(ctx, name, p) ==
    CASE name = "mint_request"           -> buildMintRequest(ctx, p)
      [] name = "mint_cancel"            -> buildMintCancel(ctx, p)
      [] name = "mint_confirm"           -> buildMintConfirm(ctx, p)
      [] name = "redeem_request"         -> buildRedeemRequest(ctx, p)
      [] name = "redeem_cancel"          -> buildRedeemCancel(ctx, p)
      [] name = "redeem_confirm"         -> buildRedeemConfirm(ctx, p)
      [] name = "stake"                  -> buildStake(ctx, p)
      [] name = "request_unstake"        -> buildRequestUnstake(ctx, p)
      [] name = "unstake"                -> buildUnstake(ctx, p)
      [] name = "claim_funding"          -> buildClaimFunding(ctx, p)
      [] name = "keeper_register"        -> buildKeeperRegister(ctx, p)
      [] name = "keeper_bond"            -> buildKeeperBond(ctx, p)
      [] name = "keeper_unbond"          -> buildKeeperUnbond(ctx, p)
      [] name = "commit_rebalance_proof" -> buildCommitRebalanceProof(ctx, p)
      [] name = "buffer_deposit"         -> buildBufferDeposit(ctx, p)
      [] name = "report_venue_state"     -> buildReportVenueState(ctx, p)

=============================================================================
