-------------------------- MODULE ProgramInterface --------------------------
(***************************************************************************)
(* What the on-chain program expects, as the IDL compiled into the SDK     *)
(* states it: for every instruction the SDK wraps, the account slots in    *)
(* order and the arguments in order; and the layout of the account types.  *)
(*                                                                         *)
(* A slot says what the program checks of the account passed in it: that   *)
(* it signed, that it is writable, and where it must be.                   *)
(***************************************************************************)
EXTENDS Integers, Sequences

Anywhere       == <<"anywhere">>
HeldBy(slot)   == <<"held by", slot>>       \* named by the account in that slot
At(program)    == <<"at", program>>
Derived(seeds) == <<"derived", seeds>>      \* a program address

Text(s)  == <<"text", s>>
KeyIn(s) == <<"key", s>>                    \* the address in slot s
ArgOf(a) == <<"arg", a>>                    \* the argument a

Slot(name, writable, signer, place) ==
    [name |-> name, writable |-> writable, signer |-> signer, place |-> place,
     optional |-> FALSE]

Payer(name, place)    == Slot(name, TRUE, TRUE, place)
Signer(name, place)   == Slot(name, FALSE, TRUE, place)
Writable(name, place) == Slot(name, TRUE, FALSE, place)
Readonly(name, place) == Slot(name, FALSE, FALSE, place)
Optional(slot)        == [slot EXCEPT !.optional = TRUE]

Vault(seed)   == Writable(seed, Derived(<<Text(seed)>>))
Config        == Writable("config", Derived(<<Text("config")>>))
Mint(name)    == Readonly(name, HeldBy("config"))
Oracle        == Readonly("oracle", HeldBy("config"))
TokenProgram  == Readonly("token_program", Anywhere)
SystemProgram == Readonly("system_program", At("system_program"))

KeeperAccount == Writable("keeper_account", Derived(<<Text("keeper"), KeyIn("keeper")>>))
Position      == Writable("position", Derived(<<Text("stake"), KeyIn("owner")>>))
Request(kind) == Writable("request", Derived(<<Text(kind), KeyIn("user"), ArgOf("nonce")>>))
CollateralVault ==
    Writable("collateral_vault",
             Derived(<<Text("collateral_vault"), KeyIn("collateral_mint")>>))

U64(name) == <<name, "u64">>

-----------------------------------------------------------------------------
(* Issuance and redemption.                                                 *)

MintRequestInterface ==
    [args  |-> <<U64("nonce"), U64("collateral_amount"), U64("min_synthetic_out")>>,
     slots |-> <<Payer("user", Anywhere), Config, Request("mint_request"),
                 Mint("collateral_mint"), Writable("user_collateral", Anywhere),
                 CollateralVault, Oracle, TokenProgram, SystemProgram>>]

MintCancelInterface ==
    [args  |-> <<U64("nonce")>>,
     slots |-> <<Payer("user", HeldBy("request")), Config, Request("mint_request"),
                 Mint("collateral_mint"), CollateralVault,
                 Writable("user_collateral", Anywhere), TokenProgram>>]

MintConfirmInterface ==
    [args  |-> <<U64("nonce"), <<"hedge_proof_hash", "hash">>, <<"venue_id", "u8">>,
                 U64("filled_notional")>>,
     slots |-> <<Payer("keeper", HeldBy("keeper_account")), Config, KeeperAccount,
                 Request("mint_request"), Writable("user", HeldBy("request")),
                 Writable("synthetic_mint", HeldBy("config")),
                 Writable("user_synthetic", Anywhere), Oracle, TokenProgram>>]

RedeemRequestInterface ==
    [args  |-> <<U64("nonce"), U64("synthetic_amount"), U64("min_collateral_out")>>,
     slots |-> <<Payer("user", Anywhere), Config, Request("redeem_request"),
                 Mint("synthetic_mint"), Writable("user_synthetic", Anywhere),
                 Vault("redeem_escrow"), Oracle, TokenProgram, SystemProgram>>]

RedeemCancelInterface ==
    [args  |-> <<U64("nonce")>>,
     slots |-> <<Payer("user", HeldBy("request")), Config, Request("redeem_request"),
                 Mint("synthetic_mint"), Vault("redeem_escrow"),
                 Writable("user_synthetic", Anywhere), TokenProgram>>]

RedeemConfirmInterface ==
    [args  |-> <<U64("nonce"), <<"unwind_proof_hash", "hash">>, <<"venue_id", "u8">>,
                 U64("unwound_notional")>>,
     slots |-> <<Payer("keeper", HeldBy("keeper_account")), Config, KeeperAccount,
                 Request("redeem_request"), Writable("user", HeldBy("request")),
                 Writable("synthetic_mint", HeldBy("config")), Vault("redeem_escrow"),
                 Mint("collateral_mint"), CollateralVault,
                 Writable("user_collateral", Anywhere), Oracle, TokenProgram>>]

-----------------------------------------------------------------------------
(* Staking.                                                                 *)

StakeInterface ==
    [args  |-> <<U64("amount")>>,
     slots |-> <<Payer("owner", Anywhere), Config, Position, Mint("synthetic_mint"),
                 Writable("owner_synthetic", Anywhere), Vault("stake_vault"),
                 TokenProgram, SystemProgram>>]

RequestUnstakeInterface ==
    [args  |-> <<U64("amount")>>,
     slots |-> <<Signer("owner", HeldBy("position")), Config, Position,
                 Mint("synthetic_mint"), Vault("stake_vault"),
                 Writable("owner_synthetic", Anywhere), TokenProgram>>]

UnstakeInterface ==
    [args  |-> << >>,
     slots |-> <<Signer("owner", HeldBy("position")), Config, Position,
                 Mint("synthetic_mint"), Vault("stake_vault"),
                 Writable("owner_synthetic", Anywhere), TokenProgram>>]

ClaimFundingInterface ==
    [args  |-> << >>,
     slots |-> <<Signer("owner", HeldBy("position")), Config, Position,
                 Mint("synthetic_mint"), Vault("funding_vault"),
                 Writable("owner_synthetic", Anywhere), TokenProgram>>]

-----------------------------------------------------------------------------
(* Keepers, the buffer and the venue report.                                *)

KeeperRegisterInterface ==
    [args  |-> <<U64("bond_amount")>>,
     slots |-> <<Payer("keeper", Anywhere), Config, KeeperAccount, Mint("bond_mint"),
                 Writable("keeper_bond_source", Anywhere), Vault("bond_vault"),
                 TokenProgram, SystemProgram>>]

KeeperBondInterface ==
    [args  |-> <<U64("amount")>>,
     slots |-> <<Payer("keeper", HeldBy("keeper_account")), Config, KeeperAccount,
                 Mint("bond_mint"), Writable("keeper_bond_source", Anywhere),
                 Vault("bond_vault"), TokenProgram>>]

KeeperUnbondInterface ==
    [args  |-> <<U64("amount")>>,
     slots |-> <<Signer("keeper", HeldBy("keeper_account")), Config, KeeperAccount,
                 Mint("bond_mint"), Vault("bond_vault"),
                 Writable("keeper_bond_destination", Anywhere), TokenProgram>>]

CommitRebalanceProofInterface ==
    [args  |-> <<U64("sequence"), <<"venues_hash", "hash">>, <<"venue_id", "u8">>,
                 <<"delta_bps_before", "i32">>, <<"delta_bps_after", "i32">>,
                 U64("hedged_notional"), U64("collateral_notional")>>,
     slots |-> <<Payer("keeper", HeldBy("keeper_account")), Config, KeeperAccount,
                 Writable("proof", Derived(<<Text("proof"), ArgOf("sequence")>>)),
                 Oracle, SystemProgram>>]

BufferDepositInterface ==
    [args  |-> <<U64("amount")>>,
     slots |-> <<Payer("depositor", Anywhere), Config, Mint("synthetic_mint"),
                 Writable("depositor_synthetic", Anywhere), Vault("buffer_vault"),
                 TokenProgram>>]

\* The keeper account is optional: its presence selects the keeper's authority.
ReportVenueStateInterface ==
    [args  |-> <<<<"venue_id", "u8">>, <<"net_carry_bps", "i32">>,
                 U64("capacity_notional")>>,
     slots |-> <<Signer("signer", Anywhere), Config,
                 Optional(Readonly("keeper_account",
                                   Derived(<<Text("keeper"), KeyIn("signer")>>)))>>]

Interface ==
    [mint_request           |-> MintRequestInterface,
     mint_cancel            |-> MintCancelInterface,
     mint_confirm           |-> MintConfirmInterface,
     redeem_request         |-> RedeemRequestInterface,
     redeem_cancel          |-> RedeemCancelInterface,
     redeem_confirm         |-> RedeemConfirmInterface,
     stake                  |-> StakeInterface,
     request_unstake        |-> RequestUnstakeInterface,
     unstake                |-> UnstakeInterface,
     claim_funding          |-> ClaimFundingInterface,
     keeper_register        |-> KeeperRegisterInterface,
     keeper_bond            |-> KeeperBondInterface,
     keeper_unbond          |-> KeeperUnbondInterface,
     commit_rebalance_proof |-> CommitRebalanceProofInterface,
     buffer_deposit         |-> BufferDepositInterface,
     report_venue_state     |-> ReportVenueStateInterface]

-----------------------------------------------------------------------------
(* Account layouts: the fields in the order they are stored, with their     *)
(* types.  The padding that ends every type is left out.                    *)

Typed(type, names) == [i \in DOMAIN names |-> <<names[i], type>>]

ConfigBooks ==
    Typed("pubkey", <<"authority", "pending_authority", "guardian", "collateral_mint",
                       "synthetic_mint", "bond_mint", "oracle", "token_program">>)
    \o Typed("hash", <<"feed_id", "last_proof_hash">>)
    \o Typed("u128", <<"acc_funding_per_share">>)
    \o Typed("u64", <<"total_collateral", "pending_collateral", "total_synthetic",
                       "pending_redeem_synthetic", "hedged_notional", "total_staked",
                       "staker_funding_balance", "buffer_balance", "bonded_total",
                       "slashed_total", "min_keeper_bond", "max_synthetic_supply",
                       "rebalance_count", "last_proof_slot">>)

ConfigClocks ==
    Typed("i64", <<"negative_funding_since", "last_settle_at", "venue_state_at">>)
    \o Typed("u64", <<"venue_capacity_notional", "max_reportable_capacity_notional">>)
    \o Typed("u32", <<"max_price_age_sec", "request_ttl_sec", "min_settlement_delay_sec",
                       "unbond_cooldown_sec", "buffer_unlock_delay_sec",
                       "unstake_cooldown_sec", "max_venue_state_age_sec", "keeper_count">>)

ConfigPolicy ==
    Typed("i32", <<"last_net_carry_bps", "min_net_carry_bps">>)
    \o Typed("u16", <<"max_conf_bps", "collateral_ratio_bps", "mint_fee_bps",
                       "redeem_fee_bps", "delta_band_bps", "delta_exit_bps",
                       "delta_hard_bps", "max_hedge_slippage_bps", "buffer_share_bps",
                       "buffer_max_draw_bps", "max_supply_vs_capacity_bps">>)
    \o Typed("u8", <<"collateral_decimals", "synthetic_decimals", "bond_decimals">>)
    \o Typed("bool", <<"mint_paused", "redeem_paused">>)
    \o Typed("u8", <<"bump", "vault_flags", "venue_flags", "last_venue_id">>)

ConfigLayout == ConfigBooks \o ConfigClocks \o ConfigPolicy

KeeperLayout ==
    <<<<"keeper", "pubkey">>, U64("bonded"), U64("slashed"), U64("proofs_committed"),
      <<"registered_at", "i64">>, <<"last_proof_at", "i64">>, U64("last_proof_slot"),
      <<"last_bond_at", "i64">>, <<"active", "bool">>, <<"bump", "u8">>>>

StakePositionLayout ==
    <<<<"owner", "pubkey">>, <<"reward_debt", "u128">>, U64("amount"), U64("unclaimed"),
      U64("claimed_total"), <<"last_update", "i64">>, <<"cooldown_end", "i64">>,
      U64("pending_unstake"), <<"bump", "u8">>>>

MintRequestLayout ==
    <<<<"user", "pubkey">>, U64("nonce"), U64("collateral_amount"), U64("quoted_notional"),
      U64("min_synthetic_out"), <<"quoted_price", "i64">>, <<"created_at", "i64">>,
      <<"deadline", "i64">>, U64("quoted_slot"), <<"quoted_expo", "i32">>, <<"bump", "u8">>>>

RedeemRequestLayout ==
    <<<<"user", "pubkey">>, U64("nonce"), U64("synthetic_amount"), U64("quoted_collateral"),
      U64("min_collateral_out"), <<"quoted_price", "i64">>, <<"created_at", "i64">>,
      <<"deadline", "i64">>, U64("quoted_slot"), <<"quoted_expo", "i32">>, <<"bump", "u8">>>>

RebalanceProofLayout ==
    <<<<"keeper", "pubkey">>, <<"venues_hash", "hash">>, <<"prev_hash", "hash">>,
      <<"this_hash", "hash">>, U64("sequence"), U64("hedged_notional"),
      U64("collateral_notional"), <<"oracle_publish_time", "i64">>,
      U64("oracle_posted_slot"), U64("slot"), <<"timestamp", "i64">>,
      <<"oracle_price", "i64">>, U64("oracle_conf"), <<"delta_bps_before", "i32">>,
      <<"delta_bps_after", "i32">>, <<"oracle_expo", "i32">>, <<"venue_id", "u8">>,
      <<"bump", "u8">>>>

=============================================================================
