-------------------------- MODULE AccountDecoders --------------------------
(***************************************************************************)
(* The account decoders of accounts.ts.  A decoder is a cursor that reads  *)
(* typed fields one after the other; what it gets is whatever the program  *)
(* stored at that offset.  A read of another type, or from the middle of a *)
(* field, is Garbage.                                                      *)
(*                                                                         *)
(* Fields carry the IDL's names, as ACCOUNT_LAYOUTS gives them.  Values    *)
(* are what a view is made from: wide integers become strings and hashes   *)
(* hex without changing what they say, and seconds become milliseconds.    *)
(***************************************************************************)
EXTENDS ProgramInterface, ClientInstructions, FiniteSets

CONSTANTS
    Garbage,              \* bytes read as something else than was stored
    Never                 \* null

\* The bytes each reader of BorshReader consumes.
ByteWidth ==
    [pubkey |-> 32, hash |-> 32, u128 |-> 16, u64 |-> 8, i64 |-> 8,
     u32 |-> 4, i32 |-> 4, u16 |-> 2, u8 |-> 1, bool |-> 1]

DISCRIMINATOR_LEN == 8

MaxWidth == 32

\* The bytes before the n-th field: the m-th field has bytes <<m, 1>>, <<m, 2>>, ...
BytesBefore(fields, n) ==
    {byte \in (1 .. n - 1) \X (1 .. MaxWidth) : byte[2] <= ByteWidth[fields[byte[1]][2]]}

\* Where the cursor stands before each field.
Offsets(fields) ==
    [n \in DOMAIN fields |-> DISCRIMINATOR_LEN + Cardinality(BytesBefore(fields, n))]

Layout ==
    [Config         |-> ConfigLayout,
     Keeper         |-> KeeperLayout,
     StakePosition  |-> StakePositionLayout,
     MintRequest    |-> MintRequestLayout,
     RedeemRequest  |-> RedeemRequestLayout,
     RebalanceProof |-> RebalanceProofLayout]

Kinds == DOMAIN Layout

\* Garbage is none of the fields, and null is no number.
ASSUME DecoderAssumption ==
    /\ \A kind \in Kinds : \A n \in DOMAIN Layout[kind] : Layout[kind][n][1] # Garbage
    /\ Never \notin Int

-----------------------------------------------------------------------------
(* What each decoder reads, in its order.                                   *)

\* Mutant: the oracle and the token program are read in the wrong order.
decodeConfigKeysSwapped ==
    Typed("pubkey", <<"authority", "pending_authority", "guardian", "collateral_mint",
                       "synthetic_mint", "bond_mint", "token_program", "oracle">>)
    \o Typed("hash", <<"feed_id", "last_proof_hash">>)

decodeConfigKeys ==
    Typed("pubkey", <<"authority", "pending_authority", "guardian", "collateral_mint",
                       "synthetic_mint", "bond_mint", "oracle", "token_program">>)
    \o Typed("hash", <<"feed_id", "last_proof_hash">>)

decodeConfigBooks ==
    decodeConfigKeys
    \o Typed("u128", <<"acc_funding_per_share">>)
    \o Typed("u64", <<"total_collateral", "pending_collateral", "total_synthetic",
                       "pending_redeem_synthetic", "hedged_notional", "total_staked",
                       "staker_funding_balance", "buffer_balance", "bonded_total",
                       "slashed_total", "min_keeper_bond", "max_synthetic_supply",
                       "rebalance_count", "last_proof_slot">>)

decodeConfigClocks ==
    Typed("i64", <<"negative_funding_since", "last_settle_at", "venue_state_at">>)
    \o Typed("u64", <<"venue_capacity_notional", "max_reportable_capacity_notional">>)
    \o Typed("u32", <<"max_price_age_sec", "request_ttl_sec", "min_settlement_delay_sec",
                       "unbond_cooldown_sec", "buffer_unlock_delay_sec",
                       "unstake_cooldown_sec", "max_venue_state_age_sec", "keeper_count">>)

decodeConfigPolicy ==
    Typed("i32", <<"last_net_carry_bps", "min_net_carry_bps">>)
    \o Typed("u16", <<"max_conf_bps", "collateral_ratio_bps", "mint_fee_bps",
                       "redeem_fee_bps", "delta_band_bps", "delta_exit_bps",
                       "delta_hard_bps", "max_hedge_slippage_bps", "buffer_share_bps",
                       "buffer_max_draw_bps", "max_supply_vs_capacity_bps">>)
    \o Typed("u8", <<"collateral_decimals", "synthetic_decimals", "bond_decimals">>)
    \o Typed("bool", <<"mint_paused", "redeem_paused">>)
    \o Typed("u8", <<"bump", "vault_flags", "venue_flags", "last_venue_id">>)

decodeConfig == decodeConfigBooks \o decodeConfigClocks \o decodeConfigPolicy

decodeKeeper ==
    <<<<"keeper", "pubkey">>, <<"bonded", "u64">>, <<"slashed", "u64">>,
      <<"proofs_committed", "u64">>, <<"registered_at", "i64">>, <<"last_proof_at", "i64">>,
      <<"last_proof_slot", "u64">>, <<"last_bond_at", "i64">>, <<"active", "bool">>>>

decodeStakePosition ==
    <<<<"owner", "pubkey">>, <<"reward_debt", "u128">>, <<"amount", "u64">>,
      <<"unclaimed", "u64">>, <<"claimed_total", "u64">>, <<"last_update", "i64">>,
      <<"cooldown_end", "i64">>, <<"pending_unstake", "u64">>>>

\* Mutant: the quoted price is read as the 32 bit number it looks like.
decodeMintRequestNarrow ==
    <<<<"user", "pubkey">>, <<"nonce", "u64">>, <<"collateral_amount", "u64">>,
      <<"quoted_notional", "u64">>, <<"min_synthetic_out", "u64">>, <<"quoted_price", "i32">>,
      <<"created_at", "i64">>, <<"deadline", "i64">>, <<"quoted_slot", "u64">>,
      <<"quoted_expo", "i32">>>>

decodeMintRequest ==
    <<<<"user", "pubkey">>, <<"nonce", "u64">>, <<"collateral_amount", "u64">>,
      <<"quoted_notional", "u64">>, <<"min_synthetic_out", "u64">>, <<"quoted_price", "i64">>,
      <<"created_at", "i64">>, <<"deadline", "i64">>, <<"quoted_slot", "u64">>,
      <<"quoted_expo", "i32">>>>

decodeRedeemRequest ==
    <<<<"user", "pubkey">>, <<"nonce", "u64">>, <<"synthetic_amount", "u64">>,
      <<"quoted_collateral", "u64">>, <<"min_collateral_out", "u64">>,
      <<"quoted_price", "i64">>, <<"created_at", "i64">>, <<"deadline", "i64">>,
      <<"quoted_slot", "u64">>, <<"quoted_expo", "i32">>>>

decodeRebalanceProof ==
    <<<<"keeper", "pubkey">>, <<"venues_hash", "hash">>, <<"prev_hash", "hash">>,
      <<"this_hash", "hash">>, <<"sequence", "u64">>, <<"hedged_notional", "u64">>,
      <<"collateral_notional", "u64">>, <<"oracle_publish_time", "i64">>,
      <<"oracle_posted_slot", "u64">>, <<"slot", "u64">>, <<"timestamp", "i64">>,
      <<"oracle_price", "i64">>, <<"oracle_conf", "u64">>, <<"delta_bps_before", "i32">>,
      <<"delta_bps_after", "i32">>, <<"oracle_expo", "i32">>, <<"venue_id", "u8">>>>

Decoder ==
    [Config         |-> decodeConfig,
     Keeper         |-> decodeKeeper,
     StakePosition  |-> decodeStakePosition,
     MintRequest    |-> decodeMintRequest,
     RedeemRequest  |-> decodeRedeemRequest,
     RebalanceProof |-> decodeRebalanceProof]

-----------------------------------------------------------------------------

\* The stored field each read of a decoder falls on.
FieldRead ==
    [kind \in Kinds |->
        LET stored   == Layout[kind]
            storedAt == Offsets(stored)
            reads    == Decoder[kind]
            readAt   == Offsets(reads)
            Hit(n, m) == readAt[n] = storedAt[m] /\ reads[n][2] = stored[m][2]
        IN  [name \in {reads[n][1] : n \in DOMAIN reads} |->
                LET n == CHOOSE n \in DOMAIN reads : reads[n][1] = name
                IN  IF \E m \in DOMAIN stored : Hit(n, m)
                    THEN stored[CHOOSE m \in DOMAIN stored : Hit(n, m)][1]
                    ELSE Garbage]]

\* secondsToMs: timestamps whose zero means "never".
ZeroIsNull ==
    [Config         |-> {"negative_funding_since", "last_settle_at", "venue_state_at"},
     Keeper         |-> {"last_proof_at", "last_bond_at"},
     StakePosition  |-> {"last_update", "cooldown_end"},
     MintRequest    |-> {},
     RedeemRequest  |-> {},
     RebalanceProof |-> {}]

\* Keys that are null when they hold the system program.
NullableKeys == {"pending_authority", "guardian"}

\* A decoded view of stored data.  (requireDiscriminator throws when the address
\* holds another kind; an address holds one kind only, see AddressRead.)
View(kind, stored) ==
    [name \in DOMAIN FieldRead[kind] |->
        LET field == FieldRead[kind][name]
        IN  IF field = Garbage THEN Garbage
            ELSE IF name \in ZeroIsNull[kind] /\ stored[field] = 0 THEN Never
            ELSE IF name \in NullableKeys /\ stored[field] = SystemProgramId THEN Never
            ELSE stored[field]]

\* Mutant: the two sides are compared the wrong way round.
ExpiredBackwards(view, nowMs) == view.deadline > nowMs

\* `expired` of a request view.
Expired(view, nowMs) == nowMs > view.deadline

=============================================================================
