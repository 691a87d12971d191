------------------------ MODULE ProtocolSessionProofs ------------------------
(***************************************************************************)
(* What one client's session keeps to, for any users, keepers, nonces,     *)
(* amounts, oracles, token accounts and integer widths.                    *)
(*                                                                         *)
(* Reading: a decoder names the fields an account begins with, in the order*)
(* they are stored, so its cursor stands where the field begins; offsets   *)
(* grow strictly, so no other field begins there.                          *)
(*                                                                         *)
(* Building: each of the sixteen builders fills the slots and arguments of *)
(* its interface with what was asked for, and every account lies where the *)
(* interface derives it, on any context; those that name the oracle need   *)
(* the current one, and no exit does.                                      *)
(*                                                                         *)
(* Executing: every account the program holds lies at the address its own  *)
(* fields give, and belongs to a user who can name it again.  That is the  *)
(* inductive invariant.                                                    *)
(***************************************************************************)
EXTENDS ProtocolSession, FiniteSetTheorems, SequenceTheorems, TLAPS

-----------------------------------------------------------------------------
(* Sequences of typed fields.                                               *)

Types == DOMAIN ByteWidth

\* A sequence of pairs of a name and a type; the first form is all that offsets
\* need, the second one what concatenation needs as well.
AreFields(fields) ==
    /\ \E len \in Nat : DOMAIN fields = 1 .. len
    /\ \A n \in DOMAIN fields : fields[n][2] \in Types

AreSequence(fields) ==
    \E len \in Nat : /\ fields = [n \in 1 .. len |-> fields[n]]
                     /\ \A n \in 1 .. len : fields[n][2] \in Types

Names(fields) == {fields[n][1] : n \in DOMAIN fields}

\* The types that layouts and decoders use have a width.
LEMMA TypesAre ==
    /\ "pubkey" \in Types /\ "hash" \in Types /\ "u128" \in Types /\ "u64" \in Types
    /\ "i64" \in Types /\ "u32" \in Types /\ "i32" \in Types /\ "u16" \in Types
    /\ "u8" \in Types /\ "bool" \in Types
BY DEF Types, ByteWidth

\* A sequence of pairs of a known type is one of fields.
LEMMA HaveLength ==
    ASSUME NEW fields, DOMAIN fields = 1 .. Len(fields), Len(fields) \in Nat,
           \A n \in DOMAIN fields : fields[n][2] \in Types
    PROVE  AreFields(fields)
BY Zenon DEF AreFields

\* The second form implies the first.
LEMMA SequenceIsFields ==
    ASSUME NEW fields, AreSequence(fields)
    PROVE  AreFields(fields)
<1>1. PICK len \in Nat : /\ fields = [n \in 1 .. len |-> fields[n]]
                         /\ \A n \in 1 .. len : fields[n][2] \in Types
  BY DEF AreSequence
<1>2. DOMAIN fields = 1 .. len
  BY <1>1
<1>. QED  BY <1>1, <1>2, Zenon DEF AreFields

\* Fields of one type are a sequence of fields.
LEMMA TypedAreSequence ==
    ASSUME NEW type \in Types, NEW names,
           DOMAIN names = 1 .. Len(names), Len(names) \in Nat
    PROVE  AreSequence(Typed(type, names))
BY DEF AreSequence, Typed

\* A sequence is the function of its elements.
LEMMA SeqIsFunction ==
    ASSUME NEW S, NEW s \in Seq(S)
    PROVE  s = [n \in DOMAIN s |-> s[n]]
<1>1. s \in [1 .. Len(s) -> S]
  BY LenProperties
<1>. QED  BY <1>1

\* Two such sequences in a row are one, with the names of both.
LEMMA ConcatIsSequence ==
    ASSUME NEW s, NEW t, AreSequence(s), AreSequence(t)
    PROVE  /\ AreSequence(s \o t)
           /\ Names(s) \subseteq Names(s \o t)
           /\ Names(t) \subseteq Names(s \o t)
<1>. DEFINE S   == {s[n] : n \in DOMAIN s} \cup {t[n] : n \in DOMAIN t}
            len == Len(s) + Len(t)
<1>1. s \in Seq(S) /\ t \in Seq(S)
  <2>1. PICK m \in Nat, n \in Nat :
            s = [i \in 1 .. m |-> s[i]] /\ t = [i \in 1 .. n |-> t[i]]
    BY DEF AreSequence
  <2>2. s \in [1 .. m -> S] /\ t \in [1 .. n -> S]
    BY <2>1
  <2>. QED  BY <2>2, SeqDef
<1>2. /\ Len(s) \in Nat /\ Len(t) \in Nat
      /\ DOMAIN s = 1 .. Len(s) /\ DOMAIN t = 1 .. Len(t)
      /\ s \o t \in Seq(S)
      /\ DOMAIN (s \o t) = 1 .. len
      /\ \A i \in 1 .. len : (s \o t)[i] = IF i <= Len(s) THEN s[i] ELSE t[i - Len(s)]
  BY <1>1, ConcatProperties, LenProperties
<1>3. \A i \in DOMAIN s : i \in DOMAIN (s \o t) /\ (s \o t)[i] = s[i]
  BY <1>2
<1>4. \A i \in DOMAIN t : Len(s) + i \in DOMAIN (s \o t) /\ (s \o t)[Len(s) + i] = t[i]
  BY <1>2
<1>5. AreSequence(s \o t)
  <2>1. len \in Nat /\ \A n \in 1 .. len : (s \o t)[n][2] \in Types
    BY <1>2 DEF AreSequence
  <2>2. s \o t = [n \in DOMAIN (s \o t) |-> (s \o t)[n]]
    BY <1>2, SeqIsFunction
  <2>. HIDE DEF len
  <2>. QED  BY <1>2, <2>1, <2>2, Zenon DEF AreSequence
<1>6. Names(s) \subseteq Names(s \o t)
  BY <1>3 DEF Names
<1>7. Names(t) \subseteq Names(s \o t)
  BY <1>4 DEF Names
<1>. QED  BY <1>5, <1>6, <1>7

\* The config's layout, which its decoder repeats field by field.
LEMMA ConfigIsSequence ==
    /\ AreSequence(decodeConfigBooks) /\ AreSequence(decodeConfigClocks)
    /\ AreSequence(decodeConfigPolicy) /\ AreSequence(decodeConfig)
<1>1. AreSequence(decodeConfigKeys)
  BY TypedAreSequence, ConcatIsSequence, TypesAre DEF decodeConfigKeys
<1>2. AreSequence(decodeConfigBooks)
  BY <1>1, TypedAreSequence, ConcatIsSequence, TypesAre DEF decodeConfigBooks
<1>3. AreSequence(decodeConfigClocks)
  BY TypedAreSequence, ConcatIsSequence, TypesAre DEF decodeConfigClocks
<1>4. AreSequence(decodeConfigPolicy)
  <2>. DEFINE carry    == Typed("i32", <<"last_net_carry_bps", "min_net_carry_bps">>)
              rates    == Typed("u16", <<"max_conf_bps", "collateral_ratio_bps", "mint_fee_bps",
                              "redeem_fee_bps", "delta_band_bps", "delta_exit_bps",
                              "delta_hard_bps", "max_hedge_slippage_bps", "buffer_share_bps",
                              "buffer_max_draw_bps", "max_supply_vs_capacity_bps">>)
              decimals == Typed("u8", <<"collateral_decimals", "synthetic_decimals",
                                        "bond_decimals">>)
              pauses   == Typed("bool", <<"mint_paused", "redeem_paused">>)
              flags    == Typed("u8", <<"bump", "vault_flags", "venue_flags",
                                        "last_venue_id">>)
  <2>1. AreSequence(carry) /\ AreSequence(decimals) /\ AreSequence(pauses)
    BY TypedAreSequence, TypesAre
  <2>2. AreSequence(rates)
    BY TypedAreSequence, TypesAre
  <2>3. AreSequence(flags)
    BY TypedAreSequence, TypesAre
  <2>4. decodeConfigPolicy = carry \o rates \o decimals \o pauses \o flags
    BY DEF decodeConfigPolicy
  <2>. HIDE DEF carry, rates, decimals, pauses, flags
  <2>5. AreSequence(carry \o rates)
    BY <2>1, <2>2, ConcatIsSequence
  <2>6. AreSequence(carry \o rates \o decimals)
    BY <2>1, <2>5, ConcatIsSequence
  <2>7. AreSequence(carry \o rates \o decimals \o pauses)
    BY <2>1, <2>6, ConcatIsSequence
  <2>. QED  BY <2>3, <2>4, <2>7, ConcatIsSequence
<1>. QED  BY <1>2, <1>3, <1>4, ConcatIsSequence DEF decodeConfig

\* The config's fields some property looks at.
ConfigNames == {"authority", "collateral_mint", "synthetic_mint", "bond_mint", "oracle",
                "token_program", "venue_state_at", "max_venue_state_age_sec"}

\* The decoder of the config reads all that a context and a reading need of it.
LEMMA ConfigHasNames == ConfigNames \subseteq Names(decodeConfig)
<1>. DEFINE keys == Typed("pubkey", <<"authority", "pending_authority", "guardian",
                        "collateral_mint", "synthetic_mint", "bond_mint", "oracle",
                        "token_program">>)
            hashes == Typed("hash", <<"feed_id", "last_proof_hash">>)
            since  == Typed("i64", <<"negative_funding_since", "last_settle_at",
                                     "venue_state_at">>)
            caps   == Typed("u64", <<"venue_capacity_notional",
                                     "max_reportable_capacity_notional">>)
            ages   == Typed("u32", <<"max_price_age_sec", "request_ttl_sec",
                        "min_settlement_delay_sec", "unbond_cooldown_sec",
                        "buffer_unlock_delay_sec", "unstake_cooldown_sec",
                        "max_venue_state_age_sec", "keeper_count">>)
<1>1. /\ keys[1][1] = "authority" /\ keys[4][1] = "collateral_mint"
      /\ keys[5][1] = "synthetic_mint" /\ keys[6][1] = "bond_mint"
      /\ keys[7][1] = "oracle" /\ keys[8][1] = "token_program"
      /\ 1 \in DOMAIN keys /\ 4 \in DOMAIN keys /\ 5 \in DOMAIN keys
      /\ 6 \in DOMAIN keys /\ 7 \in DOMAIN keys /\ 8 \in DOMAIN keys
  BY DEF Typed
<1>2. /\ since[3][1] = "venue_state_at" /\ 3 \in DOMAIN since
      /\ ages[7][1] = "max_venue_state_age_sec" /\ 7 \in DOMAIN ages
  BY DEF Typed
<1>3. /\ AreSequence(keys) /\ AreSequence(hashes) /\ AreSequence(since)
      /\ AreSequence(caps) /\ AreSequence(ages)
  BY TypedAreSequence, TypesAre, SMTT(30)
<1>. HIDE DEF keys, hashes, since, caps, ages
<1>4. /\ {"authority", "collateral_mint", "synthetic_mint", "bond_mint", "oracle",
          "token_program"} \subseteq Names(keys)
      /\ "venue_state_at" \in Names(since) /\ "max_venue_state_age_sec" \in Names(ages)
  BY <1>1, <1>2 DEF Names
<1>5. decodeConfigKeys = keys \o hashes
  BY DEF decodeConfigKeys, keys, hashes
<1>6. decodeConfigClocks = (since \o caps) \o ages
  BY DEF decodeConfigClocks, since, caps, ages
<1>7. Names(keys) \subseteq Names(decodeConfigKeys) /\ AreSequence(decodeConfigKeys)
  BY <1>3, <1>5, ConcatIsSequence
<1>8. /\ Names(since) \subseteq Names(decodeConfigClocks)
      /\ Names(ages) \subseteq Names(decodeConfigClocks)
  <2>1. AreSequence(since \o caps) /\ Names(since) \subseteq Names(since \o caps)
    BY <1>3, ConcatIsSequence
  <2>. QED  BY <1>3, <1>6, <2>1, ConcatIsSequence
<1>9. Names(decodeConfigKeys) \subseteq Names(decodeConfigBooks)
  <2>. DEFINE shares == Typed("u128", <<"acc_funding_per_share">>)
              totals == Typed("u64", <<"total_collateral", "pending_collateral",
                          "total_synthetic", "pending_redeem_synthetic",
                          "hedged_notional", "total_staked", "staker_funding_balance",
                          "buffer_balance", "bonded_total", "slashed_total",
                          "min_keeper_bond", "max_synthetic_supply", "rebalance_count",
                          "last_proof_slot">>)
  <2>1. AreSequence(shares) /\ AreSequence(totals)
    BY TypedAreSequence, TypesAre
  <2>2. decodeConfigBooks = (decodeConfigKeys \o shares) \o totals
    BY DEF decodeConfigBooks
  <2>. HIDE DEF shares, totals
  <2>3. /\ AreSequence(decodeConfigKeys \o shares)
        /\ Names(decodeConfigKeys) \subseteq Names(decodeConfigKeys \o shares)
    BY <1>7, <2>1, ConcatIsSequence
  <2>. QED  BY <2>1, <2>2, <2>3, ConcatIsSequence
<1>10. /\ Names(decodeConfigBooks) \subseteq Names(decodeConfig)
       /\ Names(decodeConfigClocks) \subseteq Names(decodeConfig)
  <2>1. /\ AreSequence(decodeConfigBooks \o decodeConfigClocks)
        /\ Names(decodeConfigBooks) \subseteq Names(decodeConfigBooks \o decodeConfigClocks)
        /\ Names(decodeConfigClocks) \subseteq Names(decodeConfigBooks \o decodeConfigClocks)
    BY ConfigIsSequence, ConcatIsSequence
  <2>. QED  BY <2>1, ConfigIsSequence, ConcatIsSequence DEF decodeConfig
<1>. QED  BY <1>4, <1>7, <1>8, <1>9, <1>10 DEF ConfigNames

-----------------------------------------------------------------------------
(* A decoder that reads fields in the order they are stored reads each one.  *)

\* The reads of a decoder are the fields stored first.
Prefix(reads, stored) ==
    /\ DOMAIN reads \subseteq DOMAIN stored
    /\ \A n \in DOMAIN reads : reads[n] = stored[n]

\* Every type is at least a byte and at most MaxWidth bytes wide.
LEMMA WidthOfType == \A type \in Types : ByteWidth[type] \in 1 .. MaxWidth
BY DEF Types, ByteWidth, MaxWidth

\* An offset is the discriminator and a finite number of bytes after it.
LEMMA BytesBeforeIsFinite ==
    ASSUME NEW fields, AreFields(fields), NEW n \in DOMAIN fields
    PROVE  /\ IsFiniteSet(BytesBefore(fields, n))
           /\ Offsets(fields)[n] = 8 + Cardinality(BytesBefore(fields, n))
           /\ Cardinality(BytesBefore(fields, n)) \in Nat
<1>1. n - 1 \in Int /\ 1 \in Int /\ MaxWidth \in Int
  BY DEF AreFields, MaxWidth
<1>2. IsFiniteSet(1 .. n - 1) /\ IsFiniteSet(1 .. MaxWidth)
  BY <1>1, FS_Interval
<1>3. IsFiniteSet((1 .. n - 1) \X (1 .. MaxWidth))
  BY <1>2, FS_Product, Zenon
<1>4. IsFiniteSet(BytesBefore(fields, n))
  BY <1>3, FS_Subset DEF BytesBefore
<1>. QED  BY <1>4, FS_CardinalityType DEF Offsets, DISCRIMINATOR_LEN

\* No two fields of an account start at the same byte.
LEMMA OffsetsGrow ==
    ASSUME NEW fields, AreFields(fields),
           NEW m \in DOMAIN fields, NEW n \in DOMAIN fields, m < n
    PROVE  Offsets(fields)[m] < Offsets(fields)[n]
<1>1. PICK len \in Nat : DOMAIN fields = 1 .. len
  BY DEF AreFields
<1>2. m \in 1 .. n - 1 /\ m \in Nat /\ n \in Nat
  BY <1>1
<1>3. IsFiniteSet(BytesBefore(fields, n))
  BY BytesBeforeIsFinite
<1>4. BytesBefore(fields, m) \subseteq BytesBefore(fields, n)
  <2>1. 1 .. m - 1 \subseteq 1 .. n - 1
    BY <1>2
  <2>. QED  BY <2>1 DEF BytesBefore
<1>5. <<m, 1>> \in BytesBefore(fields, n)
  <2>1. <<m, 1>> \in (1 .. n - 1) \X (1 .. MaxWidth)
    BY <1>2 DEF MaxWidth
  <2>2. 1 <= ByteWidth[fields[m][2]]
    BY WidthOfType DEF AreFields
  <2>. QED  BY <2>1, <2>2 DEF BytesBefore
<1>6. <<m, 1>> \notin BytesBefore(fields, m)
  BY <1>2 DEF BytesBefore
<1>7. Cardinality(BytesBefore(fields, m)) < Cardinality(BytesBefore(fields, n))
  BY <1>3, <1>4, <1>5, <1>6, FS_Subset, BytesBeforeIsFinite
<1>. QED  BY <1>7, BytesBeforeIsFinite

\* A decoder that reads a prefix of a layout stands where the layout does.
LEMMA SameOffsets ==
    ASSUME NEW reads, NEW stored, AreFields(reads), AreFields(stored),
           Prefix(reads, stored), NEW n \in DOMAIN reads
    PROVE  Offsets(reads)[n] = Offsets(stored)[n]
<1>1. PICK len \in Nat : DOMAIN reads = 1 .. len
  BY DEF AreFields
<1>2. \A m \in 1 .. n - 1 : m \in DOMAIN reads /\ reads[m] = stored[m]
  BY <1>1 DEF Prefix
<1>3. BytesBefore(reads, n) = BytesBefore(stored, n)
  BY <1>2 DEF BytesBefore
<1>. QED  BY <1>3 DEF Offsets, Prefix

\* The decoder of the config reads its whole layout, field by field.
LEMMA decodeConfigReads == decodeConfig = ConfigLayout
<1>1. decodeConfigBooks = ConfigBooks
  BY DEF decodeConfigBooks, decodeConfigKeys, ConfigBooks
<1>2. decodeConfigClocks = ConfigClocks
  BY DEF decodeConfigClocks, ConfigClocks
<1>3. decodeConfigPolicy = ConfigPolicy
  BY DEF decodeConfigPolicy, ConfigPolicy
<1>. QED  BY <1>1, <1>2, <1>3 DEF decodeConfig, ConfigLayout

\* The five layouts that are written out.
LayoutsAre(layout, decoder) ==
    /\ AreFields(layout) /\ AreFields(decoder) /\ Prefix(decoder, layout)

\* The keeper's decoder reads its layout from the first field on.
LEMMA KeeperReads == LayoutsAre(KeeperLayout, decodeKeeper)
<1>1. /\ DOMAIN KeeperLayout = 1 .. Len(KeeperLayout)
      /\ Len(KeeperLayout) \in Nat
  BY LenProperties DEF KeeperLayout, U64
<1>2. \A n \in DOMAIN KeeperLayout : KeeperLayout[n][2] \in Types
  BY TypesAre DEF KeeperLayout, U64
<1>3. /\ DOMAIN decodeKeeper = 1 .. Len(decodeKeeper)
      /\ Len(decodeKeeper) \in Nat
  BY LenProperties DEF decodeKeeper
<1>4. \A n \in DOMAIN decodeKeeper : decodeKeeper[n][2] \in Types
  BY TypesAre DEF decodeKeeper
<1>5. Prefix(decodeKeeper, KeeperLayout)
  BY DEF decodeKeeper, KeeperLayout, Prefix, U64
<1>6. AreFields(KeeperLayout) /\ AreFields(decodeKeeper)
  BY <1>1, <1>2, <1>3, <1>4, HaveLength
<1>. QED  BY <1>5, <1>6 DEF LayoutsAre

\* The position's decoder reads its layout from the first field on.
LEMMA StakePositionReads == LayoutsAre(StakePositionLayout, decodeStakePosition)
<1>1. /\ DOMAIN StakePositionLayout = 1 .. Len(StakePositionLayout)
      /\ Len(StakePositionLayout) \in Nat
  BY LenProperties DEF StakePositionLayout, U64
<1>2. \A n \in DOMAIN StakePositionLayout : StakePositionLayout[n][2] \in Types
  BY TypesAre DEF StakePositionLayout, U64
<1>3. /\ DOMAIN decodeStakePosition = 1 .. Len(decodeStakePosition)
      /\ Len(decodeStakePosition) \in Nat
  BY LenProperties DEF decodeStakePosition
<1>4. \A n \in DOMAIN decodeStakePosition : decodeStakePosition[n][2] \in Types
  BY TypesAre DEF decodeStakePosition
<1>5. Prefix(decodeStakePosition, StakePositionLayout)
  BY DEF decodeStakePosition, StakePositionLayout, Prefix, U64
<1>6. AreFields(StakePositionLayout) /\ AreFields(decodeStakePosition)
  BY <1>1, <1>2, <1>3, <1>4, HaveLength
<1>. QED  BY <1>5, <1>6 DEF LayoutsAre

\* The mint request's decoder reads its layout from the first field on.
LEMMA MintRequestReads == LayoutsAre(MintRequestLayout, decodeMintRequest)
<1>1. /\ DOMAIN MintRequestLayout = 1 .. Len(MintRequestLayout)
      /\ Len(MintRequestLayout) \in Nat
  BY LenProperties DEF MintRequestLayout, U64
<1>2. \A n \in DOMAIN MintRequestLayout : MintRequestLayout[n][2] \in Types
  BY TypesAre DEF MintRequestLayout, U64
<1>3. /\ DOMAIN decodeMintRequest = 1 .. Len(decodeMintRequest)
      /\ Len(decodeMintRequest) \in Nat
  BY LenProperties DEF decodeMintRequest
<1>4. \A n \in DOMAIN decodeMintRequest : decodeMintRequest[n][2] \in Types
  BY TypesAre DEF decodeMintRequest
<1>5. Prefix(decodeMintRequest, MintRequestLayout)
  BY DEF decodeMintRequest, MintRequestLayout, Prefix, U64
<1>6. AreFields(MintRequestLayout) /\ AreFields(decodeMintRequest)
  BY <1>1, <1>2, <1>3, <1>4, HaveLength
<1>. QED  BY <1>5, <1>6 DEF LayoutsAre

\* The redeem request's decoder reads its layout from the first field on.
LEMMA RedeemRequestReads == LayoutsAre(RedeemRequestLayout, decodeRedeemRequest)
<1>1. /\ DOMAIN RedeemRequestLayout = 1 .. Len(RedeemRequestLayout)
      /\ Len(RedeemRequestLayout) \in Nat
  BY LenProperties DEF RedeemRequestLayout, U64
<1>2. \A n \in DOMAIN RedeemRequestLayout : RedeemRequestLayout[n][2] \in Types
  BY TypesAre DEF RedeemRequestLayout, U64
<1>3. /\ DOMAIN decodeRedeemRequest = 1 .. Len(decodeRedeemRequest)
      /\ Len(decodeRedeemRequest) \in Nat
  BY LenProperties DEF decodeRedeemRequest
<1>4. \A n \in DOMAIN decodeRedeemRequest : decodeRedeemRequest[n][2] \in Types
  BY TypesAre DEF decodeRedeemRequest
<1>5. Prefix(decodeRedeemRequest, RedeemRequestLayout)
  BY DEF decodeRedeemRequest, RedeemRequestLayout, Prefix, U64
<1>6. AreFields(RedeemRequestLayout) /\ AreFields(decodeRedeemRequest)
  BY <1>1, <1>2, <1>3, <1>4, HaveLength
<1>. QED  BY <1>5, <1>6 DEF LayoutsAre

\* The proof's decoder reads its layout from the first field on.
LEMMA RebalanceProofReads == LayoutsAre(RebalanceProofLayout, decodeRebalanceProof)
<1>1. /\ DOMAIN RebalanceProofLayout = 1 .. Len(RebalanceProofLayout)
      /\ Len(RebalanceProofLayout) \in Nat
  BY LenProperties DEF RebalanceProofLayout, U64
<1>2. \A n \in DOMAIN RebalanceProofLayout : RebalanceProofLayout[n][2] \in Types
  BY TypesAre DEF RebalanceProofLayout, U64
<1>3. /\ DOMAIN decodeRebalanceProof = 1 .. Len(decodeRebalanceProof)
      /\ Len(decodeRebalanceProof) \in Nat
  BY LenProperties DEF decodeRebalanceProof
<1>4. \A n \in DOMAIN decodeRebalanceProof : decodeRebalanceProof[n][2] \in Types
  BY TypesAre DEF decodeRebalanceProof
<1>5. Prefix(decodeRebalanceProof, RebalanceProofLayout)
  BY SMTT(60) DEF decodeRebalanceProof, RebalanceProofLayout, Prefix, U64
<1>6. AreFields(RebalanceProofLayout) /\ AreFields(decodeRebalanceProof)
  BY <1>1, <1>2, <1>3, <1>4, HaveLength
<1>. QED  BY <1>5, <1>6 DEF LayoutsAre

\* Every decoder reads a prefix of the fields its account stores.
LEMMA DecodersReadPrefixes ==
    ASSUME NEW kind \in Kinds
    PROVE  /\ AreFields(Layout[kind]) /\ AreFields(Decoder[kind])
           /\ Prefix(Decoder[kind], Layout[kind])
<1>1. CASE kind = "Config"
  <2>1. AreFields(decodeConfig)
    BY ConfigIsSequence, SequenceIsFields
  <2>2. Layout[kind] = decodeConfig /\ Decoder[kind] = decodeConfig
    BY <1>1, decodeConfigReads DEF Layout, Decoder
  <2>. QED  BY <2>1, <2>2 DEF Prefix
<1>2. CASE kind # "Config"
  BY <1>2, KeeperReads, StakePositionReads, MintRequestReads, RedeemRequestReads,
     RebalanceProofReads DEF Kinds, Layout, Decoder, LayoutsAre
<1>. QED  BY <1>1, <1>2

\* So what the cursor gets for a field is that field, and never a part of another.
LEMMA FieldReadIsItself ==
    ASSUME NEW kind \in Kinds
    PROVE  /\ DOMAIN FieldRead[kind] = Names(Decoder[kind])
           /\ \A name \in Names(Decoder[kind]) : FieldRead[kind][name] = name /\ name # Garbage
<1>. DEFINE stored == Layout[kind]
            reads  == Decoder[kind]
            Hit(n, m) == Offsets(reads)[n] = Offsets(stored)[m] /\ reads[n][2] = stored[m][2]
<1>1. AreFields(stored) /\ AreFields(reads) /\ Prefix(reads, stored)
  BY DecodersReadPrefixes
<1>2. FieldRead[kind] =
        [name \in Names(reads) |->
            LET n == CHOOSE n \in DOMAIN reads : reads[n][1] = name
            IN  IF \E m \in DOMAIN stored : Hit(n, m)
                THEN stored[CHOOSE m \in DOMAIN stored : Hit(n, m)][1]
                ELSE Garbage]
  BY DEF FieldRead, Names
<1>. HIDE DEF stored, reads
<1>3. \A n \in DOMAIN reads : Hit(n, n) /\ n \in DOMAIN stored
  BY <1>1, SameOffsets DEF Prefix
<1>4. \A n \in DOMAIN reads, m \in DOMAIN stored : Hit(n, m) => m = n
  <2>. SUFFICES ASSUME NEW n \in DOMAIN reads, NEW m \in DOMAIN stored, Hit(n, m)
                PROVE  m = n
    OBVIOUS
  <2>1. Offsets(stored)[n] = Offsets(stored)[m] /\ n \in DOMAIN stored
    BY <1>3
  <2>2. m \in Nat /\ n \in Nat
    BY <1>1, <2>1 DEF AreFields
  <2>3. Offsets(stored)[n] \in Nat
    BY <1>1, <2>1, BytesBeforeIsFinite
  <2>4. ~(m < n) /\ ~(n < m)
    BY <1>1, <2>1, <2>3, OffsetsGrow
  <2>. QED  BY <2>2, <2>4
<1>5. ASSUME NEW name \in Names(reads)
      PROVE  FieldRead[kind][name] = name /\ name # Garbage
  <2>. DEFINE n == CHOOSE n \in DOMAIN reads : reads[n][1] = name
  <2>1. n \in DOMAIN reads /\ reads[n][1] = name
    BY DEF Names
  <2>. HIDE DEF n
  <2>2. n \in DOMAIN stored /\ Hit(n, n) /\ \A m \in DOMAIN stored : Hit(n, m) => m = n
    BY <1>3, <1>4, <2>1
  <2>3. FieldRead[kind][name] = IF \E m \in DOMAIN stored : Hit(n, m)
                                THEN stored[CHOOSE m \in DOMAIN stored : Hit(n, m)][1]
                                ELSE Garbage
    BY <1>2 DEF n
  <2>. HIDE DEF Hit
  <2>4. (CHOOSE m \in DOMAIN stored : Hit(n, m)) = n
    BY <2>2
  <2>5. FieldRead[kind][name] = stored[n][1]
    BY <2>2, <2>3, <2>4
  <2>6. stored[n][1] # Garbage
    BY <2>2, DecoderAssumption DEF stored
  <2>. QED  BY <1>1, <2>1, <2>5, <2>6 DEF Prefix
<1>. QED  BY <1>2, <1>5 DEF reads

\* A view shows what is stored, or null where zero or the system program means none.
LEMMA ViewShowsStored ==
    ASSUME NEW kind \in Kinds, NEW stored, NEW name \in Names(Decoder[kind])
    PROVE  /\ DOMAIN View(kind, stored) = Names(Decoder[kind])
           /\ View(kind, stored)[name] =
                IF name \in ZeroIsNull[kind] /\ stored[name] = 0 THEN Never
                ELSE IF name \in NullableKeys /\ stored[name] = SystemProgramId THEN Never
                ELSE stored[name]
BY FieldReadIsItself DEF View

-----------------------------------------------------------------------------
(* The config as stored, and the context a client makes of it.              *)

StoredKeys == BlankOf["Config"]

\* A new account has the fields of its layout, and its kind.
LEMMA BlankHas ==
    ASSUME NEW kind \in Kinds
    PROVE  /\ DOMAIN BlankOf[kind] = Names(Layout[kind]) \cup {"kind"}
           /\ BlankOf[kind] = [f \in DOMAIN BlankOf[kind] |-> BlankOf[kind][f]]
           /\ BlankOf[kind].kind = kind
BY DEF BlankOf, Blank, Names

\* What the program stores in the config.
LEMMA StoredConfigHas ==
    ASSUME NEW o, NEW count, NEW at
    PROVE  /\ StoredConfig(o, count, at).oracle = o
           /\ StoredConfig(o, count, at).venue_state_at = at
           /\ StoredConfig(o, count, at).max_venue_state_age_sec = MaxVenueStateAge
           /\ \A f \in {"authority", "collateral_mint", "synthetic_mint", "bond_mint",
                        "token_program"} : StoredConfig(o, count, at)[f] = StoredKeys[f]
<1>1. "Config" \in Kinds /\ Layout["Config"] = decodeConfig
  BY decodeConfigReads DEF Kinds, Layout
<1>2. \A f \in ConfigNames : f \in DOMAIN StoredKeys
  BY <1>1, BlankHas, ConfigHasNames DEF StoredKeys
<1>3. StoredKeys = [f \in DOMAIN StoredKeys |-> StoredKeys[f]]
  BY <1>1, BlankHas DEF StoredKeys
<1>4. StoredConfig(o, count, at) =
        [StoredKeys EXCEPT
            !.oracle = o, !.rebalance_count = count, !.venue_state_at = at,
            !.max_venue_state_age_sec = MaxVenueStateAge, !.guardian = SystemProgramId,
            !.pending_authority = SystemProgramId, !.negative_funding_since = 0]
  BY DEF StoredConfig, StoredKeys
<1>. QED  BY <1>2, <1>3, <1>4 DEF ConfigNames

\* What a client reads of it.
LEMMA ConfigViewHas ==
    ASSUME NEW o, NEW count, NEW at
    PROVE  LET view == View("Config", StoredConfig(o, count, at)) IN
           /\ view.oracle = o
           /\ view.venue_state_at = IF at = 0 THEN Never ELSE at
           /\ view.max_venue_state_age_sec = MaxVenueStateAge
           /\ \A f \in {"authority", "collateral_mint", "synthetic_mint", "bond_mint",
                        "token_program"} : view[f] = StoredKeys[f]
<1>1. "Config" \in Kinds /\ Decoder["Config"] = decodeConfig
  BY DEF Kinds, Layout, Decoder
<1>2. \A f \in ConfigNames :
        View("Config", StoredConfig(o, count, at))[f] =
            IF f = "venue_state_at" /\ StoredConfig(o, count, at)[f] = 0 THEN Never
            ELSE StoredConfig(o, count, at)[f]
  BY <1>1, ConfigHasNames, ViewShowsStored DEF ConfigNames, ZeroIsNull, NullableKeys
<1>. QED  BY <1>2, StoredConfigHas DEF ConfigNames

\* What a context holds, whichever oracle it was read with.
LEMMA ContextHas ==
    ASSUME NEW o \in Oracles
    PROVE  /\ ContextOf[o].programId = PoyzProgram
           /\ ContextOf[o].config = deriveVault("config", PoyzProgram)
           /\ ContextOf[o].collateralMint = StoredKeys.collateral_mint
           /\ ContextOf[o].syntheticMint = StoredKeys.synthetic_mint
           /\ ContextOf[o].bondMint = StoredKeys.bond_mint
           /\ ContextOf[o].oracle = o
           /\ ContextOf[o].tokenProgram = StoredKeys.token_program
BY ConfigViewHas DEF ContextOf, chainContext

-----------------------------------------------------------------------------
(* What the program receives.                                               *)

\* No two slots, and no two arguments, have the same name.
Distinct(interface) ==
    /\ \A m, n \in DOMAIN interface.slots :
         interface.slots[m].name = interface.slots[n].name => m = n
    /\ \A m, n \in DOMAIN interface.args :
         interface.args[m][1] = interface.args[n][1] => m = n

\* A transaction that was built has the shape of the interface.
Matching(tx, interface) ==
    /\ Distinct(interface)
    /\ DOMAIN tx.data = DOMAIN interface.args
    /\ DOMAIN tx.keys = DOMAIN interface.slots
    /\ \A n \in DOMAIN interface.args : /\ tx.data[n][1] = interface.args[n][2]
                                        /\ Fits(tx.data[n])

\* The program finds the n-th key in the n-th slot, and the n-th value in the n-th
\* argument.
LEMMA ReceivedReads ==
    ASSUME NEW tx, NEW interface, Matching(tx, interface)
    PROVE  LET received == Received(tx, interface) IN
           /\ received.name = tx.name
           /\ DOMAIN received.accounts =
                {interface.slots[n].name : n \in DOMAIN interface.slots}
           /\ DOMAIN received.args = {interface.args[n][1] : n \in DOMAIN interface.args}
           /\ \A n \in DOMAIN interface.slots :
                received.accounts[interface.slots[n].name] = tx.keys[n].pubkey
           /\ \A n \in DOMAIN interface.args :
                received.args[interface.args[n][1]] = tx.data[n][2]
<1>. DEFINE received == Received(tx, interface)
            slots == interface.slots
            args  == interface.args
            SlotAt(s) == CHOOSE n \in DOMAIN slots : slots[n].name = s
            ArgAt(a)  == CHOOSE n \in DOMAIN args : args[n][1] = a
<1>1. /\ received.name = tx.name
      /\ received.accounts = [s \in {slots[n].name : n \in DOMAIN slots} |->
                                 tx.keys[SlotAt(s)].pubkey]
      /\ received.args = [a \in {args[n][1] : n \in DOMAIN args} |-> Low(tx.data[ArgAt(a)])]
  BY DEF Received
<1>2. ASSUME NEW n \in DOMAIN slots
      PROVE  SlotAt(slots[n].name) = n
  <2>1. /\ SlotAt(slots[n].name) \in DOMAIN slots
        /\ slots[SlotAt(slots[n].name)].name = slots[n].name
    OBVIOUS
  <2>. HIDE DEF SlotAt
  <2>. QED  BY <2>1 DEF Matching, Distinct
<1>3. ASSUME NEW n \in DOMAIN args
      PROVE  ArgAt(args[n][1]) = n /\ Low(tx.data[n]) = tx.data[n][2]
  <2>1. ArgAt(args[n][1]) \in DOMAIN args /\ args[ArgAt(args[n][1])][1] = args[n][1]
    OBVIOUS
  <2>2. Low(tx.data[n]) = tx.data[n][2]
    BY DEF Matching, Fits, Low
  <2>. HIDE DEF ArgAt
  <2>. QED  BY <2>1, <2>2 DEF Matching, Distinct
<1>. HIDE DEF SlotAt, ArgAt
<1>. QED  BY <1>1, <1>2, <1>3

-----------------------------------------------------------------------------
(* One account in one slot.                                                 *)

\* The program takes a key in a slot.
Takes(received, slot, key, o) ==
    /\ slot.signer => key.signer
    /\ slot.writable => key.writable
    /\ InPlace(received, slot, key.pubkey, o)

\* The context a client holds, whatever oracle it names.
IsContext(ctx) ==
    /\ ctx.programId = PoyzProgram
    /\ ctx.config = deriveVault("config", PoyzProgram)
    /\ ctx.collateralMint = StoredKeys.collateral_mint
    /\ ctx.syntheticMint = StoredKeys.synthetic_mint
    /\ ctx.bondMint = StoredKeys.bond_mint
    /\ ctx.tokenProgram = StoredKeys.token_program

\* A slot without a derivation takes any key with the flags it asks for.
LEMMA TakesAnywhere ==
    \A received, name, k, o :
        /\ Takes(received, Payer(name, Anywhere), Signs(k), o)
        /\ Takes(received, Signer(name, Anywhere), SignsOnly(k), o)
        /\ Takes(received, Writable(name, Anywhere), Writes(k), o)
        /\ Takes(received, TokenProgram, Reads(k), o)
BY DEF Takes, InPlace, Payer, Signer, Writable, Readonly, Slot, TokenProgram, Anywhere,
       Signs, SignsOnly, Writes, Reads, Key

\* Accounts another account of the transaction names.
LEMMA TakesHeld ==
    \A received, name, k, o :
        /\ Takes(received, Payer(name, HeldBy("request")), Signs(k), o)
        /\ Takes(received, Writable(name, HeldBy("request")), Writes(k), o)
        /\ Takes(received, Signer(name, HeldBy("position")), SignsOnly(k), o)
        /\ Takes(received, Payer(name, HeldBy("keeper_account")), Signs(k), o)
        /\ Takes(received, Signer(name, HeldBy("keeper_account")), SignsOnly(k), o)
BY DEF Takes, InPlace, Payer, Signer, Writable, Slot, HeldBy, Signs, SignsOnly, Writes, Key

\* The system program is where its slot wants it.
LEMMA TakesProgram ==
    \A received, o : Takes(received, SystemProgram, Reads(SystemProgramId), o)
BY DEF Takes, InPlace, Readonly, Slot, SystemProgram, At, SystemProgramId, Reads, Key

\* Accounts the config names.
LEMMA TakesMints ==
    ASSUME NEW ctx, IsContext(ctx), NEW received, NEW o
    PROVE  /\ Takes(received, Mint("collateral_mint"), Reads(ctx.collateralMint), o)
           /\ Takes(received, Mint("synthetic_mint"), Reads(ctx.syntheticMint), o)
           /\ Takes(received, Mint("bond_mint"), Reads(ctx.bondMint), o)
           /\ Takes(received, Writable("synthetic_mint", HeldBy("config")),
                    Writes(ctx.syntheticMint), o)
<1>1. /\ StoredConfig(o, 0, 0)["collateral_mint"] = ctx.collateralMint
      /\ StoredConfig(o, 0, 0)["synthetic_mint"] = ctx.syntheticMint
      /\ StoredConfig(o, 0, 0)["bond_mint"] = ctx.bondMint
  BY StoredConfigHas DEF IsContext
<1>2. \A slot, k : /\ slot.place = HeldBy("config") /\ ~slot.signer
                   /\ k = StoredConfig(o, 0, 0)[slot.name]
                   => /\ ~slot.writable => Takes(received, slot, Reads(k), o)
                      /\ Takes(received, slot, Writes(k), o)
  BY DEF Takes, InPlace, Reads, Writes, Key
<1>. QED  BY <1>1, <1>2 DEF Mint, Readonly, Writable, Slot

\* The slot of the oracle takes the current one.
LEMMA TakesOracle ==
    ASSUME NEW received, NEW o
    PROVE  Takes(received, Oracle, Reads(o), o)
<1>1. StoredConfig(o, 0, 0)["oracle"] = o
  BY StoredConfigHas
<1>. QED  BY <1>1 DEF Takes, InPlace, Oracle, Readonly, Slot, HeldBy, Reads, Key

\* Addresses derived from seeds: the seeds the interface names resolve to those
\* the client derives from.
LEMMA TakesDerived ==
    ASSUME NEW received, NEW o, NEW name, NEW places, NEW address,
           address = FindProgramAddress(
                         [n \in DOMAIN places |-> Resolved(received, places[n])], PoyzProgram)
    PROVE  Takes(received, Writable(name, Derived(places)), Writes(address), o)
<1>1. InPlace(received, Writable(name, Derived(places)), address, o)
  BY DEF InPlace, Writable, Slot, Derived
<1>. QED  BY <1>1 DEF Takes, Writable, Slot, Writes, Key

\* What a seed of an interface comes to.
LEMMA ResolvedIs ==
    \A received, s :
        /\ Resolved(received, Text(s)) = Seed(s)
        /\ Resolved(received, KeyIn(s)) = KeySeed(received.accounts[s])
        /\ Resolved(received, ArgOf(s)) = U64Seed(received.args[s])
BY DEF Resolved, Text, KeyIn, ArgOf, Seed, KeySeed, U64Seed

\* Seeds resolve one by one.
LEMMA ResolvedSeeds ==
    ASSUME NEW received, NEW a, NEW b, NEW c
    PROVE  /\ <<Resolved(received, a)>> =
                 [n \in DOMAIN <<a>> |-> Resolved(received, <<a>>[n])]
           /\ <<Resolved(received, a), Resolved(received, b)>> =
                 [n \in DOMAIN <<a, b>> |-> Resolved(received, <<a, b>>[n])]
           /\ <<Resolved(received, a), Resolved(received, b), Resolved(received, c)>> =
                 [n \in DOMAIN <<a, b, c>> |-> Resolved(received, <<a, b, c>>[n])]
OBVIOUS

\* A slot derived from one, two or three seeds takes the address made of them.
LEMMA TakesSeeds ==
    ASSUME NEW received, NEW o, NEW name, NEW a, NEW b, NEW c
    PROVE  /\ Takes(received, Writable(name, Derived(<<a>>)),
                    Writes(FindProgramAddress(<<Resolved(received, a)>>, PoyzProgram)), o)
           /\ Takes(received, Writable(name, Derived(<<a, b>>)),
                    Writes(FindProgramAddress(
                        <<Resolved(received, a), Resolved(received, b)>>, PoyzProgram)), o)
           /\ Takes(received, Writable(name, Derived(<<a, b, c>>)),
                    Writes(FindProgramAddress(
                        <<Resolved(received, a), Resolved(received, b),
                          Resolved(received, c)>>, PoyzProgram)), o)
<1>1. ASSUME NEW places, NEW seeds,
             seeds = [n \in DOMAIN places |-> Resolved(received, places[n])]
      PROVE  Takes(received, Writable(name, Derived(places)),
                   Writes(FindProgramAddress(seeds, PoyzProgram)), o)
  BY <1>1, TakesDerived
<1>2. <<Resolved(received, a)>> = [n \in DOMAIN <<a>> |-> Resolved(received, <<a>>[n])]
  BY ResolvedSeeds
<1>3. <<Resolved(received, a), Resolved(received, b)>> =
        [n \in DOMAIN <<a, b>> |-> Resolved(received, <<a, b>>[n])]
  BY ResolvedSeeds
<1>4. <<Resolved(received, a), Resolved(received, b), Resolved(received, c)>> =
        [n \in DOMAIN <<a, b, c>> |-> Resolved(received, <<a, b, c>>[n])]
  BY ResolvedSeeds
<1>. QED  BY <1>1, <1>2, <1>3, <1>4, Zenon

\* A vault and the config are where the client's derivations put them.
LEMMA TakesVault ==
    ASSUME NEW ctx, IsContext(ctx), NEW received, NEW o, NEW seed
    PROVE  /\ Takes(received, Vault(seed), Writes(deriveVault(seed, ctx.programId)), o)
           /\ Takes(received, Config, Writes(ctx.config), o)
<1>1. \A s : /\ Resolved(received, Text(s)) = Seed(s)
             /\ Takes(received, Writable(s, Derived(<<Text(s)>>)),
                      Writes(FindProgramAddress(<<Resolved(received, Text(s))>>,
                                                PoyzProgram)), o)
  BY ResolvedIs, TakesSeeds
<1>. QED  BY <1>1 DEF IsContext, Vault, Config, deriveVault

\* The collateral vault is, if the mint was passed as well.
LEMMA TakesCollateralVault ==
    ASSUME NEW ctx, IsContext(ctx), NEW received, NEW o,
           received.accounts.collateral_mint = ctx.collateralMint
    PROVE  Takes(received, CollateralVault,
                 Writes(deriveCollateralVault(ctx.collateralMint, ctx.programId)), o)
<1>1. /\ Resolved(received, Text("collateral_vault")) = Seed("collateral_vault")
      /\ Resolved(received, KeyIn("collateral_mint")) = KeySeed(ctx.collateralMint)
  BY ResolvedIs
<1>. QED  BY <1>1, TakesSeeds DEF IsContext, CollateralVault, deriveCollateralVault

\* A keeper's account is the one derived from the keeper passed.
LEMMA TakesKeeperAccount ==
    ASSUME NEW ctx, IsContext(ctx), NEW received, NEW o
    PROVE  Takes(received, KeeperAccount,
                 Writes(deriveKeeper(received.accounts.keeper, ctx.programId)), o)
<1>1. /\ Resolved(received, Text("keeper")) = Seed("keeper")
      /\ Resolved(received, KeyIn("keeper")) = KeySeed(received.accounts.keeper)
  BY ResolvedIs
<1>. QED  BY <1>1, TakesSeeds DEF IsContext, KeeperAccount, deriveKeeper

\* A position is the one derived from the owner passed.
LEMMA TakesPosition ==
    ASSUME NEW ctx, IsContext(ctx), NEW received, NEW o
    PROVE  Takes(received, Position,
                 Writes(deriveStakePosition(received.accounts.owner, ctx.programId)), o)
<1>1. /\ Resolved(received, Text("stake")) = Seed("stake")
      /\ Resolved(received, KeyIn("owner")) = KeySeed(received.accounts.owner)
  BY ResolvedIs
<1>. QED  BY <1>1, TakesSeeds DEF IsContext, Position, deriveStakePosition

\* A request is the one derived from the user and the nonce passed.
LEMMA TakesRequest ==
    ASSUME NEW ctx, IsContext(ctx), NEW received, NEW o
    PROVE  /\ Takes(received, Request("mint_request"),
                    Writes(deriveMintRequest(received.accounts.user, received.args.nonce,
                                             ctx.programId)), o)
           /\ Takes(received, Request("redeem_request"),
                    Writes(deriveRedeemRequest(received.accounts.user, received.args.nonce,
                                               ctx.programId)), o)
<1>1. /\ Resolved(received, Text("mint_request")) = Seed("mint_request")
      /\ Resolved(received, Text("redeem_request")) = Seed("redeem_request")
      /\ Resolved(received, KeyIn("user")) = KeySeed(received.accounts.user)
      /\ Resolved(received, ArgOf("nonce")) = U64Seed(received.args.nonce)
  BY ResolvedIs
<1>. QED  BY <1>1, TakesSeeds DEF IsContext, Request, deriveMintRequest, deriveRedeemRequest

\* A proof is the one derived from the sequence passed.
LEMMA TakesProof ==
    ASSUME NEW ctx, IsContext(ctx), NEW received, NEW o
    PROVE  Takes(received, Writable("proof", Derived(<<Text("proof"), ArgOf("sequence")>>)),
                 Writes(deriveRebalanceProof(received.args.sequence, ctx.programId)), o)
<1>1. /\ Resolved(received, Text("proof")) = Seed("proof")
      /\ Resolved(received, ArgOf("sequence")) = U64Seed(received.args.sequence)
  BY ResolvedIs
<1>. QED  BY <1>1, TakesSeeds DEF IsContext, deriveRebalanceProof

\* The keeper account of a venue report may be left out.
LEMMA TakesReporter ==
    ASSUME NEW ctx, IsContext(ctx), NEW received, NEW o
    PROVE  LET slot == Optional(Readonly("keeper_account",
                                         Derived(<<Text("keeper"), KeyIn("signer")>>)))
           IN  /\ Takes(received, slot, Reads(ctx.programId), o)
               /\ Takes(received, slot,
                        Reads(deriveKeeper(received.accounts.signer, ctx.programId)), o)
<1>. DEFINE places == <<Text("keeper"), KeyIn("signer")>>
<1>1. deriveKeeper(received.accounts.signer, ctx.programId) =
        FindProgramAddress([n \in DOMAIN places |-> Resolved(received, places[n])], PoyzProgram)
  BY ResolvedIs, ResolvedSeeds DEF IsContext, deriveKeeper
<1>. HIDE DEF places
<1>. QED
  BY <1>1 DEF Takes, InPlace, Optional, Readonly, Slot, Derived, Reads, Key, IsContext, places

-----------------------------------------------------------------------------
(* Every transaction as built.                                              *)

\* Every argument and every account a caller names is what the caller means.
Carries(p, tx, interface) ==
    /\ \A n \in DOMAIN interface.args : tx.data[n][2] = p[interface.args[n][1]]
    /\ \A n \in DOMAIN interface.slots :
         interface.slots[n].name \in DOMAIN p
            => tx.keys[n].pubkey = Meant(p, interface.slots[n].name)

\* A transaction that carries what was meant is received as meant.
LEMMA CarriedIsMeant ==
    ASSUME NEW p, NEW tx, NEW interface, Matching(tx, interface), Carries(p, tx, interface)
    PROVE  AsMeant(p, Received(tx, interface))
BY ReceivedReads DEF AsMeant, Carries

\* A transaction of which every slot takes its key is located.
LEMMA TakenIsLocated ==
    ASSUME NEW tx, NEW interface, NEW o, Matching(tx, interface),
           \A n \in DOMAIN interface.slots :
              Takes(Received(tx, interface), interface.slots[n], tx.keys[n], o)
    PROVE  Located(tx, interface, o)
BY DEF Located, Takes, Matching

\* What a call means by each account that it names.
LEMMA MeantIs ==
    ASSUME NEW p, NEW ctx, IsContext(ctx)
    PROVE  /\ \A f \in {"user", "keeper", "owner", "signer", "depositor"} :
                 Meant(p, f) = p[f]
           /\ Meant(p, "user_collateral") =
                 tokenAccount(p.user_collateral, p.user, ctx.collateralMint, ctx)
           /\ Meant(p, "user_synthetic") =
                 tokenAccount(p.user_synthetic, p.user, ctx.syntheticMint, ctx)
           /\ Meant(p, "owner_synthetic") =
                 tokenAccount(p.owner_synthetic, p.owner, ctx.syntheticMint, ctx)
           /\ Meant(p, "depositor_synthetic") =
                 tokenAccount(p.depositor_synthetic, p.depositor, ctx.syntheticMint, ctx)
           /\ Meant(p, "keeper_bond_source") =
                 tokenAccount(p.keeper_bond_source, p.keeper, ctx.bondMint, ctx)
           /\ Meant(p, "keeper_bond_destination") =
                 tokenAccount(p.keeper_bond_destination, p.keeper, ctx.bondMint, ctx)
BY DEF Meant, Holder, MintOf, tokenAccount, IsContext, StoredKeys

\* The names of slots, through the operators that make them.
LEMMA SlotsAreNamed ==
    /\ \A name, place :
         /\ Payer(name, place).name = name /\ Signer(name, place).name = name
         /\ Writable(name, place).name = name /\ Readonly(name, place).name = name
         /\ Optional(Readonly(name, place)).name = name
    /\ \A name : Vault(name).name = name /\ Mint(name).name = name
    /\ \A kind : Request(kind).name = "request"
    /\ Config.name = "config" /\ Oracle.name = "oracle"
    /\ TokenProgram.name = "token_program" /\ SystemProgram.name = "system_program"
    /\ KeeperAccount.name = "keeper_account" /\ Position.name = "position"
    /\ CollateralVault.name = "collateral_vault"
BY DEF Payer, Signer, Writable, Readonly, Optional, Slot, Vault, Mint, Request, Config, Oracle,
       TokenProgram, SystemProgram, KeeperAccount, Position, CollateralVault

\* The address of a key, through the operators that make it.
LEMMA KeysHold ==
    \A k : /\ Signs(k).pubkey = k /\ SignsOnly(k).pubkey = k
           /\ Writes(k).pubkey = k /\ Reads(k).pubkey = k
BY DEF Signs, SignsOnly, Writes, Reads, Key

\* The slots of the interface and the keys the builders put in them.
Fitting(ctx, received, o) ==
    /\ \A name, k :
         /\ Takes(received, Payer(name, Anywhere), Signs(k), o)
         /\ Takes(received, Signer(name, Anywhere), SignsOnly(k), o)
         /\ Takes(received, Writable(name, Anywhere), Writes(k), o)
         /\ Takes(received, Payer(name, HeldBy("request")), Signs(k), o)
         /\ Takes(received, Writable(name, HeldBy("request")), Writes(k), o)
         /\ Takes(received, Signer(name, HeldBy("position")), SignsOnly(k), o)
         /\ Takes(received, Payer(name, HeldBy("keeper_account")), Signs(k), o)
         /\ Takes(received, Signer(name, HeldBy("keeper_account")), SignsOnly(k), o)
    /\ \A k : Takes(received, TokenProgram, Reads(k), o)
    /\ \A s : Takes(received, Vault(s), Writes(deriveVault(s, ctx.programId)), o)
    /\ Takes(received, SystemProgram, Reads(SystemProgramId), o)
    /\ Takes(received, Config, Writes(ctx.config), o)
    /\ Takes(received, Oracle, Reads(o), o)
    /\ Takes(received, Mint("collateral_mint"), Reads(ctx.collateralMint), o)
    /\ Takes(received, Mint("synthetic_mint"), Reads(ctx.syntheticMint), o)
    /\ Takes(received, Mint("bond_mint"), Reads(ctx.bondMint), o)
    /\ Takes(received, Writable("synthetic_mint", HeldBy("config")),
             Writes(ctx.syntheticMint), o)
    /\ received.accounts.collateral_mint = ctx.collateralMint
          => Takes(received, CollateralVault,
                   Writes(deriveCollateralVault(ctx.collateralMint, ctx.programId)), o)
    /\ Takes(received, KeeperAccount,
             Writes(deriveKeeper(received.accounts.keeper, ctx.programId)), o)
    /\ Takes(received, Position,
             Writes(deriveStakePosition(received.accounts.owner, ctx.programId)), o)
    /\ Takes(received, Request("mint_request"),
             Writes(deriveMintRequest(received.accounts.user, received.args.nonce,
                                      ctx.programId)), o)
    /\ Takes(received, Request("redeem_request"),
             Writes(deriveRedeemRequest(received.accounts.user, received.args.nonce,
                                        ctx.programId)), o)

\* All of the slots that do not depend on the call, at once.
LEMMA ContextFits ==
    ASSUME NEW ctx, IsContext(ctx), NEW received, NEW o
    PROVE  Fitting(ctx, received, o)
<1>1. \A name, k :
         /\ Takes(received, Payer(name, Anywhere), Signs(k), o)
         /\ Takes(received, Signer(name, Anywhere), SignsOnly(k), o)
         /\ Takes(received, Writable(name, Anywhere), Writes(k), o)
         /\ Takes(received, Payer(name, HeldBy("request")), Signs(k), o)
         /\ Takes(received, Writable(name, HeldBy("request")), Writes(k), o)
         /\ Takes(received, Signer(name, HeldBy("position")), SignsOnly(k), o)
         /\ Takes(received, Payer(name, HeldBy("keeper_account")), Signs(k), o)
         /\ Takes(received, Signer(name, HeldBy("keeper_account")), SignsOnly(k), o)
         /\ Takes(received, TokenProgram, Reads(k), o)
  BY TakesAnywhere, TakesHeld, Zenon
<1>2. \A s : Takes(received, Vault(s), Writes(deriveVault(s, ctx.programId)), o)
  BY TakesVault
<1>3. /\ Takes(received, SystemProgram, Reads(SystemProgramId), o)
      /\ Takes(received, Config, Writes(ctx.config), o)
      /\ Takes(received, Oracle, Reads(o), o)
  BY TakesProgram, TakesVault, TakesOracle
<1>. QED  BY <1>1, <1>2, <1>3, TakesMints, TakesCollateralVault, TakesKeeperAccount,
             TakesPosition, TakesRequest DEF Fitting

\* What is proved of every builder: the transaction has the shape of the interface,
\* says what the caller means, and every account is where the program looks for it.
Sound(p, tx, interface, o) ==
    /\ Matching(tx, interface)
    /\ AsMeant(p, Received(tx, interface))
    /\ Located(tx, interface, o)

\* A mint request is sound if it names the current oracle; it opens the request of its
\* user and nonce.
LEMMA MintRequestBuilt ==
    ASSUME NEW ctx, IsContext(ctx), NEW p \in Parameters.mint_request, NEW o, o = ctx.oracle,
           buildMintRequest(ctx, p).built
    PROVE  /\ Sound(p, buildMintRequest(ctx, p), MintRequestInterface, o)
           /\ LET received == Received(buildMintRequest(ctx, p), MintRequestInterface) IN
              /\ received.accounts.user = p.user
              /\ received.accounts.request = deriveMintRequest(p.user, p.nonce, PoyzProgram)
              /\ received.args.nonce = p.nonce
<1>. DEFINE tx       == buildMintRequest(ctx, p)
            I        == MintRequestInterface
            received == Received(tx, I)
<1>1. Distinct(I)
  BY SlotsAreNamed DEF Distinct, MintRequestInterface, U64
<1>2. /\ DOMAIN tx.data = DOMAIN I.args /\ DOMAIN tx.keys = DOMAIN I.slots
      /\ \A n \in DOMAIN tx.data : Fits(tx.data[n])
  <2>1. DOMAIN tx.data = DOMAIN I.args /\ DOMAIN tx.keys = DOMAIN I.slots
    BY DEF buildMintRequest, Instruction, MintRequestInterface
  <2>2. \A n \in DOMAIN tx.data : Fits(tx.data[n])
    BY DEF buildMintRequest, Instruction
  <2>. QED  BY <2>1, <2>2
<1>3. \A n \in DOMAIN I.args : /\ tx.data[n][1] = I.args[n][2]
                               /\ tx.data[n][2] = p[I.args[n][1]]
  BY DEF buildMintRequest, Instruction, MintRequestInterface, U64, u64
<1>4. \A n \in DOMAIN I.slots :
         I.slots[n].name \in DOMAIN p => tx.keys[n].pubkey = Meant(p, I.slots[n].name)
  BY MeantIs, SlotsAreNamed, KeysHold
     DEF buildMintRequest, Instruction, MintRequestInterface, Parameters
<1>5. Matching(tx, I) /\ Carries(p, tx, I)
  BY <1>1, <1>2, <1>3, <1>4 DEF Matching, Carries
<1>6. /\ received.accounts.user = p.user
      /\ received.accounts.request = deriveMintRequest(p.user, p.nonce, ctx.programId)
      /\ received.accounts.collateral_mint = ctx.collateralMint
      /\ received.args.nonce = p.nonce
  <2>1. /\ 1 \in DOMAIN I.slots /\ I.slots[1].name = "user"
        /\ tx.keys[1].pubkey = p.user
        /\ 3 \in DOMAIN I.slots /\ I.slots[3].name = "request"
        /\ tx.keys[3].pubkey = deriveMintRequest(p.user, p.nonce, ctx.programId)
        /\ 4 \in DOMAIN I.slots /\ I.slots[4].name = "collateral_mint"
        /\ tx.keys[4].pubkey = ctx.collateralMint
        /\ 1 \in DOMAIN I.args /\ I.args[1][1] = "nonce" /\ tx.data[1][2] = p.nonce
    BY SlotsAreNamed, KeysHold DEF buildMintRequest, Instruction, MintRequestInterface,
           U64, u64
  <2>. HIDE DEF tx, I, received
  <2>2. /\ \A n \in DOMAIN I.slots : received.accounts[I.slots[n].name] = tx.keys[n].pubkey
        /\ \A n \in DOMAIN I.args : received.args[I.args[n][1]] = tx.data[n][2]
    BY <1>5, ReceivedReads DEF received
  <2>. QED  BY <2>1, <2>2
<1>7. \A n \in DOMAIN I.slots : Takes(received, I.slots[n], tx.keys[n], o)
  <2>. Fitting(ctx, received, o)
    BY ContextFits
  <2>. HIDE DEF received
  <2>. QED  BY <1>6 DEF Fitting, buildMintRequest, Instruction, MintRequestInterface
<1>. QED  BY <1>5, <1>6, <1>7, CarriedIsMeant, TakenIsLocated DEF Sound, IsContext

\* The cancel of a mint is sound under every oracle, and finds that same request.
LEMMA MintCancelBuilt ==
    ASSUME NEW ctx, IsContext(ctx), NEW p \in Parameters.mint_cancel, NEW o,
           buildMintCancel(ctx, p).built
    PROVE  /\ Sound(p, buildMintCancel(ctx, p), MintCancelInterface, o)
           /\ LET received == Received(buildMintCancel(ctx, p), MintCancelInterface) IN
              /\ received.accounts.user = p.user
              /\ received.accounts.request = deriveMintRequest(p.user, p.nonce, PoyzProgram)
              /\ received.args.nonce = p.nonce
<1>. DEFINE tx       == buildMintCancel(ctx, p)
            I        == MintCancelInterface
            received == Received(tx, I)
<1>1. Distinct(I)
  BY SlotsAreNamed DEF Distinct, MintCancelInterface, U64
<1>2. /\ DOMAIN tx.data = DOMAIN I.args /\ DOMAIN tx.keys = DOMAIN I.slots
      /\ \A n \in DOMAIN tx.data : Fits(tx.data[n])
  <2>1. DOMAIN tx.data = DOMAIN I.args /\ DOMAIN tx.keys = DOMAIN I.slots
    BY DEF buildMintCancel, Instruction, MintCancelInterface
  <2>2. \A n \in DOMAIN tx.data : Fits(tx.data[n])
    BY DEF buildMintCancel, Instruction
  <2>. QED  BY <2>1, <2>2
<1>3. \A n \in DOMAIN I.args : /\ tx.data[n][1] = I.args[n][2]
                               /\ tx.data[n][2] = p[I.args[n][1]]
  BY DEF buildMintCancel, Instruction, MintCancelInterface, U64, u64
<1>4. \A n \in DOMAIN I.slots :
         I.slots[n].name \in DOMAIN p => tx.keys[n].pubkey = Meant(p, I.slots[n].name)
  BY MeantIs, SlotsAreNamed, KeysHold
     DEF buildMintCancel, Instruction, MintCancelInterface, Parameters
<1>5. Matching(tx, I) /\ Carries(p, tx, I)
  BY <1>1, <1>2, <1>3, <1>4 DEF Matching, Carries
<1>6. /\ received.accounts.user = p.user
      /\ received.accounts.request = deriveMintRequest(p.user, p.nonce, ctx.programId)
      /\ received.accounts.collateral_mint = ctx.collateralMint
      /\ received.args.nonce = p.nonce
  <2>1. /\ 1 \in DOMAIN I.slots /\ I.slots[1].name = "user"
        /\ tx.keys[1].pubkey = p.user
        /\ 3 \in DOMAIN I.slots /\ I.slots[3].name = "request"
        /\ tx.keys[3].pubkey = deriveMintRequest(p.user, p.nonce, ctx.programId)
        /\ 4 \in DOMAIN I.slots /\ I.slots[4].name = "collateral_mint"
        /\ tx.keys[4].pubkey = ctx.collateralMint
        /\ 1 \in DOMAIN I.args /\ I.args[1][1] = "nonce" /\ tx.data[1][2] = p.nonce
    BY SlotsAreNamed, KeysHold DEF buildMintCancel, Instruction, MintCancelInterface,
           U64, u64
  <2>. HIDE DEF tx, I, received
  <2>2. /\ \A n \in DOMAIN I.slots : received.accounts[I.slots[n].name] = tx.keys[n].pubkey
        /\ \A n \in DOMAIN I.args : received.args[I.args[n][1]] = tx.data[n][2]
    BY <1>5, ReceivedReads DEF received
  <2>. QED  BY <2>1, <2>2
<1>7. \A n \in DOMAIN I.slots : Takes(received, I.slots[n], tx.keys[n], o)
  <2>. Fitting(ctx, received, o)
    BY ContextFits
  <2>. HIDE DEF received
  <2>. QED  BY <1>6 DEF Fitting, buildMintCancel, Instruction, MintCancelInterface
<1>. QED  BY <1>5, <1>6, <1>7, CarriedIsMeant, TakenIsLocated DEF Sound, IsContext

\* The confirmation of a mint is sound if it names the current oracle.
LEMMA MintConfirmBuilt ==
    ASSUME NEW ctx, IsContext(ctx), NEW p \in Parameters.mint_confirm, NEW o, o = ctx.oracle,
           buildMintConfirm(ctx, p).built
    PROVE  Sound(p, buildMintConfirm(ctx, p), MintConfirmInterface, o)
<1>. DEFINE tx       == buildMintConfirm(ctx, p)
            I        == MintConfirmInterface
            received == Received(tx, I)
<1>1. Distinct(I)
  BY SlotsAreNamed DEF Distinct, MintConfirmInterface, U64
<1>2. /\ DOMAIN tx.data = DOMAIN I.args /\ DOMAIN tx.keys = DOMAIN I.slots
      /\ \A n \in DOMAIN tx.data : Fits(tx.data[n])
  <2>1. DOMAIN tx.data = DOMAIN I.args /\ DOMAIN tx.keys = DOMAIN I.slots
    BY DEF buildMintConfirm, Instruction, MintConfirmInterface
  <2>2. \A n \in DOMAIN tx.data : Fits(tx.data[n])
    BY DEF buildMintConfirm, Instruction
  <2>. QED  BY <2>1, <2>2
<1>3. \A n \in DOMAIN I.args : /\ tx.data[n][1] = I.args[n][2]
                               /\ tx.data[n][2] = p[I.args[n][1]]
  BY DEF buildMintConfirm, Instruction, MintConfirmInterface, U64, u64, u8, hash
<1>4. \A n \in DOMAIN I.slots :
         I.slots[n].name \in DOMAIN p => tx.keys[n].pubkey = Meant(p, I.slots[n].name)
  BY MeantIs, SlotsAreNamed, KeysHold
     DEF buildMintConfirm, Instruction, MintConfirmInterface, Parameters
<1>5. Matching(tx, I) /\ Carries(p, tx, I)
  BY <1>1, <1>2, <1>3, <1>4 DEF Matching, Carries
<1>6. /\ received.accounts.keeper = p.keeper
      /\ received.accounts.user = p.user
      /\ received.args.nonce = p.nonce
  <2>1. /\ 1 \in DOMAIN I.slots /\ I.slots[1].name = "keeper"
        /\ tx.keys[1].pubkey = p.keeper
        /\ 5 \in DOMAIN I.slots /\ I.slots[5].name = "user"
        /\ tx.keys[5].pubkey = p.user
        /\ 1 \in DOMAIN I.args /\ I.args[1][1] = "nonce" /\ tx.data[1][2] = p.nonce
    BY SlotsAreNamed, KeysHold DEF buildMintConfirm, Instruction, MintConfirmInterface,
           U64, u64
  <2>. HIDE DEF tx, I, received
  <2>2. /\ \A n \in DOMAIN I.slots : received.accounts[I.slots[n].name] = tx.keys[n].pubkey
        /\ \A n \in DOMAIN I.args : received.args[I.args[n][1]] = tx.data[n][2]
    BY <1>5, ReceivedReads DEF received
  <2>. QED  BY <2>1, <2>2
<1>7. \A n \in DOMAIN I.slots : Takes(received, I.slots[n], tx.keys[n], o)
  <2>. Fitting(ctx, received, o)
    BY ContextFits
  <2>. HIDE DEF received
  <2>. QED  BY <1>6 DEF Fitting, buildMintConfirm, Instruction, MintConfirmInterface
<1>. QED  BY <1>5, <1>7, CarriedIsMeant, TakenIsLocated DEF Sound

\* A redeem request is sound if it names the current oracle; it opens the request of
\* its user and nonce.
LEMMA RedeemRequestBuilt ==
    ASSUME NEW ctx, IsContext(ctx), NEW p \in Parameters.redeem_request, NEW o, o = ctx.oracle,
           buildRedeemRequest(ctx, p).built
    PROVE  /\ Sound(p, buildRedeemRequest(ctx, p), RedeemRequestInterface, o)
           /\ LET received == Received(buildRedeemRequest(ctx, p), RedeemRequestInterface) IN
              /\ received.accounts.user = p.user
              /\ received.accounts.request = deriveRedeemRequest(p.user, p.nonce, PoyzProgram)
              /\ received.args.nonce = p.nonce
<1>. DEFINE tx       == buildRedeemRequest(ctx, p)
            I        == RedeemRequestInterface
            received == Received(tx, I)
<1>1. Distinct(I)
  BY SlotsAreNamed DEF Distinct, RedeemRequestInterface, U64
<1>2. /\ DOMAIN tx.data = DOMAIN I.args /\ DOMAIN tx.keys = DOMAIN I.slots
      /\ \A n \in DOMAIN tx.data : Fits(tx.data[n])
  <2>1. DOMAIN tx.data = DOMAIN I.args /\ DOMAIN tx.keys = DOMAIN I.slots
    BY DEF buildRedeemRequest, Instruction, RedeemRequestInterface
  <2>2. \A n \in DOMAIN tx.data : Fits(tx.data[n])
    BY DEF buildRedeemRequest, Instruction
  <2>. QED  BY <2>1, <2>2
<1>3. \A n \in DOMAIN I.args : /\ tx.data[n][1] = I.args[n][2]
                               /\ tx.data[n][2] = p[I.args[n][1]]
  BY DEF buildRedeemRequest, Instruction, RedeemRequestInterface, U64, u64
<1>4. \A n \in DOMAIN I.slots :
         I.slots[n].name \in DOMAIN p => tx.keys[n].pubkey = Meant(p, I.slots[n].name)
  BY MeantIs, SlotsAreNamed, KeysHold
     DEF buildRedeemRequest, Instruction, RedeemRequestInterface, Parameters
<1>5. Matching(tx, I) /\ Carries(p, tx, I)
  BY <1>1, <1>2, <1>3, <1>4 DEF Matching, Carries
<1>6. /\ received.accounts.user = p.user
      /\ received.accounts.request = deriveRedeemRequest(p.user, p.nonce, ctx.programId)
      /\ received.args.nonce = p.nonce
  <2>1. /\ 1 \in DOMAIN I.slots /\ I.slots[1].name = "user"
        /\ tx.keys[1].pubkey = p.user
        /\ 3 \in DOMAIN I.slots /\ I.slots[3].name = "request"
        /\ tx.keys[3].pubkey = deriveRedeemRequest(p.user, p.nonce, ctx.programId)
        /\ 1 \in DOMAIN I.args /\ I.args[1][1] = "nonce" /\ tx.data[1][2] = p.nonce
    BY SlotsAreNamed, KeysHold DEF buildRedeemRequest, Instruction,
           RedeemRequestInterface, U64, u64
  <2>. HIDE DEF tx, I, received
  <2>2. /\ \A n \in DOMAIN I.slots : received.accounts[I.slots[n].name] = tx.keys[n].pubkey
        /\ \A n \in DOMAIN I.args : received.args[I.args[n][1]] = tx.data[n][2]
    BY <1>5, ReceivedReads DEF received
  <2>. QED  BY <2>1, <2>2
<1>7. \A n \in DOMAIN I.slots : Takes(received, I.slots[n], tx.keys[n], o)
  <2>. Fitting(ctx, received, o)
    BY ContextFits
  <2>. HIDE DEF received
  <2>. QED  BY <1>6 DEF Fitting, buildRedeemRequest, Instruction, RedeemRequestInterface
<1>. QED  BY <1>5, <1>6, <1>7, CarriedIsMeant, TakenIsLocated DEF Sound, IsContext

\* The cancel of a redeem is sound under every oracle, and finds that same request.
LEMMA RedeemCancelBuilt ==
    ASSUME NEW ctx, IsContext(ctx), NEW p \in Parameters.redeem_cancel, NEW o,
           buildRedeemCancel(ctx, p).built
    PROVE  /\ Sound(p, buildRedeemCancel(ctx, p), RedeemCancelInterface, o)
           /\ LET received == Received(buildRedeemCancel(ctx, p), RedeemCancelInterface) IN
              /\ received.accounts.user = p.user
              /\ received.accounts.request = deriveRedeemRequest(p.user, p.nonce, PoyzProgram)
              /\ received.args.nonce = p.nonce
<1>. DEFINE tx       == buildRedeemCancel(ctx, p)
            I        == RedeemCancelInterface
            received == Received(tx, I)
<1>1. Distinct(I)
  BY SlotsAreNamed DEF Distinct, RedeemCancelInterface, U64
<1>2. /\ DOMAIN tx.data = DOMAIN I.args /\ DOMAIN tx.keys = DOMAIN I.slots
      /\ \A n \in DOMAIN tx.data : Fits(tx.data[n])
  <2>1. DOMAIN tx.data = DOMAIN I.args /\ DOMAIN tx.keys = DOMAIN I.slots
    BY DEF buildRedeemCancel, Instruction, RedeemCancelInterface
  <2>2. \A n \in DOMAIN tx.data : Fits(tx.data[n])
    BY DEF buildRedeemCancel, Instruction
  <2>. QED  BY <2>1, <2>2
<1>3. \A n \in DOMAIN I.args : /\ tx.data[n][1] = I.args[n][2]
                               /\ tx.data[n][2] = p[I.args[n][1]]
  BY DEF buildRedeemCancel, Instruction, RedeemCancelInterface, U64, u64
<1>4. \A n \in DOMAIN I.slots :
         I.slots[n].name \in DOMAIN p => tx.keys[n].pubkey = Meant(p, I.slots[n].name)
  BY MeantIs, SlotsAreNamed, KeysHold
     DEF buildRedeemCancel, Instruction, RedeemCancelInterface, Parameters
<1>5. Matching(tx, I) /\ Carries(p, tx, I)
  BY <1>1, <1>2, <1>3, <1>4 DEF Matching, Carries
<1>6. /\ received.accounts.user = p.user
      /\ received.accounts.request = deriveRedeemRequest(p.user, p.nonce, ctx.programId)
      /\ received.args.nonce = p.nonce
  <2>1. /\ 1 \in DOMAIN I.slots /\ I.slots[1].name = "user"
        /\ tx.keys[1].pubkey = p.user
        /\ 3 \in DOMAIN I.slots /\ I.slots[3].name = "request"
        /\ tx.keys[3].pubkey = deriveRedeemRequest(p.user, p.nonce, ctx.programId)
        /\ 1 \in DOMAIN I.args /\ I.args[1][1] = "nonce" /\ tx.data[1][2] = p.nonce
    BY SlotsAreNamed, KeysHold DEF buildRedeemCancel, Instruction,
           RedeemCancelInterface, U64, u64
  <2>. HIDE DEF tx, I, received
  <2>2. /\ \A n \in DOMAIN I.slots : received.accounts[I.slots[n].name] = tx.keys[n].pubkey
        /\ \A n \in DOMAIN I.args : received.args[I.args[n][1]] = tx.data[n][2]
    BY <1>5, ReceivedReads DEF received
  <2>. QED  BY <2>1, <2>2
<1>7. \A n \in DOMAIN I.slots : Takes(received, I.slots[n], tx.keys[n], o)
  <2>. Fitting(ctx, received, o)
    BY ContextFits
  <2>. HIDE DEF received
  <2>. QED  BY <1>6 DEF Fitting, buildRedeemCancel, Instruction, RedeemCancelInterface
<1>. QED  BY <1>5, <1>6, <1>7, CarriedIsMeant, TakenIsLocated DEF Sound, IsContext

\* The confirmation of a redeem is sound if it names the current oracle.
LEMMA RedeemConfirmBuilt ==
    ASSUME NEW ctx, IsContext(ctx), NEW p \in Parameters.redeem_confirm, NEW o, o = ctx.oracle,
           buildRedeemConfirm(ctx, p).built
    PROVE  Sound(p, buildRedeemConfirm(ctx, p), RedeemConfirmInterface, o)
<1>. DEFINE tx       == buildRedeemConfirm(ctx, p)
            I        == RedeemConfirmInterface
            received == Received(tx, I)
<1>1. Distinct(I)
  BY SlotsAreNamed DEF Distinct, RedeemConfirmInterface, U64
<1>2. /\ DOMAIN tx.data = DOMAIN I.args /\ DOMAIN tx.keys = DOMAIN I.slots
      /\ \A n \in DOMAIN tx.data : Fits(tx.data[n])
  <2>1. DOMAIN tx.data = DOMAIN I.args /\ DOMAIN tx.keys = DOMAIN I.slots
    BY DEF buildRedeemConfirm, Instruction, RedeemConfirmInterface
  <2>2. \A n \in DOMAIN tx.data : Fits(tx.data[n])
    BY DEF buildRedeemConfirm, Instruction
  <2>. QED  BY <2>1, <2>2
<1>3. \A n \in DOMAIN I.args : /\ tx.data[n][1] = I.args[n][2]
                               /\ tx.data[n][2] = p[I.args[n][1]]
  BY DEF buildRedeemConfirm, Instruction, RedeemConfirmInterface, U64, u64, u8, hash
<1>4. \A n \in DOMAIN I.slots :
         I.slots[n].name \in DOMAIN p => tx.keys[n].pubkey = Meant(p, I.slots[n].name)
  BY MeantIs, SlotsAreNamed, KeysHold
     DEF buildRedeemConfirm, Instruction, RedeemConfirmInterface, Parameters
<1>5. Matching(tx, I) /\ Carries(p, tx, I)
  BY <1>1, <1>2, <1>3, <1>4 DEF Matching, Carries
<1>6. /\ received.accounts.keeper = p.keeper
      /\ received.accounts.user = p.user
      /\ received.accounts.collateral_mint = ctx.collateralMint
      /\ received.args.nonce = p.nonce
  <2>1. /\ 1 \in DOMAIN I.slots /\ I.slots[1].name = "keeper"
        /\ tx.keys[1].pubkey = p.keeper
        /\ 5 \in DOMAIN I.slots /\ I.slots[5].name = "user"
        /\ tx.keys[5].pubkey = p.user
        /\ 8 \in DOMAIN I.slots /\ I.slots[8].name = "collateral_mint"
        /\ tx.keys[8].pubkey = ctx.collateralMint
        /\ 1 \in DOMAIN I.args /\ I.args[1][1] = "nonce" /\ tx.data[1][2] = p.nonce
    BY SlotsAreNamed, KeysHold DEF buildRedeemConfirm, Instruction,
           RedeemConfirmInterface, U64, u64
  <2>. HIDE DEF tx, I, received
  <2>2. /\ \A n \in DOMAIN I.slots : received.accounts[I.slots[n].name] = tx.keys[n].pubkey
        /\ \A n \in DOMAIN I.args : received.args[I.args[n][1]] = tx.data[n][2]
    BY <1>5, ReceivedReads DEF received
  <2>. QED  BY <2>1, <2>2
<1>7. \A n \in DOMAIN I.slots : Takes(received, I.slots[n], tx.keys[n], o)
  <2>. Fitting(ctx, received, o)
    BY ContextFits
  <2>. HIDE DEF received
  <2>. QED  BY <1>6 DEF Fitting, buildRedeemConfirm, Instruction, RedeemConfirmInterface
<1>. QED  BY <1>5, <1>7, CarriedIsMeant, TakenIsLocated DEF Sound

\* A stake is sound under every oracle, and goes to its owner's position.
LEMMA StakeBuilt ==
    ASSUME NEW ctx, IsContext(ctx), NEW p \in Parameters.stake, NEW o,
           buildStake(ctx, p).built
    PROVE  /\ Sound(p, buildStake(ctx, p), StakeInterface, o)
           /\ LET received == Received(buildStake(ctx, p), StakeInterface) IN
              /\ received.accounts.owner = p.owner
              /\ received.accounts.position = deriveStakePosition(p.owner, PoyzProgram)
<1>. DEFINE tx       == buildStake(ctx, p)
            I        == StakeInterface
            received == Received(tx, I)
<1>1. Distinct(I)
  BY SlotsAreNamed DEF Distinct, StakeInterface, U64
<1>2. /\ DOMAIN tx.data = DOMAIN I.args /\ DOMAIN tx.keys = DOMAIN I.slots
      /\ \A n \in DOMAIN tx.data : Fits(tx.data[n])
  <2>1. DOMAIN tx.data = DOMAIN I.args /\ DOMAIN tx.keys = DOMAIN I.slots
    BY DEF buildStake, Instruction, StakeInterface
  <2>2. \A n \in DOMAIN tx.data : Fits(tx.data[n])
    BY DEF buildStake, Instruction
  <2>. QED  BY <2>1, <2>2
<1>3. \A n \in DOMAIN I.args : /\ tx.data[n][1] = I.args[n][2]
                               /\ tx.data[n][2] = p[I.args[n][1]]
  BY DEF buildStake, Instruction, StakeInterface, U64, u64
<1>4. \A n \in DOMAIN I.slots :
         I.slots[n].name \in DOMAIN p => tx.keys[n].pubkey = Meant(p, I.slots[n].name)
  BY MeantIs, SlotsAreNamed, KeysHold
     DEF buildStake, Instruction, StakeInterface, Parameters
<1>5. Matching(tx, I) /\ Carries(p, tx, I)
  BY <1>1, <1>2, <1>3, <1>4 DEF Matching, Carries
<1>6. /\ received.accounts.owner = p.owner
      /\ received.accounts.position = deriveStakePosition(p.owner, ctx.programId)
  <2>1. /\ 1 \in DOMAIN I.slots /\ I.slots[1].name = "owner"
        /\ tx.keys[1].pubkey = p.owner
        /\ 3 \in DOMAIN I.slots /\ I.slots[3].name = "position"
        /\ tx.keys[3].pubkey = deriveStakePosition(p.owner, ctx.programId)
    BY SlotsAreNamed, KeysHold DEF buildStake, Instruction, StakeInterface
  <2>. HIDE DEF tx, I, received
  <2>2. /\ \A n \in DOMAIN I.slots : received.accounts[I.slots[n].name] = tx.keys[n].pubkey
        /\ \A n \in DOMAIN I.args : received.args[I.args[n][1]] = tx.data[n][2]
    BY <1>5, ReceivedReads DEF received
  <2>. QED  BY <2>1, <2>2
<1>7. \A n \in DOMAIN I.slots : Takes(received, I.slots[n], tx.keys[n], o)
  <2>. Fitting(ctx, received, o)
    BY ContextFits
  <2>. HIDE DEF received
  <2>. QED  BY <1>6 DEF Fitting, buildStake, Instruction, StakeInterface
<1>. QED  BY <1>5, <1>6, <1>7, CarriedIsMeant, TakenIsLocated DEF Sound, IsContext

\* The request to unstake is sound under every oracle.
LEMMA RequestUnstakeBuilt ==
    ASSUME NEW ctx, IsContext(ctx), NEW p \in Parameters.request_unstake, NEW o,
           buildRequestUnstake(ctx, p).built
    PROVE  Sound(p, buildRequestUnstake(ctx, p), RequestUnstakeInterface, o)
<1>. DEFINE tx       == buildRequestUnstake(ctx, p)
            I        == RequestUnstakeInterface
            received == Received(tx, I)
<1>1. Distinct(I)
  BY SlotsAreNamed DEF Distinct, RequestUnstakeInterface, U64
<1>2. /\ DOMAIN tx.data = DOMAIN I.args /\ DOMAIN tx.keys = DOMAIN I.slots
      /\ \A n \in DOMAIN tx.data : Fits(tx.data[n])
  <2>1. DOMAIN tx.data = DOMAIN I.args /\ DOMAIN tx.keys = DOMAIN I.slots
    BY DEF buildRequestUnstake, Instruction, RequestUnstakeInterface, PositionKeys
  <2>2. \A n \in DOMAIN tx.data : Fits(tx.data[n])
    BY DEF buildRequestUnstake, Instruction
  <2>. QED  BY <2>1, <2>2
<1>3. \A n \in DOMAIN I.args : /\ tx.data[n][1] = I.args[n][2]
                               /\ tx.data[n][2] = p[I.args[n][1]]
  BY DEF buildRequestUnstake, Instruction, RequestUnstakeInterface, U64, u64
<1>4. \A n \in DOMAIN I.slots :
         I.slots[n].name \in DOMAIN p => tx.keys[n].pubkey = Meant(p, I.slots[n].name)
  BY MeantIs, SlotsAreNamed, KeysHold
     DEF buildRequestUnstake, Instruction, RequestUnstakeInterface, Parameters,
         PositionKeys
<1>5. Matching(tx, I) /\ Carries(p, tx, I)
  BY <1>1, <1>2, <1>3, <1>4 DEF Matching, Carries
<1>6. /\ received.accounts.owner = p.owner
      /\ received.accounts.position = deriveStakePosition(p.owner, ctx.programId)
  <2>1. /\ 1 \in DOMAIN I.slots /\ I.slots[1].name = "owner"
        /\ tx.keys[1].pubkey = p.owner
        /\ 3 \in DOMAIN I.slots /\ I.slots[3].name = "position"
        /\ tx.keys[3].pubkey = deriveStakePosition(p.owner, ctx.programId)
    BY SlotsAreNamed, KeysHold DEF buildRequestUnstake, Instruction,
           RequestUnstakeInterface, PositionKeys
  <2>. HIDE DEF tx, I, received
  <2>2. /\ \A n \in DOMAIN I.slots : received.accounts[I.slots[n].name] = tx.keys[n].pubkey
        /\ \A n \in DOMAIN I.args : received.args[I.args[n][1]] = tx.data[n][2]
    BY <1>5, ReceivedReads DEF received
  <2>. QED  BY <2>1, <2>2
<1>7. \A n \in DOMAIN I.slots : Takes(received, I.slots[n], tx.keys[n], o)
  <2>. Fitting(ctx, received, o)
    BY ContextFits
  <2>. HIDE DEF received
  <2>. QED  BY <1>6 DEF Fitting, buildRequestUnstake, Instruction,
            RequestUnstakeInterface, PositionKeys
<1>. QED  BY <1>5, <1>7, CarriedIsMeant, TakenIsLocated DEF Sound

\* An unstake is sound under every oracle, and comes from its owner's position.
LEMMA UnstakeBuilt ==
    ASSUME NEW ctx, IsContext(ctx), NEW p \in Parameters.unstake, NEW o,
           buildUnstake(ctx, p).built
    PROVE  /\ Sound(p, buildUnstake(ctx, p), UnstakeInterface, o)
           /\ LET received == Received(buildUnstake(ctx, p), UnstakeInterface) IN
              /\ received.accounts.owner = p.owner
              /\ received.accounts.position = deriveStakePosition(p.owner, PoyzProgram)
<1>. DEFINE tx       == buildUnstake(ctx, p)
            I        == UnstakeInterface
            received == Received(tx, I)
<1>1. Distinct(I)
  BY SlotsAreNamed DEF Distinct, UnstakeInterface, U64
<1>2. /\ DOMAIN tx.data = DOMAIN I.args /\ DOMAIN tx.keys = DOMAIN I.slots
      /\ \A n \in DOMAIN tx.data : Fits(tx.data[n])
  <2>1. DOMAIN tx.data = DOMAIN I.args /\ DOMAIN tx.keys = DOMAIN I.slots
    BY DEF buildUnstake, Instruction, UnstakeInterface, PositionKeys
  <2>2. \A n \in DOMAIN tx.data : Fits(tx.data[n])
    BY DEF buildUnstake, Instruction
  <2>. QED  BY <2>1, <2>2
<1>3. \A n \in DOMAIN I.args : /\ tx.data[n][1] = I.args[n][2]
                               /\ tx.data[n][2] = p[I.args[n][1]]
  BY DEF buildUnstake, Instruction, UnstakeInterface, U64, u64
<1>4. \A n \in DOMAIN I.slots :
         I.slots[n].name \in DOMAIN p => tx.keys[n].pubkey = Meant(p, I.slots[n].name)
  BY MeantIs, SlotsAreNamed, KeysHold
     DEF buildUnstake, Instruction, UnstakeInterface, Parameters, PositionKeys
<1>5. Matching(tx, I) /\ Carries(p, tx, I)
  BY <1>1, <1>2, <1>3, <1>4 DEF Matching, Carries
<1>6. /\ received.accounts.owner = p.owner
      /\ received.accounts.position = deriveStakePosition(p.owner, ctx.programId)
  <2>1. /\ 1 \in DOMAIN I.slots /\ I.slots[1].name = "owner"
        /\ tx.keys[1].pubkey = p.owner
        /\ 3 \in DOMAIN I.slots /\ I.slots[3].name = "position"
        /\ tx.keys[3].pubkey = deriveStakePosition(p.owner, ctx.programId)
    BY SlotsAreNamed, KeysHold DEF buildUnstake, Instruction, UnstakeInterface,
           PositionKeys
  <2>. HIDE DEF tx, I, received
  <2>2. /\ \A n \in DOMAIN I.slots : received.accounts[I.slots[n].name] = tx.keys[n].pubkey
        /\ \A n \in DOMAIN I.args : received.args[I.args[n][1]] = tx.data[n][2]
    BY <1>5, ReceivedReads DEF received
  <2>. QED  BY <2>1, <2>2
<1>7. \A n \in DOMAIN I.slots : Takes(received, I.slots[n], tx.keys[n], o)
  <2>. Fitting(ctx, received, o)
    BY ContextFits
  <2>. HIDE DEF received
  <2>. QED  BY <1>6 DEF Fitting, buildUnstake, Instruction, UnstakeInterface,
            PositionKeys
<1>. QED  BY <1>5, <1>6, <1>7, CarriedIsMeant, TakenIsLocated DEF Sound, IsContext

\* A claim is sound under every oracle.
LEMMA ClaimFundingBuilt ==
    ASSUME NEW ctx, IsContext(ctx), NEW p \in Parameters.claim_funding, NEW o,
           buildClaimFunding(ctx, p).built
    PROVE  Sound(p, buildClaimFunding(ctx, p), ClaimFundingInterface, o)
<1>. DEFINE tx       == buildClaimFunding(ctx, p)
            I        == ClaimFundingInterface
            received == Received(tx, I)
<1>1. Distinct(I)
  BY SlotsAreNamed DEF Distinct, ClaimFundingInterface, U64
<1>2. /\ DOMAIN tx.data = DOMAIN I.args /\ DOMAIN tx.keys = DOMAIN I.slots
      /\ \A n \in DOMAIN tx.data : Fits(tx.data[n])
  <2>1. DOMAIN tx.data = DOMAIN I.args /\ DOMAIN tx.keys = DOMAIN I.slots
    BY DEF buildClaimFunding, Instruction, ClaimFundingInterface, PositionKeys
  <2>2. \A n \in DOMAIN tx.data : Fits(tx.data[n])
    BY DEF buildClaimFunding, Instruction
  <2>. QED  BY <2>1, <2>2
<1>3. \A n \in DOMAIN I.args : /\ tx.data[n][1] = I.args[n][2]
                               /\ tx.data[n][2] = p[I.args[n][1]]
  BY DEF buildClaimFunding, Instruction, ClaimFundingInterface, U64, u64
<1>4. \A n \in DOMAIN I.slots :
         I.slots[n].name \in DOMAIN p => tx.keys[n].pubkey = Meant(p, I.slots[n].name)
  BY MeantIs, SlotsAreNamed, KeysHold
     DEF buildClaimFunding, Instruction, ClaimFundingInterface, Parameters, PositionKeys
<1>5. Matching(tx, I) /\ Carries(p, tx, I)
  BY <1>1, <1>2, <1>3, <1>4 DEF Matching, Carries
<1>6. /\ received.accounts.owner = p.owner
      /\ received.accounts.position = deriveStakePosition(p.owner, ctx.programId)
  <2>1. /\ 1 \in DOMAIN I.slots /\ I.slots[1].name = "owner"
        /\ tx.keys[1].pubkey = p.owner
        /\ 3 \in DOMAIN I.slots /\ I.slots[3].name = "position"
        /\ tx.keys[3].pubkey = deriveStakePosition(p.owner, ctx.programId)
    BY SlotsAreNamed, KeysHold DEF buildClaimFunding, Instruction,
           ClaimFundingInterface, PositionKeys
  <2>. HIDE DEF tx, I, received
  <2>2. /\ \A n \in DOMAIN I.slots : received.accounts[I.slots[n].name] = tx.keys[n].pubkey
        /\ \A n \in DOMAIN I.args : received.args[I.args[n][1]] = tx.data[n][2]
    BY <1>5, ReceivedReads DEF received
  <2>. QED  BY <2>1, <2>2
<1>7. \A n \in DOMAIN I.slots : Takes(received, I.slots[n], tx.keys[n], o)
  <2>. Fitting(ctx, received, o)
    BY ContextFits
  <2>. HIDE DEF received
  <2>. QED  BY <1>6 DEF Fitting, buildClaimFunding, Instruction, ClaimFundingInterface,
            PositionKeys
<1>. QED  BY <1>5, <1>7, CarriedIsMeant, TakenIsLocated DEF Sound

\* A registration is sound under every oracle, and opens the keeper's account.
LEMMA KeeperRegisterBuilt ==
    ASSUME NEW ctx, IsContext(ctx), NEW p \in Parameters.keeper_register, NEW o,
           buildKeeperRegister(ctx, p).built
    PROVE  /\ Sound(p, buildKeeperRegister(ctx, p), KeeperRegisterInterface, o)
           /\ LET received == Received(buildKeeperRegister(ctx, p), KeeperRegisterInterface) IN
              /\ received.accounts.keeper = p.keeper
              /\ received.accounts.keeper_account = deriveKeeper(p.keeper, PoyzProgram)
<1>. DEFINE tx       == buildKeeperRegister(ctx, p)
            I        == KeeperRegisterInterface
            received == Received(tx, I)
<1>1. Distinct(I)
  BY SlotsAreNamed DEF Distinct, KeeperRegisterInterface, U64
<1>2. /\ DOMAIN tx.data = DOMAIN I.args /\ DOMAIN tx.keys = DOMAIN I.slots
      /\ \A n \in DOMAIN tx.data : Fits(tx.data[n])
  <2>1. DOMAIN tx.data = DOMAIN I.args /\ DOMAIN tx.keys = DOMAIN I.slots
    BY DEF buildKeeperRegister, Instruction, KeeperRegisterInterface
  <2>2. \A n \in DOMAIN tx.data : Fits(tx.data[n])
    BY DEF buildKeeperRegister, Instruction
  <2>. QED  BY <2>1, <2>2
<1>3. \A n \in DOMAIN I.args : /\ tx.data[n][1] = I.args[n][2]
                               /\ tx.data[n][2] = p[I.args[n][1]]
  BY DEF buildKeeperRegister, Instruction, KeeperRegisterInterface, U64, u64
<1>4. \A n \in DOMAIN I.slots :
         I.slots[n].name \in DOMAIN p => tx.keys[n].pubkey = Meant(p, I.slots[n].name)
  BY MeantIs, SlotsAreNamed, KeysHold
     DEF buildKeeperRegister, Instruction, KeeperRegisterInterface, Parameters
<1>5. Matching(tx, I) /\ Carries(p, tx, I)
  BY <1>1, <1>2, <1>3, <1>4 DEF Matching, Carries
<1>6. /\ received.accounts.keeper = p.keeper
      /\ received.accounts.keeper_account = deriveKeeper(p.keeper, ctx.programId)
  <2>1. /\ 1 \in DOMAIN I.slots /\ I.slots[1].name = "keeper"
        /\ tx.keys[1].pubkey = p.keeper
        /\ 3 \in DOMAIN I.slots /\ I.slots[3].name = "keeper_account"
        /\ tx.keys[3].pubkey = deriveKeeper(p.keeper, ctx.programId)
    BY SlotsAreNamed, KeysHold DEF buildKeeperRegister, Instruction,
           KeeperRegisterInterface
  <2>. HIDE DEF tx, I, received
  <2>2. /\ \A n \in DOMAIN I.slots : received.accounts[I.slots[n].name] = tx.keys[n].pubkey
        /\ \A n \in DOMAIN I.args : received.args[I.args[n][1]] = tx.data[n][2]
    BY <1>5, ReceivedReads DEF received
  <2>. QED  BY <2>1, <2>2
<1>7. \A n \in DOMAIN I.slots : Takes(received, I.slots[n], tx.keys[n], o)
  <2>. Fitting(ctx, received, o)
    BY ContextFits
  <2>. HIDE DEF received
  <2>. QED  BY <1>6 DEF Fitting, buildKeeperRegister, Instruction,
            KeeperRegisterInterface
<1>. QED  BY <1>5, <1>6, <1>7, CarriedIsMeant, TakenIsLocated DEF Sound, IsContext

\* A bond is sound under every oracle.
LEMMA KeeperBondBuilt ==
    ASSUME NEW ctx, IsContext(ctx), NEW p \in Parameters.keeper_bond, NEW o,
           buildKeeperBond(ctx, p).built
    PROVE  Sound(p, buildKeeperBond(ctx, p), KeeperBondInterface, o)
<1>. DEFINE tx       == buildKeeperBond(ctx, p)
            I        == KeeperBondInterface
            received == Received(tx, I)
<1>1. Distinct(I)
  BY SlotsAreNamed DEF Distinct, KeeperBondInterface, U64
<1>2. /\ DOMAIN tx.data = DOMAIN I.args /\ DOMAIN tx.keys = DOMAIN I.slots
      /\ \A n \in DOMAIN tx.data : Fits(tx.data[n])
  <2>1. DOMAIN tx.data = DOMAIN I.args /\ DOMAIN tx.keys = DOMAIN I.slots
    BY DEF buildKeeperBond, Instruction, KeeperBondInterface
  <2>2. \A n \in DOMAIN tx.data : Fits(tx.data[n])
    BY DEF buildKeeperBond, Instruction
  <2>. QED  BY <2>1, <2>2
<1>3. \A n \in DOMAIN I.args : /\ tx.data[n][1] = I.args[n][2]
                               /\ tx.data[n][2] = p[I.args[n][1]]
  BY DEF buildKeeperBond, Instruction, KeeperBondInterface, U64, u64
<1>4. \A n \in DOMAIN I.slots :
         I.slots[n].name \in DOMAIN p => tx.keys[n].pubkey = Meant(p, I.slots[n].name)
  BY MeantIs, SlotsAreNamed, KeysHold
     DEF buildKeeperBond, Instruction, KeeperBondInterface, Parameters
<1>5. Matching(tx, I) /\ Carries(p, tx, I)
  BY <1>1, <1>2, <1>3, <1>4 DEF Matching, Carries
<1>6. /\ received.accounts.keeper = p.keeper
      /\ received.accounts.keeper_account = deriveKeeper(p.keeper, ctx.programId)
  <2>1. /\ 1 \in DOMAIN I.slots /\ I.slots[1].name = "keeper"
        /\ tx.keys[1].pubkey = p.keeper
        /\ 3 \in DOMAIN I.slots /\ I.slots[3].name = "keeper_account"
        /\ tx.keys[3].pubkey = deriveKeeper(p.keeper, ctx.programId)
    BY SlotsAreNamed, KeysHold DEF buildKeeperBond, Instruction, KeeperBondInterface
  <2>. HIDE DEF tx, I, received
  <2>2. /\ \A n \in DOMAIN I.slots : received.accounts[I.slots[n].name] = tx.keys[n].pubkey
        /\ \A n \in DOMAIN I.args : received.args[I.args[n][1]] = tx.data[n][2]
    BY <1>5, ReceivedReads DEF received
  <2>. QED  BY <2>1, <2>2
<1>7. \A n \in DOMAIN I.slots : Takes(received, I.slots[n], tx.keys[n], o)
  <2>. Fitting(ctx, received, o)
    BY ContextFits
  <2>. HIDE DEF received
  <2>. QED  BY <1>6 DEF Fitting, buildKeeperBond, Instruction, KeeperBondInterface
<1>. QED  BY <1>5, <1>7, CarriedIsMeant, TakenIsLocated DEF Sound

\* The withdrawal of a bond is sound under every oracle.
LEMMA KeeperUnbondBuilt ==
    ASSUME NEW ctx, IsContext(ctx), NEW p \in Parameters.keeper_unbond, NEW o,
           buildKeeperUnbond(ctx, p).built
    PROVE  Sound(p, buildKeeperUnbond(ctx, p), KeeperUnbondInterface, o)
<1>. DEFINE tx       == buildKeeperUnbond(ctx, p)
            I        == KeeperUnbondInterface
            received == Received(tx, I)
<1>1. Distinct(I)
  BY SlotsAreNamed DEF Distinct, KeeperUnbondInterface, U64
<1>2. /\ DOMAIN tx.data = DOMAIN I.args /\ DOMAIN tx.keys = DOMAIN I.slots
      /\ \A n \in DOMAIN tx.data : Fits(tx.data[n])
  <2>1. DOMAIN tx.data = DOMAIN I.args /\ DOMAIN tx.keys = DOMAIN I.slots
    BY DEF buildKeeperUnbond, Instruction, KeeperUnbondInterface
  <2>2. \A n \in DOMAIN tx.data : Fits(tx.data[n])
    BY DEF buildKeeperUnbond, Instruction
  <2>. QED  BY <2>1, <2>2
<1>3. \A n \in DOMAIN I.args : /\ tx.data[n][1] = I.args[n][2]
                               /\ tx.data[n][2] = p[I.args[n][1]]
  BY DEF buildKeeperUnbond, Instruction, KeeperUnbondInterface, U64, u64
<1>4. \A n \in DOMAIN I.slots :
         I.slots[n].name \in DOMAIN p => tx.keys[n].pubkey = Meant(p, I.slots[n].name)
  BY MeantIs, SlotsAreNamed, KeysHold
     DEF buildKeeperUnbond, Instruction, KeeperUnbondInterface, Parameters
<1>5. Matching(tx, I) /\ Carries(p, tx, I)
  BY <1>1, <1>2, <1>3, <1>4 DEF Matching, Carries
<1>6. /\ received.accounts.keeper = p.keeper
      /\ received.accounts.keeper_account = deriveKeeper(p.keeper, ctx.programId)
  <2>1. /\ 1 \in DOMAIN I.slots /\ I.slots[1].name = "keeper"
        /\ tx.keys[1].pubkey = p.keeper
        /\ 3 \in DOMAIN I.slots /\ I.slots[3].name = "keeper_account"
        /\ tx.keys[3].pubkey = deriveKeeper(p.keeper, ctx.programId)
    BY SlotsAreNamed, KeysHold DEF buildKeeperUnbond, Instruction, KeeperUnbondInterface
  <2>. HIDE DEF tx, I, received
  <2>2. /\ \A n \in DOMAIN I.slots : received.accounts[I.slots[n].name] = tx.keys[n].pubkey
        /\ \A n \in DOMAIN I.args : received.args[I.args[n][1]] = tx.data[n][2]
    BY <1>5, ReceivedReads DEF received
  <2>. QED  BY <2>1, <2>2
<1>7. \A n \in DOMAIN I.slots : Takes(received, I.slots[n], tx.keys[n], o)
  <2>. Fitting(ctx, received, o)
    BY ContextFits
  <2>. HIDE DEF received
  <2>. QED  BY <1>6 DEF Fitting, buildKeeperUnbond, Instruction, KeeperUnbondInterface
<1>. QED  BY <1>5, <1>7, CarriedIsMeant, TakenIsLocated DEF Sound

\* A commit is sound if it names the current oracle; it opens the proof of its sequence.
LEMMA CommitRebalanceProofBuilt ==
    ASSUME NEW ctx, IsContext(ctx), NEW p \in Parameters.commit_rebalance_proof,
           NEW o, o = ctx.oracle,
           buildCommitRebalanceProof(ctx, p).built
    PROVE  /\ Sound(p, buildCommitRebalanceProof(ctx, p), CommitRebalanceProofInterface, o)
           /\ LET received == Received(buildCommitRebalanceProof(ctx, p),
                                       CommitRebalanceProofInterface) IN
              /\ received.accounts.proof = deriveRebalanceProof(p.sequence, PoyzProgram)
              /\ received.args.sequence = p.sequence
<1>. DEFINE tx       == buildCommitRebalanceProof(ctx, p)
            I        == CommitRebalanceProofInterface
            received == Received(tx, I)
<1>1. Distinct(I)
  BY SlotsAreNamed DEF Distinct, CommitRebalanceProofInterface, U64
<1>2. /\ DOMAIN tx.data = DOMAIN I.args /\ DOMAIN tx.keys = DOMAIN I.slots
      /\ \A n \in DOMAIN tx.data : Fits(tx.data[n])
  <2>1. DOMAIN tx.data = DOMAIN I.args /\ DOMAIN tx.keys = DOMAIN I.slots
    BY DEF buildCommitRebalanceProof, Instruction, CommitRebalanceProofInterface
  <2>2. \A n \in DOMAIN tx.data : Fits(tx.data[n])
    BY DEF buildCommitRebalanceProof, Instruction
  <2>. QED  BY <2>1, <2>2
<1>3. \A n \in DOMAIN I.args : /\ tx.data[n][1] = I.args[n][2]
                               /\ tx.data[n][2] = p[I.args[n][1]]
  BY DEF buildCommitRebalanceProof, Instruction, CommitRebalanceProofInterface, U64,
         u64, u8, hash, i32
<1>4. \A n \in DOMAIN I.slots :
         I.slots[n].name \in DOMAIN p => tx.keys[n].pubkey = Meant(p, I.slots[n].name)
  BY MeantIs, SlotsAreNamed, KeysHold
     DEF buildCommitRebalanceProof, Instruction, CommitRebalanceProofInterface,
         Parameters
<1>5. Matching(tx, I) /\ Carries(p, tx, I)
  BY <1>1, <1>2, <1>3, <1>4 DEF Matching, Carries
<1>6. /\ received.accounts.keeper = p.keeper
      /\ received.accounts.proof = deriveRebalanceProof(p.sequence, ctx.programId)
      /\ received.args.sequence = p.sequence
  <2>1. /\ 1 \in DOMAIN I.slots /\ I.slots[1].name = "keeper"
        /\ tx.keys[1].pubkey = p.keeper
        /\ 4 \in DOMAIN I.slots /\ I.slots[4].name = "proof"
        /\ tx.keys[4].pubkey = deriveRebalanceProof(p.sequence, ctx.programId)
        /\ 1 \in DOMAIN I.args /\ I.args[1][1] = "sequence" /\ tx.data[1][2] = p.sequence
    BY SlotsAreNamed, KeysHold DEF buildCommitRebalanceProof, Instruction,
           CommitRebalanceProofInterface, U64, u64
  <2>. HIDE DEF tx, I, received
  <2>2. /\ \A n \in DOMAIN I.slots : received.accounts[I.slots[n].name] = tx.keys[n].pubkey
        /\ \A n \in DOMAIN I.args : received.args[I.args[n][1]] = tx.data[n][2]
    BY <1>5, ReceivedReads DEF received
  <2>. QED  BY <2>1, <2>2
<1>7. \A n \in DOMAIN I.slots : Takes(received, I.slots[n], tx.keys[n], o)
  <2>. Fitting(ctx, received, o)
    BY ContextFits
  <2>1. Takes(received, Writable("proof", Derived(<<Text("proof"), ArgOf("sequence")>>)),
              Writes(deriveRebalanceProof(p.sequence, ctx.programId)), o)
    BY <1>6, TakesProof
  <2>. HIDE DEF received
  <2>. QED  BY <1>6, <2>1 DEF Fitting, buildCommitRebalanceProof, Instruction,
            CommitRebalanceProofInterface
<1>. QED  BY <1>5, <1>6, <1>7, CarriedIsMeant, TakenIsLocated DEF Sound, IsContext

\* A deposit is sound under every oracle.
LEMMA BufferDepositBuilt ==
    ASSUME NEW ctx, IsContext(ctx), NEW p \in Parameters.buffer_deposit, NEW o,
           buildBufferDeposit(ctx, p).built
    PROVE  Sound(p, buildBufferDeposit(ctx, p), BufferDepositInterface, o)
<1>. DEFINE tx       == buildBufferDeposit(ctx, p)
            I        == BufferDepositInterface
            received == Received(tx, I)
<1>1. Distinct(I)
  BY SlotsAreNamed DEF Distinct, BufferDepositInterface, U64
<1>2. /\ DOMAIN tx.data = DOMAIN I.args /\ DOMAIN tx.keys = DOMAIN I.slots
      /\ \A n \in DOMAIN tx.data : Fits(tx.data[n])
  <2>1. DOMAIN tx.data = DOMAIN I.args /\ DOMAIN tx.keys = DOMAIN I.slots
    BY DEF buildBufferDeposit, Instruction, BufferDepositInterface
  <2>2. \A n \in DOMAIN tx.data : Fits(tx.data[n])
    BY DEF buildBufferDeposit, Instruction
  <2>. QED  BY <2>1, <2>2
<1>3. \A n \in DOMAIN I.args : /\ tx.data[n][1] = I.args[n][2]
                               /\ tx.data[n][2] = p[I.args[n][1]]
  BY DEF buildBufferDeposit, Instruction, BufferDepositInterface, U64, u64
<1>4. \A n \in DOMAIN I.slots :
         I.slots[n].name \in DOMAIN p => tx.keys[n].pubkey = Meant(p, I.slots[n].name)
  BY MeantIs, SlotsAreNamed, KeysHold
     DEF buildBufferDeposit, Instruction, BufferDepositInterface, Parameters
<1>5. Matching(tx, I) /\ Carries(p, tx, I)
  BY <1>1, <1>2, <1>3, <1>4 DEF Matching, Carries
<1>6. \A n \in DOMAIN I.slots : Takes(received, I.slots[n], tx.keys[n], o)
  <2>. Fitting(ctx, received, o)
    BY ContextFits
  <2>. HIDE DEF received
  <2>. QED  BY DEF Fitting, buildBufferDeposit, Instruction, BufferDepositInterface
<1>. QED  BY <1>5, <1>6, CarriedIsMeant, TakenIsLocated DEF Sound

\* A report is sound under every oracle, signed by the authority or by a keeper.
LEMMA ReportVenueStateBuilt ==
    ASSUME NEW ctx, IsContext(ctx), NEW p \in Parameters.report_venue_state, NEW o,
           buildReportVenueState(ctx, p).built
    PROVE  Sound(p, buildReportVenueState(ctx, p), ReportVenueStateInterface, o)
<1>. DEFINE tx       == buildReportVenueState(ctx, p)
            I        == ReportVenueStateInterface
            received == Received(tx, I)
<1>1. Distinct(I)
  BY SlotsAreNamed DEF Distinct, ReportVenueStateInterface, U64
<1>2. /\ DOMAIN tx.data = DOMAIN I.args /\ DOMAIN tx.keys = DOMAIN I.slots
      /\ \A n \in DOMAIN tx.data : Fits(tx.data[n])
  <2>1. DOMAIN tx.data = DOMAIN I.args /\ DOMAIN tx.keys = DOMAIN I.slots
    BY DEF buildReportVenueState, Instruction, ReportVenueStateInterface
  <2>2. \A n \in DOMAIN tx.data : Fits(tx.data[n])
    BY DEF buildReportVenueState, Instruction
  <2>. QED  BY <2>1, <2>2
<1>3. \A n \in DOMAIN I.args : /\ tx.data[n][1] = I.args[n][2]
                               /\ tx.data[n][2] = p[I.args[n][1]]
  BY DEF buildReportVenueState, Instruction, ReportVenueStateInterface, U64, u64, u8,
         i32
<1>4. \A n \in DOMAIN I.slots :
         I.slots[n].name \in DOMAIN p => tx.keys[n].pubkey = Meant(p, I.slots[n].name)
  BY MeantIs, SlotsAreNamed, KeysHold
     DEF buildReportVenueState, Instruction, ReportVenueStateInterface, Parameters
<1>5. Matching(tx, I) /\ Carries(p, tx, I)
  BY <1>1, <1>2, <1>3, <1>4 DEF Matching, Carries
<1>6. /\ received.accounts.signer = p.signer
  <2>1. /\ 1 \in DOMAIN I.slots /\ I.slots[1].name = "signer"
        /\ tx.keys[1].pubkey = p.signer
    BY SlotsAreNamed, KeysHold DEF buildReportVenueState, Instruction,
           ReportVenueStateInterface
  <2>. HIDE DEF tx, I, received
  <2>2. /\ \A n \in DOMAIN I.slots : received.accounts[I.slots[n].name] = tx.keys[n].pubkey
        /\ \A n \in DOMAIN I.args : received.args[I.args[n][1]] = tx.data[n][2]
    BY <1>5, ReceivedReads DEF received
  <2>. QED  BY <2>1, <2>2
<1>7. \A n \in DOMAIN I.slots : Takes(received, I.slots[n], tx.keys[n], o)
  <2>. Fitting(ctx, received, o)
    BY ContextFits
  <2>1. LET slot == Optional(Readonly("keeper_account",
                                      Derived(<<Text("keeper"), KeyIn("signer")>>)))
        IN  /\ Takes(received, slot, Reads(ctx.programId), o)
            /\ Takes(received, slot, Reads(deriveKeeper(p.signer, ctx.programId)), o)
    BY <1>6, TakesReporter
  <2>. HIDE DEF received
  <2>. QED  BY <1>6, <2>1 DEF Fitting, buildReportVenueState, Instruction,
            ReportVenueStateInterface
<1>. QED  BY <1>5, <1>7, CarriedIsMeant, TakenIsLocated DEF Sound

\* Whatever context a call is built on, if the builder lets it through.
LEMMA BuildIsSound ==
    ASSUME NEW name \in Instructions, NEW planned \in Oracles, NEW p \in Parameters[name],
           Build(ContextOf[planned], name, p).built
    PROVE  /\ Sound(p, Build(ContextOf[planned], name, p), Interface[name], planned)
           /\ Build(ContextOf[planned], name, p).name = name
<1>. DEFINE ctx == ContextOf[planned]
<1>0. IsContext(ctx) /\ ctx.oracle = planned
  BY ContextHas DEF IsContext
<1>. HIDE DEF ctx
<1>1. CASE name = "mint_request"
  <2>1. /\ Build(ctx, name, p) = buildMintRequest(ctx, p)
        /\ Interface[name] = MintRequestInterface /\ p \in Parameters.mint_request
    BY <1>1 DEF Build, Interface
  <2>2. buildMintRequest(ctx, p).built
    BY <2>1 DEF ctx
  <2>3. Sound(p, buildMintRequest(ctx, p), MintRequestInterface, planned)
    BY <1>0, <2>1, <2>2, MintRequestBuilt
  <2>4. buildMintRequest(ctx, p).name = name
    BY <1>1 DEF buildMintRequest, Instruction
  <2>. QED  BY <2>1, <2>3, <2>4 DEF ctx
<1>2. CASE name = "mint_cancel"
  <2>1. /\ Build(ctx, name, p) = buildMintCancel(ctx, p)
        /\ Interface[name] = MintCancelInterface /\ p \in Parameters.mint_cancel
    BY <1>2 DEF Build, Interface
  <2>2. buildMintCancel(ctx, p).built
    BY <2>1 DEF ctx
  <2>3. Sound(p, buildMintCancel(ctx, p), MintCancelInterface, planned)
    BY <1>0, <2>1, <2>2, MintCancelBuilt
  <2>4. buildMintCancel(ctx, p).name = name
    BY <1>2 DEF buildMintCancel, Instruction
  <2>. QED  BY <2>1, <2>3, <2>4 DEF ctx
<1>3. CASE name = "mint_confirm"
  <2>1. /\ Build(ctx, name, p) = buildMintConfirm(ctx, p)
        /\ Interface[name] = MintConfirmInterface /\ p \in Parameters.mint_confirm
    BY <1>3 DEF Build, Interface
  <2>2. buildMintConfirm(ctx, p).built
    BY <2>1 DEF ctx
  <2>3. Sound(p, buildMintConfirm(ctx, p), MintConfirmInterface, planned)
    BY <1>0, <2>1, <2>2, MintConfirmBuilt
  <2>4. buildMintConfirm(ctx, p).name = name
    BY <1>3 DEF buildMintConfirm, Instruction
  <2>. QED  BY <2>1, <2>3, <2>4 DEF ctx
<1>4. CASE name = "redeem_request"
  <2>1. /\ Build(ctx, name, p) = buildRedeemRequest(ctx, p)
        /\ Interface[name] = RedeemRequestInterface /\ p \in Parameters.redeem_request
    BY <1>4 DEF Build, Interface
  <2>2. buildRedeemRequest(ctx, p).built
    BY <2>1 DEF ctx
  <2>3. Sound(p, buildRedeemRequest(ctx, p), RedeemRequestInterface, planned)
    BY <1>0, <2>1, <2>2, RedeemRequestBuilt
  <2>4. buildRedeemRequest(ctx, p).name = name
    BY <1>4 DEF buildRedeemRequest, Instruction
  <2>. QED  BY <2>1, <2>3, <2>4 DEF ctx
<1>5. CASE name = "redeem_cancel"
  <2>1. /\ Build(ctx, name, p) = buildRedeemCancel(ctx, p)
        /\ Interface[name] = RedeemCancelInterface /\ p \in Parameters.redeem_cancel
    BY <1>5 DEF Build, Interface
  <2>2. buildRedeemCancel(ctx, p).built
    BY <2>1 DEF ctx
  <2>3. Sound(p, buildRedeemCancel(ctx, p), RedeemCancelInterface, planned)
    BY <1>0, <2>1, <2>2, RedeemCancelBuilt
  <2>4. buildRedeemCancel(ctx, p).name = name
    BY <1>5 DEF buildRedeemCancel, Instruction
  <2>. QED  BY <2>1, <2>3, <2>4 DEF ctx
<1>6. CASE name = "redeem_confirm"
  <2>1. /\ Build(ctx, name, p) = buildRedeemConfirm(ctx, p)
        /\ Interface[name] = RedeemConfirmInterface /\ p \in Parameters.redeem_confirm
    BY <1>6 DEF Build, Interface
  <2>2. buildRedeemConfirm(ctx, p).built
    BY <2>1 DEF ctx
  <2>3. Sound(p, buildRedeemConfirm(ctx, p), RedeemConfirmInterface, planned)
    BY <1>0, <2>1, <2>2, RedeemConfirmBuilt
  <2>4. buildRedeemConfirm(ctx, p).name = name
    BY <1>6 DEF buildRedeemConfirm, Instruction
  <2>. QED  BY <2>1, <2>3, <2>4 DEF ctx
<1>7. CASE name = "stake"
  <2>1. /\ Build(ctx, name, p) = buildStake(ctx, p)
        /\ Interface[name] = StakeInterface /\ p \in Parameters.stake
    BY <1>7 DEF Build, Interface
  <2>2. buildStake(ctx, p).built
    BY <2>1 DEF ctx
  <2>3. Sound(p, buildStake(ctx, p), StakeInterface, planned)
    BY <1>0, <2>1, <2>2, StakeBuilt
  <2>4. buildStake(ctx, p).name = name
    BY <1>7 DEF buildStake, Instruction
  <2>. QED  BY <2>1, <2>3, <2>4 DEF ctx
<1>8. CASE name = "request_unstake"
  <2>1. /\ Build(ctx, name, p) = buildRequestUnstake(ctx, p)
        /\ Interface[name] = RequestUnstakeInterface /\ p \in Parameters.request_unstake
    BY <1>8 DEF Build, Interface
  <2>2. buildRequestUnstake(ctx, p).built
    BY <2>1 DEF ctx
  <2>3. Sound(p, buildRequestUnstake(ctx, p), RequestUnstakeInterface, planned)
    BY <1>0, <2>1, <2>2, RequestUnstakeBuilt
  <2>4. buildRequestUnstake(ctx, p).name = name
    BY <1>8 DEF buildRequestUnstake, Instruction
  <2>. QED  BY <2>1, <2>3, <2>4 DEF ctx
<1>9. CASE name = "unstake"
  <2>1. /\ Build(ctx, name, p) = buildUnstake(ctx, p)
        /\ Interface[name] = UnstakeInterface /\ p \in Parameters.unstake
    BY <1>9 DEF Build, Interface
  <2>2. buildUnstake(ctx, p).built
    BY <2>1 DEF ctx
  <2>3. Sound(p, buildUnstake(ctx, p), UnstakeInterface, planned)
    BY <1>0, <2>1, <2>2, UnstakeBuilt
  <2>4. buildUnstake(ctx, p).name = name
    BY <1>9 DEF buildUnstake, Instruction
  <2>. QED  BY <2>1, <2>3, <2>4 DEF ctx
<1>10. CASE name = "claim_funding"
  <2>1. /\ Build(ctx, name, p) = buildClaimFunding(ctx, p)
        /\ Interface[name] = ClaimFundingInterface /\ p \in Parameters.claim_funding
    BY <1>10 DEF Build, Interface
  <2>2. buildClaimFunding(ctx, p).built
    BY <2>1 DEF ctx
  <2>3. Sound(p, buildClaimFunding(ctx, p), ClaimFundingInterface, planned)
    BY <1>0, <2>1, <2>2, ClaimFundingBuilt
  <2>4. buildClaimFunding(ctx, p).name = name
    BY <1>10 DEF buildClaimFunding, Instruction
  <2>. QED  BY <2>1, <2>3, <2>4 DEF ctx
<1>11. CASE name = "keeper_register"
  <2>1. /\ Build(ctx, name, p) = buildKeeperRegister(ctx, p)
        /\ Interface[name] = KeeperRegisterInterface /\ p \in Parameters.keeper_register
    BY <1>11 DEF Build, Interface
  <2>2. buildKeeperRegister(ctx, p).built
    BY <2>1 DEF ctx
  <2>3. Sound(p, buildKeeperRegister(ctx, p), KeeperRegisterInterface, planned)
    BY <1>0, <2>1, <2>2, KeeperRegisterBuilt
  <2>4. buildKeeperRegister(ctx, p).name = name
    BY <1>11 DEF buildKeeperRegister, Instruction
  <2>. QED  BY <2>1, <2>3, <2>4 DEF ctx
<1>12. CASE name = "keeper_bond"
  <2>1. /\ Build(ctx, name, p) = buildKeeperBond(ctx, p)
        /\ Interface[name] = KeeperBondInterface /\ p \in Parameters.keeper_bond
    BY <1>12 DEF Build, Interface
  <2>2. buildKeeperBond(ctx, p).built
    BY <2>1 DEF ctx
  <2>3. Sound(p, buildKeeperBond(ctx, p), KeeperBondInterface, planned)
    BY <1>0, <2>1, <2>2, KeeperBondBuilt
  <2>4. buildKeeperBond(ctx, p).name = name
    BY <1>12 DEF buildKeeperBond, Instruction
  <2>. QED  BY <2>1, <2>3, <2>4 DEF ctx
<1>13. CASE name = "keeper_unbond"
  <2>1. /\ Build(ctx, name, p) = buildKeeperUnbond(ctx, p)
        /\ Interface[name] = KeeperUnbondInterface /\ p \in Parameters.keeper_unbond
    BY <1>13 DEF Build, Interface
  <2>2. buildKeeperUnbond(ctx, p).built
    BY <2>1 DEF ctx
  <2>3. Sound(p, buildKeeperUnbond(ctx, p), KeeperUnbondInterface, planned)
    BY <1>0, <2>1, <2>2, KeeperUnbondBuilt
  <2>4. buildKeeperUnbond(ctx, p).name = name
    BY <1>13 DEF buildKeeperUnbond, Instruction
  <2>. QED  BY <2>1, <2>3, <2>4 DEF ctx
<1>14. CASE name = "commit_rebalance_proof"
  <2>1. /\ Build(ctx, name, p) = buildCommitRebalanceProof(ctx, p)
        /\ Interface[name] = CommitRebalanceProofInterface
        /\ p \in Parameters.commit_rebalance_proof
    BY <1>14 DEF Build, Interface
  <2>2. buildCommitRebalanceProof(ctx, p).built
    BY <2>1 DEF ctx
  <2>3. Sound(p, buildCommitRebalanceProof(ctx, p), CommitRebalanceProofInterface, planned)
    BY <1>0, <2>1, <2>2, CommitRebalanceProofBuilt
  <2>4. buildCommitRebalanceProof(ctx, p).name = name
    BY <1>14 DEF buildCommitRebalanceProof, Instruction
  <2>. QED  BY <2>1, <2>3, <2>4 DEF ctx
<1>15. CASE name = "buffer_deposit"
  <2>1. /\ Build(ctx, name, p) = buildBufferDeposit(ctx, p)
        /\ Interface[name] = BufferDepositInterface /\ p \in Parameters.buffer_deposit
    BY <1>15 DEF Build, Interface
  <2>2. buildBufferDeposit(ctx, p).built
    BY <2>1 DEF ctx
  <2>3. Sound(p, buildBufferDeposit(ctx, p), BufferDepositInterface, planned)
    BY <1>0, <2>1, <2>2, BufferDepositBuilt
  <2>4. buildBufferDeposit(ctx, p).name = name
    BY <1>15 DEF buildBufferDeposit, Instruction
  <2>. QED  BY <2>1, <2>3, <2>4 DEF ctx
<1>16. CASE name = "report_venue_state"
  <2>1. /\ Build(ctx, name, p) = buildReportVenueState(ctx, p)
        /\ Interface[name] = ReportVenueStateInterface /\ p \in Parameters.report_venue_state
    BY <1>16 DEF Build, Interface
  <2>2. buildReportVenueState(ctx, p).built
    BY <2>1 DEF ctx
  <2>3. Sound(p, buildReportVenueState(ctx, p), ReportVenueStateInterface, planned)
    BY <1>0, <2>1, <2>2, ReportVenueStateBuilt
  <2>4. buildReportVenueState(ctx, p).name = name
    BY <1>16 DEF buildReportVenueState, Instruction
  <2>. QED  BY <2>1, <2>3, <2>4 DEF ctx
<1>17. name \in {"mint_request", "mint_cancel", "mint_confirm", "redeem_request", "redeem_cancel",
                  "redeem_confirm", "stake", "request_unstake",
                  "unstake", "claim_funding", "keeper_register", "keeper_bond", "keeper_unbond",
                  "commit_rebalance_proof", "buffer_deposit", "report_venue_state"}
  BY DEF Instructions, Parameters
<1>. QED  BY <1>1, <1>2, <1>3, <1>4, <1>5, <1>6, <1>7, <1>8, <1>9, <1>10,
             <1>11, <1>12, <1>13, <1>14, <1>15, <1>16, <1>17

-----------------------------------------------------------------------------
(* What the program accepts.                                                *)

LEMMA TakenIsBuilt ==
    ASSUME NEW name \in Instructions, NEW planned \in Oracles, NEW current \in Oracles,
           NEW call \in Taken[name][planned][current]
    PROVE  LET tx == Build(ContextOf[planned], name, call.params) IN
           /\ call.params \in Parameters[name]
           /\ tx.built
           /\ call.received = Received(tx, Interface[name])
<1>1. Taken[name][planned][current] =
        {[params |-> plan.params, received |-> Received(plan.on[planned], Interface[name])] :
            plan \in {plan \in Built[name] :
                          Located(plan.on[planned], Interface[name], current)}}
  BY DEF Taken
<1>2. PICK plan \in Built[name] :
        call = [params |-> plan.params, received |-> Received(plan.on[planned], Interface[name])]
  BY <1>1
<1>3. Built[name] = {pl \in Plans[name] : \A o \in Oracles : pl.on[o].built}
  BY DEF Built
<1>4. Plans[name] = {[params |-> p, on |-> [o \in Oracles |-> Build(ContextOf[o], name, p)]] :
                        p \in Parameters[name]}
  BY DEF Plans
<1>5. plan \in Plans[name] /\ plan.on[planned].built
  BY <1>2, <1>3
<1>6. PICK p \in Parameters[name] :
        plan = [params |-> p, on |-> [o \in Oracles |-> Build(ContextOf[o], name, p)]]
  BY <1>4, <1>5
<1>. QED  BY <1>2, <1>5, <1>6

\* No transaction says anything but what its caller means.
LEMMA AlwaysAsMeant ==
    ASSUME NEW planned \in Oracles, NEW current \in Oracles
    PROVE  ReadAsMeant[planned][current]
<1>1. ASSUME NEW name \in Instructions, NEW call \in Taken[name][planned][current]
      PROVE  AsMeant(call.params, call.received)
  BY TakenIsBuilt, BuildIsSound DEF Sound
<1>. QED  BY <1>1 DEF ReadAsMeant

\* A plan is not refused on the context it was built on.
LEMMA AlwaysResolving == Resolving = Oracles
<1>1. ASSUME NEW o \in Oracles, NEW name \in Instructions, NEW plan \in Built[name]
      PROVE  Located(plan.on[o], Interface[name], o)
  <2>1. Built[name] = {pl \in Plans[name] : \A c \in Oracles : pl.on[c].built}
    BY DEF Built
  <2>2. Plans[name] = {[params |-> p, on |-> [c \in Oracles |-> Build(ContextOf[c], name, p)]] :
                          p \in Parameters[name]}
    BY DEF Plans
  <2>3. PICK p \in Parameters[name] :
          plan = [params |-> p, on |-> [c \in Oracles |-> Build(ContextOf[c], name, p)]]
    BY <2>1, <2>2
  <2>4. plan.on[o] = Build(ContextOf[o], name, p) /\ plan.on[o].built
    BY <2>1, <2>3
  <2>. QED  BY <2>4, BuildIsSound DEF Sound
<1>. QED  BY <1>1 DEF Resolving

\* The account a call opens lies where its own words say.
Opening(tx) ==
    /\ tx.name \in {"mint_request", "redeem_request"} =>
         /\ tx.accounts.user \in Users
         /\ tx.args.nonce \in Nonces /\ NotNegative(tx.args.nonce)
         /\ tx.args.nonce \in Width["u64"]
    /\ tx.name = "mint_request" =>
         tx.accounts.request = deriveMintRequest(tx.accounts.user, tx.args.nonce, PoyzProgram)
    /\ tx.name = "redeem_request" =>
         tx.accounts.request = deriveRedeemRequest(tx.accounts.user, tx.args.nonce, PoyzProgram)
    /\ tx.name = "stake" =>
         /\ tx.accounts.owner \in Users
         /\ tx.accounts.position = deriveStakePosition(tx.accounts.owner, PoyzProgram)
    /\ tx.name = "keeper_register" =>
         tx.accounts.keeper_account = deriveKeeper(tx.accounts.keeper, PoyzProgram)
    /\ tx.name = "commit_rebalance_proof" =>
         tx.accounts.proof = deriveRebalanceProof(tx.args.sequence, PoyzProgram)

\* An accepted transaction names the address of the account it opens.
LEMMA AcceptedOpens ==
    ASSUME NEW name \in Instructions, NEW planned \in Oracles, NEW current \in Oracles,
           NEW tx \in AcceptedPlans[name][planned][current]
    PROVE  Opening(tx)
<1>1. PICK call \in Taken[name][planned][current] : tx = call.received
  BY DEF AcceptedPlans
<1>. DEFINE ctx   == ContextOf[planned]
            p     == call.params
            built == Build(ctx, name, p)
<1>2. p \in Parameters[name] /\ built.built /\ tx = Received(built, Interface[name])
  BY <1>1, TakenIsBuilt
<1>3. IsContext(ctx) /\ ctx.oracle = planned
  BY ContextHas DEF IsContext
<1>4. tx.name = name
  <2>1. built.name = name
    BY <1>2, BuildIsSound
  <2>. QED  BY <1>2, <2>1 DEF Received
<1>. HIDE DEF ctx, p
<1>5. CASE name = "mint_request"
  <2>1. /\ p \in Parameters.mint_request /\ buildMintRequest(ctx, p).built
        /\ tx = Received(buildMintRequest(ctx, p), MintRequestInterface)
    BY <1>2, <1>5 DEF Build, Interface
  <2>2. /\ tx.accounts.user = p.user /\ tx.args.nonce = p.nonce
        /\ tx.accounts.request = deriveMintRequest(p.user, p.nonce, PoyzProgram)
    BY <1>3, <2>1, MintRequestBuilt
  <2>3. p.user \in Users /\ p.nonce \in Nonces
    BY <2>1 DEF Parameters
  <2>4. NotNegative(p.nonce) /\ p.nonce \in Width["u64"]
    <3>. DEFINE data == buildMintRequest(ctx, p).data
    <3>1. NotNegative(p.nonce) /\ \A n \in DOMAIN data : Fits(data[n])
      BY <2>1 DEF buildMintRequest, Instruction
    <3>2. 1 \in DOMAIN data /\ data[1] = u64(p.nonce)
      BY DEF buildMintRequest, Instruction
    <3>3. Fits(u64(p.nonce))
      BY <3>1, <3>2
    <3>. QED  BY <3>1, <3>3 DEF Fits, u64
  <2>. QED  BY <1>4, <1>5, <2>2, <2>3, <2>4 DEF Opening
<1>6. CASE name = "redeem_request"
  <2>1. /\ p \in Parameters.redeem_request /\ buildRedeemRequest(ctx, p).built
        /\ tx = Received(buildRedeemRequest(ctx, p), RedeemRequestInterface)
    BY <1>2, <1>6 DEF Build, Interface
  <2>2. /\ tx.accounts.user = p.user /\ tx.args.nonce = p.nonce
        /\ tx.accounts.request = deriveRedeemRequest(p.user, p.nonce, PoyzProgram)
    BY <1>3, <2>1, RedeemRequestBuilt
  <2>3. p.user \in Users /\ p.nonce \in Nonces
    BY <2>1 DEF Parameters
  <2>4. NotNegative(p.nonce) /\ p.nonce \in Width["u64"]
    <3>. DEFINE data == buildRedeemRequest(ctx, p).data
    <3>1. NotNegative(p.nonce) /\ \A n \in DOMAIN data : Fits(data[n])
      BY <2>1 DEF buildRedeemRequest, Instruction
    <3>2. 1 \in DOMAIN data /\ data[1] = u64(p.nonce)
      BY DEF buildRedeemRequest, Instruction
    <3>3. Fits(u64(p.nonce))
      BY <3>1, <3>2
    <3>. QED  BY <3>1, <3>3 DEF Fits, u64
  <2>. QED  BY <1>4, <1>6, <2>2, <2>3, <2>4 DEF Opening
<1>7. CASE name = "stake"
  <2>1. /\ p \in Parameters.stake /\ buildStake(ctx, p).built
        /\ tx = Received(buildStake(ctx, p), StakeInterface)
    BY <1>2, <1>7 DEF Build, Interface
  <2>2. /\ tx.accounts.owner = p.owner
        /\ tx.accounts.position = deriveStakePosition(p.owner, PoyzProgram)
    BY <1>3, <2>1, StakeBuilt
  <2>3. p.owner \in Users
    BY <2>1 DEF Parameters
  <2>. QED  BY <1>4, <1>7, <2>2, <2>3 DEF Opening
<1>8. CASE name = "keeper_register"
  <2>1. /\ p \in Parameters.keeper_register /\ buildKeeperRegister(ctx, p).built
        /\ tx = Received(buildKeeperRegister(ctx, p), KeeperRegisterInterface)
    BY <1>2, <1>8 DEF Build, Interface
  <2>2. /\ tx.accounts.keeper = p.keeper
        /\ tx.accounts.keeper_account = deriveKeeper(p.keeper, PoyzProgram)
    BY <1>3, <2>1, KeeperRegisterBuilt
  <2>. QED  BY <1>4, <1>8, <2>2 DEF Opening
<1>9. CASE name = "commit_rebalance_proof"
  <2>1. /\ p \in Parameters.commit_rebalance_proof /\ buildCommitRebalanceProof(ctx, p).built
        /\ tx = Received(buildCommitRebalanceProof(ctx, p), CommitRebalanceProofInterface)
    BY <1>2, <1>9 DEF Build, Interface
  <2>2. /\ tx.args.sequence = p.sequence
        /\ tx.accounts.proof = deriveRebalanceProof(p.sequence, PoyzProgram)
    BY <1>3, <2>1, CommitRebalanceProofBuilt
  <2>. QED  BY <1>4, <1>9, <2>2 DEF Opening
<1>10. CASE name \notin {"mint_request", "redeem_request", "stake", "keeper_register",
                         "commit_rebalance_proof"}
  BY <1>4, <1>10 DEF Opening
<1>. QED  BY <1>5, <1>6, <1>7, <1>8, <1>9, <1>10

-----------------------------------------------------------------------------
(* The inductive invariant.                                                 *)

\* Every account lies at the address its own fields give, has the fields of its
\* kind, and names a caller and an id the client can name again.
RecordOK(a, r) ==
    /\ r.kind \in Kinds \ {"Config"}
    /\ r = [f \in DOMAIN BlankOf[r.kind] |-> r[f]]
    /\ a = AddressRead(r)
    /\ r.kind \in {"MintRequest", "RedeemRequest"} =>
         /\ r.user \in Users /\ r.nonce \in Nonces /\ NotNegative(r.nonce)
         /\ r.nonce \in Width["u64"]
         /\ r.deadline \in Nat
    /\ r.kind = "StakePosition" => r.owner \in Users

HeldOK ==
    /\ IsFiniteSet(DOMAIN held)
    /\ Cardinality(DOMAIN held) <= MaxRecords
    /\ \A a \in DOMAIN held : RecordOK(a, held[a])

SessionInv == SessionTypeOK /\ HeldOK

\* No account is held at first.
LEMMA SessionInit_Inv == SessionInit => SessionInv
<1>. SUFFICES ASSUME SessionInit PROVE SessionInv
  OBVIOUS
<1>1. DOMAIN held = {}
  BY DEF SessionInit
<1>2. IsFiniteSet({}) /\ Cardinality({}) = 0
  BY FS_EmptySet
<1>3. MaxRecords \in Nat /\ MaxClock \in Nat /\ MaxClock >= 1 /\ MaxCommits \in Nat
  BY SessionAssumption
<1>4. HeldOK
  BY <1>1, <1>2, <1>3 DEF HeldOK
<1>5. SessionTypeOK
  BY <1>1, <1>2, <1>3 DEF SessionInit, SessionTypeOK
<1>. QED  BY <1>4, <1>5 DEF SessionInv

\* Fields a record is found by, or changed in.
LEMMA RecordHas ==
    /\ {"user", "nonce", "deadline", "kind"} \subseteq DOMAIN BlankOf["MintRequest"]
    /\ {"user", "nonce", "deadline", "kind"} \subseteq DOMAIN BlankOf["RedeemRequest"]
    /\ {"owner", "kind"} \subseteq DOMAIN BlankOf["StakePosition"]
    /\ {"keeper", "kind"} \subseteq DOMAIN BlankOf["Keeper"]
    /\ {"sequence", "kind"} \subseteq DOMAIN BlankOf["RebalanceProof"]
<1>1. /\ 1 \in DOMAIN MintRequestLayout /\ MintRequestLayout[1][1] = "user"
      /\ 2 \in DOMAIN MintRequestLayout /\ MintRequestLayout[2][1] = "nonce"
      /\ 8 \in DOMAIN MintRequestLayout /\ MintRequestLayout[8][1] = "deadline"
  BY DEF MintRequestLayout, U64
<1>2. /\ 1 \in DOMAIN RedeemRequestLayout /\ RedeemRequestLayout[1][1] = "user"
      /\ 2 \in DOMAIN RedeemRequestLayout /\ RedeemRequestLayout[2][1] = "nonce"
      /\ 8 \in DOMAIN RedeemRequestLayout /\ RedeemRequestLayout[8][1] = "deadline"
  BY DEF RedeemRequestLayout, U64
<1>3. 1 \in DOMAIN StakePositionLayout /\ StakePositionLayout[1][1] = "owner"
  BY DEF StakePositionLayout, U64
<1>4. 1 \in DOMAIN KeeperLayout /\ KeeperLayout[1][1] = "keeper"
  BY DEF KeeperLayout, U64
<1>5. 5 \in DOMAIN RebalanceProofLayout /\ RebalanceProofLayout[5][1] = "sequence"
  BY DEF RebalanceProofLayout, U64
<1>6. {"MintRequest", "RedeemRequest", "StakePosition", "Keeper", "RebalanceProof"} \subseteq Kinds
  BY DEF Kinds, Layout
<1>7. /\ {"user", "nonce", "deadline"} \subseteq Names(MintRequestLayout)
      /\ {"user", "nonce", "deadline"} \subseteq Names(RedeemRequestLayout)
      /\ "owner" \in Names(StakePositionLayout) /\ "keeper" \in Names(KeeperLayout)
      /\ "sequence" \in Names(RebalanceProofLayout)
  BY <1>1, <1>2, <1>3, <1>4, <1>5 DEF Names
<1>8. /\ Layout["MintRequest"] = MintRequestLayout
      /\ Layout["RedeemRequest"] = RedeemRequestLayout
      /\ Layout["StakePosition"] = StakePositionLayout
      /\ Layout["Keeper"] = KeeperLayout
      /\ Layout["RebalanceProof"] = RebalanceProofLayout
  BY DEF Layout
<1>9. \A kind \in Kinds : DOMAIN BlankOf[kind] = Names(Layout[kind]) \cup {"kind"}
  BY BlankHas
<1>. QED  BY <1>6, <1>7, <1>8, <1>9

\* Storing a good record keeps the accounts good.
LEMMA StoreKeeps ==
    ASSUME HeldOK, NEW address, NEW record, RecordOK(address, record), Store(address, record)
    PROVE  HeldOK'
<1>1. DOMAIN held' = DOMAIN held \cup {address}
  BY DEF Store
<1>2. IsFiniteSet(DOMAIN held) /\ Cardinality(DOMAIN held) \in Nat /\ MaxRecords \in Nat
  BY FS_CardinalityType, SessionAssumption DEF HeldOK
<1>3. IsFiniteSet(DOMAIN held') /\ Cardinality(DOMAIN held') <= MaxRecords
  <2>1. CASE address \in DOMAIN held
    <3>1. DOMAIN held' = DOMAIN held
      BY <1>1, <2>1
    <3>. QED  BY <3>1 DEF HeldOK
  <2>2. CASE address \notin DOMAIN held
    BY <1>1, <1>2, <2>2, FS_AddElement DEF Store
  <2>. QED  BY <2>1, <2>2
<1>4. \A a \in DOMAIN held' : RecordOK(a, held'[a])
  BY <1>1 DEF HeldOK, Store
<1>. QED  BY <1>3, <1>4 DEF HeldOK

\* So does closing one.
LEMMA CloseKeeps ==
    ASSUME HeldOK, NEW address, Close(address)
    PROVE  HeldOK'
<1>1. DOMAIN held' = DOMAIN held \ {address}
  BY DEF Close
<1>2. IsFiniteSet(DOMAIN held) /\ Cardinality(DOMAIN held) \in Nat /\ MaxRecords \in Nat
  BY FS_CardinalityType, SessionAssumption DEF HeldOK
<1>3. IsFiniteSet(DOMAIN held') /\ Cardinality(DOMAIN held') <= Cardinality(DOMAIN held)
  BY <1>1, <1>2, FS_Subset
<1>4. Cardinality(DOMAIN held') <= MaxRecords
  BY <1>2, <1>3, FS_CardinalityType DEF HeldOK
<1>5. \A a \in DOMAIN held' : RecordOK(a, held'[a])
  BY <1>1 DEF HeldOK, Close
<1>. QED  BY <1>3, <1>4, <1>5 DEF HeldOK

\* A change that touches none of the fields an account is found by.
Same(r, s) ==
    /\ s.kind = r.kind /\ s = [f \in DOMAIN r |-> s[f]]
    /\ \A f \in {"user", "nonce", "deadline", "owner", "keeper", "sequence"} :
         f \in DOMAIN r => s[f] = r[f]

\* A record that keeps what identifies it stays good.
LEMMA SameIsOK ==
    ASSUME NEW a, NEW r, NEW s, RecordOK(a, r), Same(r, s)
    PROVE  RecordOK(a, s)
<1>1. r.kind \in {"MintRequest", "RedeemRequest", "StakePosition", "Keeper", "RebalanceProof"}
  BY DEF RecordOK, Kinds, Layout
<1>2. DOMAIN r = DOMAIN BlankOf[r.kind] /\ s.kind = r.kind
  BY DEF RecordOK, Same
<1>3. s = [f \in DOMAIN BlankOf[s.kind] |-> s[f]]
  BY <1>2 DEF Same
<1>4. CASE r.kind = "MintRequest"
  <2>1. s.user = r.user /\ s.nonce = r.nonce /\ s.deadline = r.deadline
    BY <1>2, <1>4, RecordHas DEF Same
  <2>. QED  BY <1>2, <1>3, <1>4, <2>1 DEF RecordOK, AddressRead
<1>5. CASE r.kind = "RedeemRequest"
  <2>1. s.user = r.user /\ s.nonce = r.nonce /\ s.deadline = r.deadline
    BY <1>2, <1>5, RecordHas DEF Same
  <2>. QED  BY <1>2, <1>3, <1>5, <2>1 DEF RecordOK, AddressRead
<1>6. CASE r.kind = "StakePosition"
  <2>1. s.owner = r.owner
    BY <1>2, <1>6, RecordHas DEF Same
  <2>. QED  BY <1>2, <1>3, <1>6, <2>1 DEF RecordOK, AddressRead
<1>7. CASE r.kind = "Keeper"
  <2>1. s.keeper = r.keeper
    BY <1>2, <1>7, RecordHas DEF Same
  <2>. QED  BY <1>2, <1>3, <1>7, <2>1 DEF RecordOK, AddressRead
<1>8. CASE r.kind = "RebalanceProof"
  <2>1. s.sequence = r.sequence
    BY <1>2, <1>8, RecordHas DEF Same
  <2>. QED  BY <1>2, <1>3, <1>8, <2>1 DEF RecordOK, AddressRead
<1>. QED  BY <1>1, <1>4, <1>5, <1>6, <1>7, <1>8

-----------------------------------------------------------------------------
(* The steps.                                                               *)

\* A mint request opens the account of its user and nonce.
LEMMA MintOpened ==
    ASSUME SessionInv, NEW tx, Opening(tx), tx.name = "mint_request", RequestMint(tx)
    PROVE  HeldOK'
<1>. DEFINE blank  == BlankOf["MintRequest"]
            record == [blank EXCEPT
                !.user = tx.accounts.user, !.nonce = tx.args.nonce,
                !.collateral_amount = tx.args.collateral_amount,
                !.min_synthetic_out = tx.args.min_synthetic_out,
                !.created_at = clock, !.deadline = clock + Ttl]
<1>1. "MintRequest" \in Kinds
  BY DEF Kinds, Layout
<1>2. /\ record.kind = "MintRequest" /\ record.user = tx.accounts.user
      /\ record.nonce = tx.args.nonce /\ record.deadline = clock + Ttl
      /\ record = [f \in DOMAIN blank |-> record[f]]
  BY <1>1, RecordHas, BlankHas
<1>3. clock + Ttl \in Nat
  BY SessionAssumption DEF SessionInv, SessionTypeOK
<1>4. tx.accounts.request = deriveMintRequest(tx.accounts.user, tx.args.nonce, PoyzProgram)
  BY DEF Opening
<1>5. /\ tx.accounts.user \in Users /\ tx.args.nonce \in Nonces
      /\ NotNegative(tx.args.nonce) /\ tx.args.nonce \in Width["u64"]
  BY DEF Opening
<1>6. Store(tx.accounts.request, record)
  BY DEF RequestMint
<1>. HIDE DEF record
<1>7. RecordOK(tx.accounts.request, record)
  BY <1>1, <1>2, <1>3, <1>4, <1>5 DEF RecordOK, AddressRead
<1>. QED  BY <1>6, <1>7, StoreKeeps DEF SessionInv

\* A redeem request does the same.
LEMMA RedeemOpened ==
    ASSUME SessionInv, NEW tx, Opening(tx), tx.name = "redeem_request", RequestRedeem(tx)
    PROVE  HeldOK'
<1>. DEFINE blank  == BlankOf["RedeemRequest"]
            record == [blank EXCEPT
                !.user = tx.accounts.user, !.nonce = tx.args.nonce,
                !.synthetic_amount = tx.args.synthetic_amount,
                !.min_collateral_out = tx.args.min_collateral_out,
                !.created_at = clock, !.deadline = clock + Ttl]
<1>1. "RedeemRequest" \in Kinds
  BY DEF Kinds, Layout
<1>2. /\ record.kind = "RedeemRequest" /\ record.user = tx.accounts.user
      /\ record.nonce = tx.args.nonce /\ record.deadline = clock + Ttl
      /\ record = [f \in DOMAIN blank |-> record[f]]
  BY <1>1, RecordHas, BlankHas
<1>3. clock + Ttl \in Nat
  BY SessionAssumption DEF SessionInv, SessionTypeOK
<1>4. tx.accounts.request = deriveRedeemRequest(tx.accounts.user, tx.args.nonce, PoyzProgram)
  BY DEF Opening
<1>5. /\ tx.accounts.user \in Users /\ tx.args.nonce \in Nonces
      /\ NotNegative(tx.args.nonce) /\ tx.args.nonce \in Width["u64"]
  BY DEF Opening
<1>6. Store(tx.accounts.request, record)
  BY DEF RequestRedeem
<1>. HIDE DEF record
<1>7. RecordOK(tx.accounts.request, record)
  BY <1>1, <1>2, <1>3, <1>4, <1>5 DEF RecordOK, AddressRead
<1>. QED  BY <1>6, <1>7, StoreKeeps DEF SessionInv

\* A change of an account that is held, by what it is found by.
LEMMA ChangeKeeps ==
    ASSUME HeldOK, NEW address \in DOMAIN held, NEW record, Same(held[address], record),
           Store(address, record)
    PROVE  HeldOK'
BY SameIsOK, StoreKeeps DEF HeldOK

\* The records held are functions on the fields of their kind.
LEMMA HeldIsRecord ==
    ASSUME HeldOK, NEW a \in DOMAIN held
    PROVE  /\ held[a] = [f \in DOMAIN held[a] |-> held[a][f]]
           /\ held[a].kind \in Kinds
           /\ "kind" \in DOMAIN held[a]
<1>1. RecordOK(a, held[a])
  BY DEF HeldOK
<1>2. held[a].kind \in Kinds
  BY <1>1 DEF RecordOK
<1>3. held[a] = [f \in DOMAIN BlankOf[held[a].kind] |-> held[a][f]]
  BY <1>1 DEF RecordOK
<1>4. "kind" \in DOMAIN BlankOf[held[a].kind]
  BY <1>2, BlankHas
<1>. QED  BY <1>2, <1>3, <1>4

\* Stake opens a position or adds to the one that is there.
LEMMA Staked ==
    ASSUME SessionInv, NEW tx, Opening(tx), tx.name = "stake", Stake(tx)
    PROVE  HeldOK'
<1>. DEFINE position == tx.accounts.position
            blank    == [BlankOf["StakePosition"] EXCEPT
                            !.owner = tx.accounts.owner, !.amount = 0,
                            !.pending_unstake = 0, !.cooldown_end = 0]
            old      == IF Holds(position, "StakePosition") THEN held[position] ELSE blank
            record   == [old EXCEPT !.amount = @ + tx.args.amount, !.last_update = clock]
<1>1. Store(position, record)
  BY DEF Stake
<1>2. tx.accounts.owner \in Users
      /\ position = deriveStakePosition(tx.accounts.owner, PoyzProgram)
  BY DEF Opening
<1>3. "StakePosition" \in Kinds
  BY DEF Kinds, Layout
<1>4. RecordOK(position, blank)
  <2>1. /\ blank.kind = "StakePosition" /\ blank.owner = tx.accounts.owner
        /\ blank = [f \in DOMAIN BlankOf["StakePosition"] |-> blank[f]]
    BY <1>3, RecordHas, BlankHas
  <2>. HIDE DEF blank
  <2>. QED  BY <1>2, <1>3, <2>1 DEF RecordOK, AddressRead
<1>5. RecordOK(position, old)
  BY <1>4 DEF Holds, SessionInv, HeldOK
<1>6. old = [f \in DOMAIN old |-> old[f]] /\ "kind" \in DOMAIN old
  <2>. HIDE DEF old
  <2>1. old.kind \in Kinds /\ old = [f \in DOMAIN BlankOf[old.kind] |-> old[f]]
    BY <1>5 DEF RecordOK
  <2>2. "kind" \in DOMAIN BlankOf[old.kind]
    BY <2>1, BlankHas
  <2>. QED  BY <2>1, <2>2
<1>. HIDE DEF old, blank
<1>7. Same(old, record)
  BY <1>6 DEF Same
<1>8. RecordOK(position, record)
  BY <1>5, <1>7, SameIsOK
<1>. HIDE DEF record
<1>. QED  BY <1>1, <1>8, StoreKeeps DEF SessionInv

\* Register opens the account of a keeper.
LEMMA Registered ==
    ASSUME SessionInv, NEW tx, Opening(tx), tx.name = "keeper_register", Register(tx)
    PROVE  HeldOK'
<1>. DEFINE account == tx.accounts.keeper_account
            blank   == BlankOf["Keeper"]
            record  == [blank EXCEPT
                          !.keeper = tx.accounts.keeper,
                          !.bonded = tx.args.bond_amount,
                          !.registered_at = clock, !.last_proof_at = 0, !.last_bond_at = clock]
<1>1. Store(account, record)
  BY DEF Register
<1>2. account = deriveKeeper(tx.accounts.keeper, PoyzProgram)
  BY DEF Opening
<1>3. "Keeper" \in Kinds
  BY DEF Kinds, Layout
<1>4. /\ record.kind = "Keeper" /\ record.keeper = tx.accounts.keeper
      /\ record = [f \in DOMAIN blank |-> record[f]]
  BY <1>3, RecordHas, BlankHas
<1>. HIDE DEF record
<1>5. RecordOK(account, record)
  BY <1>2, <1>3, <1>4 DEF RecordOK, AddressRead
<1>. QED  BY <1>1, <1>5, StoreKeeps DEF SessionInv

\* Steps that change an account where it lies.
LEMMA Changed ==
    ASSUME SessionInv, NEW tx,
           \/ RequestUnstake(tx) \/ Unstake(tx) \/ Bond(tx) \/ Unbond(tx)
    PROVE  HeldOK'
<1>1. CASE RequestUnstake(tx)
  <2>. DEFINE address == tx.accounts.position
              record  == [held[address] EXCEPT
                            !.amount = @ - tx.args.amount,
                            !.pending_unstake = @ + tx.args.amount,
                            !.cooldown_end = clock + Cooldown, !.last_update = clock]
  <2>1. address \in DOMAIN held /\ Store(address, record)
    BY <1>1 DEF RequestUnstake, Holds
  <2>2. Same(held[address], record)
    BY <2>1, HeldIsRecord DEF Same, SessionInv
  <2>. HIDE DEF record
  <2>. QED  BY <2>1, <2>2, ChangeKeeps DEF SessionInv
<1>2. CASE Unstake(tx)
  <2>. DEFINE address == tx.accounts.position
              record  == [held[address] EXCEPT !.pending_unstake = 0, !.cooldown_end = 0]
  <2>1. address \in DOMAIN held /\ Store(address, record)
    BY <1>2 DEF Unstake, Withdrawable, Holds
  <2>2. Same(held[address], record)
    BY <2>1, HeldIsRecord DEF Same, SessionInv
  <2>. HIDE DEF record
  <2>. QED  BY <2>1, <2>2, ChangeKeeps DEF SessionInv
<1>3. CASE Bond(tx)
  <2>. DEFINE address == tx.accounts.keeper_account
              record  == [held[address] EXCEPT !.bonded = @ + tx.args.amount,
                                               !.last_bond_at = clock]
  <2>1. address \in DOMAIN held /\ Store(address, record)
    BY <1>3 DEF Bond, Holds
  <2>2. Same(held[address], record)
    BY <2>1, HeldIsRecord DEF Same, SessionInv
  <2>. HIDE DEF record
  <2>. QED  BY <2>1, <2>2, ChangeKeeps DEF SessionInv
<1>4. CASE Unbond(tx)
  <2>. DEFINE address == tx.accounts.keeper_account
              record  == [held[address] EXCEPT !.bonded = @ - tx.args.amount]
  <2>1. address \in DOMAIN held /\ Store(address, record)
    BY <1>4 DEF Unbond, Holds
  <2>2. Same(held[address], record)
    BY <2>1, HeldIsRecord DEF Same, SessionInv
  <2>. HIDE DEF record
  <2>. QED  BY <2>1, <2>2, ChangeKeeps DEF SessionInv
<1>. QED  BY <1>1, <1>2, <1>3, <1>4

\* A commit opens the next proof.
LEMMA Committed ==
    ASSUME SessionInv, NEW tx, Opening(tx), tx.name = "commit_rebalance_proof",
           CommitProof(tx)
    PROVE  HeldOK'
<1>. DEFINE account == tx.accounts.keeper_account
            proof   == tx.accounts.proof
            blank   == BlankOf["RebalanceProof"]
            record  == [blank EXCEPT
                          !.keeper = tx.accounts.keeper,
                          !.sequence = rebalanceCount, !.timestamp = clock,
                          !.venues_hash = tx.args.venues_hash,
                          !.venue_id = tx.args.venue_id,
                          !.delta_bps_before = tx.args.delta_bps_before,
                          !.delta_bps_after = tx.args.delta_bps_after,
                          !.hedged_notional = tx.args.hedged_notional,
                          !.collateral_notional = tx.args.collateral_notional]
            proved  == [held[account] EXCEPT !.last_proof_at = clock]
<1>1. /\ account \in DOMAIN held
      /\ tx.args.sequence = rebalanceCount
      /\ Cardinality(DOMAIN held) < MaxRecords
      /\ held' = [a \in DOMAIN held \cup {proof} |->
                     IF a = proof THEN record
                     ELSE IF a = account THEN [held[a] EXCEPT !.last_proof_at = clock]
                     ELSE held[a]]
  BY DEF CommitProof, IsBonded, Holds
<1>2. "RebalanceProof" \in Kinds
  BY DEF Kinds, Layout
<1>3. RecordOK(proof, record)
  <2>1. proof = deriveRebalanceProof(rebalanceCount, PoyzProgram)
    BY <1>1 DEF Opening
  <2>2. /\ record.kind = "RebalanceProof" /\ record.sequence = rebalanceCount
        /\ record = [f \in DOMAIN blank |-> record[f]]
    BY <1>2, RecordHas, BlankHas
  <2>. HIDE DEF record
  <2>. QED  BY <1>2, <2>1, <2>2 DEF RecordOK, AddressRead
<1>4. RecordOK(account, proved)
  <2>1. Same(held[account], proved)
    BY <1>1, HeldIsRecord DEF Same, SessionInv
  <2>. HIDE DEF proved
  <2>. QED  BY <1>1, <2>1, SameIsOK DEF SessionInv, HeldOK
<1>5. DOMAIN held' = DOMAIN held \cup {proof}
  BY <1>1
<1>6. \A a \in DOMAIN held' : RecordOK(a, held'[a])
  <2>. SUFFICES ASSUME NEW a \in DOMAIN held' PROVE RecordOK(a, held'[a])
    OBVIOUS
  <2>. HIDE DEF record
  <2>1. held'[a] = IF a = proof THEN record
                   ELSE IF a = account THEN proved ELSE held[a]
    BY <1>1
  <2>. HIDE DEF proved
  <2>. QED  BY <1>3, <1>4, <1>5, <2>1 DEF SessionInv, HeldOK
<1>7. IsFiniteSet(DOMAIN held') /\ Cardinality(DOMAIN held') <= MaxRecords
  <2>1. IsFiniteSet(DOMAIN held) /\ Cardinality(DOMAIN held) \in Nat /\ MaxRecords \in Nat
    BY FS_CardinalityType, SessionAssumption DEF HeldOK, SessionInv
  <2>. QED  BY <1>1, <1>5, <2>1, FS_AddElement
<1>. QED  BY <1>6, <1>7 DEF HeldOK

-----------------------------------------------------------------------------
(* The invariant.                                                           *)

LEMMA ContextIsKnown ==
    ASSUME SessionInv
    PROVE  ContextOracle \in Oracles /\ oracle \in Oracles
BY DEF SessionInv, SessionTypeOK, ContextOracle

\* Whatever the program executes leaves what it holds in order.
LEMMA ExecuteKeeps ==
    ASSUME SessionInv, NEW tx, Opening(tx), Execute(tx)
    PROVE  HeldOK'
<1>1. CASE tx.name = "mint_request" /\ RequestMint(tx)
  BY <1>1, MintOpened
<1>2. CASE tx.name = "redeem_request" /\ RequestRedeem(tx)
  BY <1>2, RedeemOpened
<1>3. CASE \/ Cancel(tx, "MintRequest") \/ Cancel(tx, "RedeemRequest")
           \/ Confirm(tx, "MintRequest") \/ Confirm(tx, "RedeemRequest")
  <2>1. Close(tx.accounts.request)
    BY <1>3 DEF Cancel, Confirm
  <2>. QED  BY <2>1, CloseKeeps DEF SessionInv
<1>4. CASE tx.name = "stake" /\ Stake(tx)
  BY <1>4, Staked
<1>5. CASE RequestUnstake(tx) \/ Unstake(tx) \/ Bond(tx) \/ Unbond(tx)
  BY <1>5, Changed
<1>6. CASE tx.name = "keeper_register" /\ Register(tx)
  BY <1>6, Registered
<1>7. CASE tx.name = "commit_rebalance_proof" /\ CommitProof(tx)
  BY <1>7, Committed
<1>8. CASE ReportVenue(tx)
  BY <1>8 DEF ReportVenue, SessionInv, HeldOK
<1>. QED  BY <1>1, <1>2, <1>3, <1>4, <1>5, <1>6, <1>7, <1>8 DEF Execute

\* What it does to the counters of the config.
LEMMA ExecuteCounts ==
    ASSUME SessionInv, NEW tx, Execute(tx)
    PROVE  rebalanceCount' \in 0 .. MaxCommits /\ venueStateAt' \in 0 .. clock
<1>0. /\ MaxCommits \in Nat /\ clock \in Nat
      /\ rebalanceCount \in 0 .. MaxCommits /\ venueStateAt \in 0 .. clock
  BY SessionAssumption DEF SessionInv, SessionTypeOK
<1>1. CASE CommitProof(tx)
  BY <1>0, <1>1 DEF CommitProof
<1>2. CASE ReportVenue(tx)
  BY <1>0, <1>2 DEF ReportVenue
<1>3. CASE ConfigStays
  BY <1>0, <1>3 DEF ConfigStays
<1>. QED  BY <1>1, <1>2, <1>3 DEF Execute, RequestMint, RequestRedeem, Cancel, Confirm, Stake,
             RequestUnstake, Unstake, Register, Bond, Unbond

\* Every command, built on whatever context, keeps the invariant.
LEMMA CommandKeepsInv ==
    ASSUME SessionInv, Command
    PROVE  SessionInv'
<1>0. ContextOracle \in Oracles /\ oracle \in Oracles
  BY ContextIsKnown
<1>1. ASSUME NEW name \in Instructions, NEW tx \in Accepted(name), Send(tx)
      PROVE  SessionInv'
  <2>1. Opening(tx)
    BY <1>0, AcceptedOpens DEF Accepted
  <2>2. Execute(tx) /\ cached' = ContextOracle /\ UNCHANGED <<oracle, clock>>
    BY <1>1 DEF Send
  <2>3. HeldOK'
    BY <2>1, <2>2, ExecuteKeeps
  <2>4. rebalanceCount' \in 0 .. MaxCommits /\ venueStateAt' \in 0 .. clock
    BY <2>2, ExecuteCounts
  <2>5. SessionTypeOK'
    BY <1>0, <2>2, <2>3, <2>4 DEF SessionInv, SessionTypeOK, HeldOK, RecordOK
  <2>. QED  BY <2>3, <2>5 DEF SessionInv
<1>2. CASE PlanOnly
  BY <1>0, <1>2 DEF PlanOnly, SessionInv, SessionTypeOK, HeldOK
<1>. QED  BY <1>1, <1>2 DEF Command

\* And so does every other step.
LEMMA StepKeepsSessionInv ==
    ASSUME SessionInv, [SessionNext]_sessionVars
    PROVE  SessionInv'
<1>1. CASE Command
  BY <1>1, CommandKeepsInv
<1>2. CASE Restart
  BY <1>2 DEF Restart, SessionInv, SessionTypeOK, HeldOK
<1>3. CASE \E o \in Oracles : SetOracle(o)
  BY <1>3 DEF SetOracle, SessionInv, SessionTypeOK, HeldOK
<1>4. CASE Pass
  <2>1. /\ clock' \in 1 .. MaxClock /\ venueStateAt' \in 0 .. clock'
        /\ UNCHANGED <<oracle, rebalanceCount, held, cached>>
    BY <1>4, SessionAssumption DEF Pass, SessionInv, SessionTypeOK
  <2>. QED  BY <2>1 DEF SessionInv, SessionTypeOK, HeldOK
<1>5. CASE UNCHANGED sessionVars
  BY <1>5 DEF sessionVars, SessionInv, SessionTypeOK, HeldOK
<1>. QED  BY <1>1, <1>2, <1>3, <1>4, <1>5 DEF SessionNext

\* The invariant holds in every state of a session.
LEMMA SessionInvHolds == SessionSpec => []SessionInv
<1>1. SessionInv /\ [SessionNext]_sessionVars => SessionInv'
  BY StepKeepsSessionInv
<1>. QED  BY <1>1, SessionInit_Inv, PTL DEF SessionSpec

-----------------------------------------------------------------------------

\* The client's cache, the config and the accounts of the program are always what
\* the model says they are.
THEOREM SessionTypes == SessionSpec => []SessionTypeOK
<1>1. SessionInv => SessionTypeOK
  BY DEF SessionInv
<1>. QED  BY <1>1, SessionInvHolds, PTL

\* Every transaction the program accepts says what its caller meant: each of the 16
\* builders of instructions.ts agrees with the IDL on the order of the accounts,
\* the order and width of the arguments and whose token account is which.
THEOREM AcceptedIsMeant == SessionSpec => []ExecutedAsMeant
<1>1. SessionInv => ExecutedAsMeant
  BY ContextIsKnown, AlwaysAsMeant DEF ExecutedAsMeant
<1>. QED  BY <1>1, SessionInvHolds, PTL

\* What is built on the current config is found where the program looks for it, for
\* every instruction and all of its parameters.
THEOREM FreshPlansResolve == SessionSpec => []FreshContextResolves
<1>1. SessionInv => FreshContextResolves
  BY ContextIsKnown, AlwaysResolving DEF FreshContextResolves
<1>. QED  BY <1>1, SessionInvHolds, PTL

\* Every account a call has opened lies where the get call for the same names looks,
\* and its decoder reads each field at the byte where the program wrote it.
THEOREM OpenedIsFound == SessionSpec => []FoundAsStored
<1>1. SessionInv => FoundAsStored
  <2>. SUFFICES ASSUME SessionInv, NEW a \in DOMAIN held
                PROVE  /\ a = AddressRead(held[a])
                       /\ \A f \in DOMAIN View(held[a].kind, held[a]) :
                            View(held[a].kind, held[a])[f] \in {held[a][f], Never}
    BY DEF FoundAsStored
  <2>1. RecordOK(a, held[a])
    BY DEF SessionInv, HeldOK
  <2>2. held[a].kind \in Kinds /\ a = AddressRead(held[a])
    BY <2>1 DEF RecordOK
  <2>3. \A f \in Names(Decoder[held[a].kind]) :
          /\ DOMAIN View(held[a].kind, held[a]) = Names(Decoder[held[a].kind])
          /\ View(held[a].kind, held[a])[f] \in {held[a][f], Never}
    BY <2>2, ViewShowsStored
  <2>4. DOMAIN View(held[a].kind, held[a]) = Names(Decoder[held[a].kind])
    BY <2>2, FieldReadIsItself DEF View
  <2>. QED  BY <2>2, <2>3, <2>4
<1>. QED  BY <1>1, SessionInvHolds, PTL

\* The deadline of a request is decoded as it is stored.
LEMMA DeadlineIsRead ==
    ASSUME NEW kind \in {"MintRequest", "RedeemRequest"}, NEW stored
    PROVE  View(kind, stored).deadline = stored.deadline
<1>1. kind \in Kinds /\ ZeroIsNull[kind] = {}
  BY DEF Kinds, Layout, ZeroIsNull
<1>2. "deadline" \in Names(Decoder[kind])
  <2>1. 8 \in DOMAIN decodeMintRequest /\ decodeMintRequest[8][1] = "deadline"
    BY DEF decodeMintRequest
  <2>2. 8 \in DOMAIN decodeRedeemRequest /\ decodeRedeemRequest[8][1] = "deadline"
    BY DEF decodeRedeemRequest
  <2>3. Decoder["MintRequest"] = decodeMintRequest /\ Decoder["RedeemRequest"] = decodeRedeemRequest
    BY DEF Decoder
  <2>. QED  BY <2>1, <2>2, <2>3 DEF Names
<1>. QED  BY <1>1, <1>2, ViewShowsStored DEF NullableKeys

\* Whoever can take a request back sees it expired, as long as the local clock is
\* not behind the chain's.
THEOREM ExpiryIsSeen == SessionSpec => []CancellableReadsExpired
<1>1. SessionInv => CancellableReadsExpired
  <2>. SUFFICES ASSUME SessionInv, NEW a \in DOMAIN held,
                       held[a].kind \in {"MintRequest", "RedeemRequest"},
                       clock > held[a].deadline, NEW lead \in Leads
                PROVE  Expired(View(held[a].kind, held[a]), clock + lead)
    BY DEF CancellableReadsExpired
  <2>1. View(held[a].kind, held[a]).deadline = held[a].deadline
    BY DeadlineIsRead
  <2>2. held[a].deadline \in Nat /\ clock \in Nat /\ lead \in Nat
    BY SessionAssumption DEF SessionInv, SessionTypeOK, HeldOK, RecordOK
  <2>. QED  BY <2>1, <2>2 DEF Expired
<1>. QED  BY <1>1, SessionInvHolds, PTL

\* A venue reading that is too old for the program to issue on takes the exit code
\* of `venue list` away from that of a healthy protocol.
THEOREM StaleReadingIsSeen == SessionSpec => []StaleReadingIsListed
<1>1. SessionInv => StaleReadingIsListed
  <2>. SUFFICES ASSUME SessionInv, venueStateAt # 0, ~IssuanceOpen, NEW lead \in Leads
                PROVE  VenueListExit(clock + lead) = EXIT_UNAVAILABLE
    BY DEF StaleReadingIsListed
  <2>1. /\ ReadConfigView.venue_state_at = venueStateAt
        /\ ReadConfigView.max_venue_state_age_sec = MaxVenueStateAge
    BY ConfigViewHas DEF ReadConfigView
  <2>2. /\ venueStateAt \in Int /\ clock \in Int /\ lead \in Nat /\ MaxVenueStateAge \in Nat
        /\ venueStateAt # Never
    BY SessionAssumption, DecoderAssumption DEF SessionInv, SessionTypeOK
  <2>3. clock + lead - venueStateAt > MaxVenueStateAge
    BY <2>2 DEF IssuanceOpen
  <2>. QED  BY <2>1, <2>2, <2>3 DEF VenueListExit
<1>. QED  BY <1>1, SessionInvHolds, PTL

-----------------------------------------------------------------------------
(* The exits.                                                               *)

\* Nothing but its own checks and the width of its arguments stops a builder.
LEMMA NothingStops ==
    ASSUME NEW name, NEW valid, NEW keys, NEW data, valid, \A i \in DOMAIN data : Fits(data[i])
    PROVE  Instruction(name, valid, keys, data).built
BY Zenon DEF Instruction

\* What is built on every context and located is accepted.
LEMMA BuiltIsAccepted ==
    ASSUME NEW name \in Instructions, NEW p \in Parameters[name],
           NEW planned \in Oracles, NEW current \in Oracles,
           \A o \in Oracles : Build(ContextOf[o], name, p).built,
           Located(Build(ContextOf[planned], name, p), Interface[name], current)
    PROVE  Received(Build(ContextOf[planned], name, p), Interface[name])
              \in AcceptedPlans[name][planned][current]
<1>. DEFINE plan == [params |-> p, on |-> [o \in Oracles |-> Build(ContextOf[o], name, p)]]
            call == [params |-> plan.params,
                     received |-> Received(plan.on[planned], Interface[name])]
<1>1. plan.on[planned] = Build(ContextOf[planned], name, p)
  OBVIOUS
<1>2. \A o \in Oracles : plan.on[o].built
  OBVIOUS
<1>3. plan \in Plans[name]
  BY DEF Plans
<1>. HIDE DEF plan
<1>4. plan \in Built[name]
  BY <1>2, <1>3 DEF Built
<1>5. call \in Taken[name][planned][current]
  BY <1>1, <1>4 DEF Taken
<1>6. call.received = Received(Build(ContextOf[planned], name, p), Interface[name])
  BY <1>1
<1>. HIDE DEF call
<1>. QED  BY <1>5, <1>6 DEF AcceptedPlans

\* No exit names the oracle, so it is accepted under any config.
LEMMA MintCancelAccepted ==
    ASSUME NEW u \in Users, NEW n \in Nonces, NotNegative(n), n \in Width["u64"],
           NEW planned \in Oracles, NEW current \in Oracles
    PROVE  \E tx \in AcceptedPlans["mint_cancel"][planned][current] :
              /\ tx.accounts.user = u
              /\ tx.accounts.request = deriveMintRequest(u, n, PoyzProgram)
<1>. DEFINE p == [user |-> u, nonce |-> n, user_collateral |-> Default]
<1>1. /\ "mint_cancel" \in Instructions
      /\ p \in Parameters["mint_cancel"] /\ p \in Parameters.mint_cancel
  BY SessionAssumption DEF Instructions, Parameters
<1>2. p.user = u /\ p.nonce = n
  OBVIOUS
<1>. HIDE DEF p
<1>3. \A ctx : buildMintCancel(ctx, p).built
  <2>1. NotNegative(p.nonce)
    BY <1>2
  <2>2. \A i \in DOMAIN <<u64(p.nonce)>> : Fits(<<u64(p.nonce)>>[i])
    BY <1>2 DEF Fits, u64
  <2>. QED  BY <2>1, <2>2, NothingStops DEF buildMintCancel
<1>4. \A o \in Oracles : /\ Build(ContextOf[o], "mint_cancel", p) = buildMintCancel(ContextOf[o], p)
                         /\ IsContext(ContextOf[o])
  BY ContextHas DEF Build, IsContext
<1>5. Interface["mint_cancel"] = MintCancelInterface
  BY DEF Interface
<1>. DEFINE tx == Received(buildMintCancel(ContextOf[planned], p), MintCancelInterface)
<1>6. /\ Located(buildMintCancel(ContextOf[planned], p), MintCancelInterface, current)
      /\ tx.accounts.user = u
      /\ tx.accounts.request = deriveMintRequest(u, n, PoyzProgram)
  BY <1>1, <1>2, <1>3, <1>4, MintCancelBuilt DEF Sound
<1>7. tx \in AcceptedPlans["mint_cancel"][planned][current]
  BY <1>1, <1>3, <1>4, <1>5, <1>6, BuiltIsAccepted
<1>. QED  BY <1>6, <1>7

\* So is the cancel of a redeem.
LEMMA RedeemCancelAccepted ==
    ASSUME NEW u \in Users, NEW n \in Nonces, NotNegative(n), n \in Width["u64"],
           NEW planned \in Oracles, NEW current \in Oracles
    PROVE  \E tx \in AcceptedPlans["redeem_cancel"][planned][current] :
              /\ tx.accounts.user = u
              /\ tx.accounts.request = deriveRedeemRequest(u, n, PoyzProgram)
<1>. DEFINE p == [user |-> u, nonce |-> n, user_synthetic |-> Default]
<1>1. /\ "redeem_cancel" \in Instructions
      /\ p \in Parameters["redeem_cancel"] /\ p \in Parameters.redeem_cancel
  BY SessionAssumption DEF Instructions, Parameters
<1>2. p.user = u /\ p.nonce = n
  OBVIOUS
<1>. HIDE DEF p
<1>3. \A ctx : buildRedeemCancel(ctx, p).built
  <2>1. NotNegative(p.nonce)
    BY <1>2
  <2>2. \A i \in DOMAIN <<u64(p.nonce)>> : Fits(<<u64(p.nonce)>>[i])
    BY <1>2 DEF Fits, u64
  <2>. QED  BY <2>1, <2>2, NothingStops DEF buildRedeemCancel
<1>4. \A o \in Oracles :
         /\ Build(ContextOf[o], "redeem_cancel", p) = buildRedeemCancel(ContextOf[o], p)
         /\ IsContext(ContextOf[o])
  BY ContextHas DEF Build, IsContext
<1>5. Interface["redeem_cancel"] = RedeemCancelInterface
  BY DEF Interface
<1>. DEFINE tx == Received(buildRedeemCancel(ContextOf[planned], p), RedeemCancelInterface)
<1>6. /\ Located(buildRedeemCancel(ContextOf[planned], p), RedeemCancelInterface, current)
      /\ tx.accounts.user = u
      /\ tx.accounts.request = deriveRedeemRequest(u, n, PoyzProgram)
  BY <1>1, <1>2, <1>3, <1>4, RedeemCancelBuilt DEF Sound
<1>7. tx \in AcceptedPlans["redeem_cancel"][planned][current]
  BY <1>1, <1>3, <1>4, <1>5, <1>6, BuiltIsAccepted
<1>. QED  BY <1>6, <1>7

\* And an unstake.
LEMMA UnstakeAccepted ==
    ASSUME NEW w \in Users, NEW planned \in Oracles, NEW current \in Oracles
    PROVE  \E tx \in AcceptedPlans["unstake"][planned][current] :
              tx.accounts.position = deriveStakePosition(w, PoyzProgram)
<1>. DEFINE p == [owner |-> w, owner_synthetic |-> Default]
<1>1. "unstake" \in Instructions /\ p \in Parameters["unstake"] /\ p \in Parameters.unstake
  BY SessionAssumption DEF Instructions, Parameters
<1>2. p.owner = w
  OBVIOUS
<1>. HIDE DEF p
<1>3. \A ctx : buildUnstake(ctx, p).built
  <2>1. \A i \in DOMAIN << >> : Fits(<< >>[i])
    OBVIOUS
  <2>2. \A keys : Instruction("unstake", TRUE, keys, << >>).built
    BY <2>1, NothingStops
  <2>. QED  BY <2>2 DEF buildUnstake
<1>4. \A o \in Oracles : /\ Build(ContextOf[o], "unstake", p) = buildUnstake(ContextOf[o], p)
                         /\ IsContext(ContextOf[o])
  BY ContextHas DEF Build, IsContext
<1>5. Interface["unstake"] = UnstakeInterface
  BY DEF Interface
<1>. DEFINE tx == Received(buildUnstake(ContextOf[planned], p), UnstakeInterface)
<1>6. /\ Located(buildUnstake(ContextOf[planned], p), UnstakeInterface, current)
      /\ tx.accounts.position = deriveStakePosition(w, PoyzProgram)
  BY <1>1, <1>2, <1>3, <1>4, UnstakeBuilt DEF Sound
<1>7. tx \in AcceptedPlans["unstake"][planned][current]
  BY <1>1, <1>3, <1>4, <1>5, <1>6, BuiltIsAccepted
<1>. QED  BY <1>6, <1>7

\* However often the oracle is repointed under a running client, what a user may
\* take back the client can still ask for: an expired request by a cancel, a stake
\* past its cooldown by a withdrawal.
THEOREM ExitsStayOpen == SessionSpec => []ExitsSurviveRotation
<1>1. SessionInv => ExitsSurviveRotation
  <2>. SUFFICES ASSUME SessionInv, NEW a \in DOMAIN held, Overdue(a)
                PROVE  \E tx \in Accepted(ExitOf[held[a].kind]) :
                          IF held[a].kind = "StakePosition"
                          THEN tx.accounts.position = a /\ Withdrawable(tx)
                          ELSE tx.accounts.request = a /\ Cancellable(tx, held[a].kind)
    BY DEF ExitsSurviveRotation
  <2>1. RecordOK(a, held[a]) /\ ContextOracle \in Oracles /\ oracle \in Oracles
    BY ContextIsKnown DEF SessionInv, HeldOK
  <2>2. CASE held[a].kind = "MintRequest"
    <3>1. /\ held[a].user \in Users /\ held[a].nonce \in Nonces
          /\ NotNegative(held[a].nonce) /\ held[a].nonce \in Width["u64"]
          /\ a = deriveMintRequest(held[a].user, held[a].nonce, PoyzProgram)
      BY <2>1, <2>2 DEF RecordOK, AddressRead
    <3>2. PICK tx \in AcceptedPlans["mint_cancel"][ContextOracle][oracle] :
            tx.accounts.user = held[a].user /\ tx.accounts.request = a
      BY <2>1, <3>1, MintCancelAccepted
    <3>3. tx \in Accepted(ExitOf[held[a].kind])
      BY <2>2, <3>2 DEF Accepted, ExitOf
    <3>4. Cancellable(tx, held[a].kind)
      BY <2>2, <3>2 DEF Cancellable, Holds, Overdue
    <3>. QED  BY <2>2, <3>2, <3>3, <3>4
  <2>3. CASE held[a].kind = "RedeemRequest"
    <3>1. /\ held[a].user \in Users /\ held[a].nonce \in Nonces
          /\ NotNegative(held[a].nonce) /\ held[a].nonce \in Width["u64"]
          /\ a = deriveRedeemRequest(held[a].user, held[a].nonce, PoyzProgram)
      BY <2>1, <2>3 DEF RecordOK, AddressRead
    <3>2. PICK tx \in AcceptedPlans["redeem_cancel"][ContextOracle][oracle] :
            tx.accounts.user = held[a].user /\ tx.accounts.request = a
      BY <2>1, <3>1, RedeemCancelAccepted
    <3>3. tx \in Accepted(ExitOf[held[a].kind])
      BY <2>3, <3>2 DEF Accepted, ExitOf
    <3>4. Cancellable(tx, held[a].kind)
      BY <2>3, <3>2 DEF Cancellable, Holds, Overdue
    <3>. QED  BY <2>3, <3>2, <3>3, <3>4
  <2>4. CASE held[a].kind = "StakePosition"
    <3>1. held[a].owner \in Users /\ a = deriveStakePosition(held[a].owner, PoyzProgram)
      BY <2>1, <2>4 DEF RecordOK, AddressRead
    <3>2. PICK tx \in AcceptedPlans["unstake"][ContextOracle][oracle] : tx.accounts.position = a
      BY <2>1, <3>1, UnstakeAccepted
    <3>3. tx \in Accepted(ExitOf[held[a].kind])
      BY <2>4, <3>2 DEF Accepted, ExitOf
    <3>4. Withdrawable(tx)
      BY <2>4, <3>2 DEF Withdrawable, Holds, Overdue
    <3>. QED  BY <2>4, <3>2, <3>3, <3>4
  <2>. QED  BY <2>2, <2>3, <2>4 DEF Overdue
<1>. QED  BY <1>1, SessionInvHolds, PTL

=============================================================================
