------------------------------ MODULE Decoders -------------------------------
(* The account layouts and what the decoders of dl-state read of them.  A  *)
(* layout is the list of its fields with their widths in bytes; a decoder  *)
(* reads at fixed offsets and looks at nothing but the length (and, for an *)
(* AmmInfo, its status), so it accepts accounts of other layouts too.      *)
(*                                                                         *)
(* An account is a record with its layout and its size.  Raydium's coin    *)
(* and pc, and the x and y of the others, are named base and quote.        *)
EXTENDS Naturals, Sequences

Each(names, width) == [i \in DOMAIN names |-> <<names[i], width>>]

(***************************************************************************)
(* The layouts.                                                            *)
(***************************************************************************)
Fees ==
    Each(<<"min_separate_numerator", "min_separate_denominator", "trade_fee_numerator",
           "trade_fee_denominator", "pnl_numerator", "pnl_denominator",
           "swap_fee_numerator", "swap_fee_denominator">>, 8)

StateData ==
    Each(<<"need_take_pnl_coin", "need_take_pnl_pc", "total_pnl_pc", "total_pnl_coin",
           "pool_open_time", "padding", "padding", "orderbook_to_init_time">>, 8)
    \o Each(<<"swap_coin_in_amount", "swap_pc_out_amount">>, 16)
    \o <<<<"swap_acc_pc_fee", 8>>>>
    \o Each(<<"swap_pc_in_amount", "swap_coin_out_amount">>, 16)
    \o <<<<"swap_acc_coin_fee", 8>>>>

AmmInfo ==
    Each(<<"status", "nonce", "order_num", "depth", "base_decimals", "quote_decimals", "state",
           "reset_flag", "min_size", "vol_max_cut_ratio", "amount_wave", "coin_lot_size",
           "pc_lot_size", "min_price_multiplier", "max_price_multiplier", "sys_decimal_value">>, 8)
    \o Fees \o StateData
    \o Each(<<"base_vault", "quote_vault", "base_mint", "quote_mint", "lp_mint", "open_orders",
              "market", "market_program", "target_orders">>, 32)
    \o <<<<"padding1", 64>>, <<"amm_owner", 32>>>>
    \o Each(<<"lp_amount", "client_order_id", "recent_epoch", "padding2">>, 8)

ValidStatus == 1 .. 7

Whirlpool ==
    <<<<"sqrt_price", 16>>, <<"tick_current_index", 4>>, <<"tick_spacing", 2>>,
      <<"padding", 6>>, <<"liquidity", 16>>>>
    \o Each(<<"base_mint", "quote_mint", "base_vault", "quote_vault">>, 32)
    \o <<<<"extra", 82>>, <<"fee_rate", 2>>>>

BinWindow == 65

LbPair ==
    <<<<"bin_step", 2>>, <<"active_id", 4>>, <<"padding", 6>>>>
    \o Each(<<"base_mint", "quote_mint", "base_vault", "quote_vault">>, 32)
    \o <<<<"x_program_flag", 1>>, <<"y_program_flag", 1>>, <<"padding", 14>>>>
    \o [n \in 1 .. 3 * BinWindow |->
          CASE n % 3 = 1 -> <<"bin_amount_x", 8>> [] n % 3 = 2 -> <<"bin_amount_y", 8>>
            [] OTHER -> <<"bin_price", 16>>]

(* The 653 bytes of a Whirlpool on chain: the repository has no other      *)
(* account of this layout than the decoder's own offsets.                  *)
WhirlpoolReal ==
    <<<<"discriminator", 8>>, <<"bump", 1>>, <<"tick_spacing", 2>>, <<"unread", 2>>,
      <<"fee_rate", 2>>, <<"protocol_fee_rate", 2>>, <<"padding", 15>>,
      <<"liquidity", 16>>, <<"sqrt_price", 16>>, <<"tick_current_index", 4>>, <<"padding", 4>>,
      <<"protocol_fee_owed_a", 8>>, <<"protocol_fee_owed_b", 8>>>>
    \o Each(<<"base_mint", "quote_mint", "base_vault", "quote_vault">>, 32)
    \o <<<<"reward_infos", 384>>, <<"reward_last_updated", 53>>>>

TokenAccount == <<<<"mint", 32>>, <<"owner", 32>>, <<"amount", 8>>, <<"rest", 93>>>>

Layouts == [amm_info |-> AmmInfo, whirlpool |-> Whirlpool, lb_pair |-> LbPair,
            whirlpool_real |-> WhirlpoolReal, token |-> TokenAccount]

(* Where each field ends.                                                  *)
EndsAt(layout) ==
    LET end[n \in 0 .. Len(layout)] == IF n = 0 THEN 0 ELSE end[n - 1] + layout[n][2]
    IN  end

Sizes == [l \in DOMAIN Layouts |-> EndsAt(Layouts[l])[Len(Layouts[l])]]

(***************************************************************************)
(* The decoders: the bytes each needs, and where it reads what.            *)
(***************************************************************************)
Needs == [amm_info |-> 752, whirlpool |-> 256, lb_pair |-> 156 + 32 * BinWindow,
          whirlpool_real |-> 653, token |-> 165]

Decodes(decoder, account) ==
    /\ account.size >= Needs[decoder]
    /\ decoder = "amm_info" => account.status \in ValidStatus

(* Mutant: base and quote vault are read the wrong way round. *)
ReadsSwapped == [base_mint |-> 88, quote_mint |-> 120, base_vault |-> 184, quote_vault |-> 152]

ReadsWhirlpoolReal == [base_mint |-> 88, quote_mint |-> 120, base_vault |-> 152, quote_vault |-> 184]
ReadsWhirlpool == [base_mint |-> 44, quote_mint |-> 76, base_vault |-> 108, quote_vault |-> 140]
ReadsLbPair    == [base_mint |-> 12, quote_mint |-> 44, base_vault |-> 76, quote_vault |-> 108]
ReadsAmmInfo   == [base_vault |-> 336, quote_vault |-> 368, base_mint |-> 400, quote_mint |-> 432]

Offsets == [amm_info |-> ReadsAmmInfo, whirlpool |-> ReadsWhirlpool, lb_pair |-> ReadsLbPair,
            whirlpool_real |-> ReadsWhirlpoolReal]

(* The field of a layout that lies exactly at an offset, or "mixed" bytes. *)
FieldAt(layout, offset, width) ==
    LET end == EndsAt(layout)
        here == {n \in DOMAIN layout : end[n - 1] = offset /\ layout[n][2] = width}
    IN  IF here = {} THEN "mixed" ELSE layout[CHOOSE n \in here : TRUE][1]

(* What each decoder takes for the keys of a pool, in each layout.         *)
Keys ==
    [d \in DOMAIN Offsets |-> [l \in DOMAIN Layouts |->
        [f \in DOMAIN Offsets[d] |-> FieldAt(Layouts[l], Offsets[d][f], 32)]]]

(* Trade fee in basis points, capped at u16::MAX; none for a denominator 0. *)
FeeBps(numerator, denominator) ==
    IF denominator = 0 THEN {}
    ELSE LET bps == (numerator * 10000) \div denominator
         IN  {IF bps > 65535 THEN 65535 ELSE bps}
=============================================================================
