-------------------------------- MODULE Fees --------------------------------
(***************************************************************************)
(* What a venue charges a taker (src/src/fees.rs), in whole cents: a rate  *)
(* times p(1 - p) for each contract, rounded up once for each fill.        *)
(***************************************************************************)
EXTENDS Integers

CONSTANTS KalshiNumer, KalshiDenom     \* the multiplier of Kalshi's schedule

ASSUME FeesAssumption == KalshiNumer \in Nat /\ KalshiDenom \in Nat \ {0}

Dollar == 100                \* a contract pays a dollar or nothing

RoundedUp(n, d) == (n + d - 1) \div d

KalshiFee(price, qty) ==
    RoundedUp(7 * qty * price * (Dollar - price) * KalshiNumer, 10000 * KalshiDenom)

FeeCategory == {"Crypto", "Sports", "PoliticsFinance", "Zero"}

RateBps(category) ==
    CASE category = "Crypto"          -> 700
      [] category = "Sports"          -> 500
      [] category = "PoliticsFinance" -> 400
      [] category = "Zero"            -> 0

(* Gamma's feeType; one this list does not know is the dearest category.   *)
FromFeeType(type) ==
    CASE type = "zero_fees"               -> "Zero"
      [] type = "sports"                  -> "Sports"
      [] type \in {"politics", "finance"} -> "PoliticsFinance"
      [] OTHER                            -> "Crypto"

(* A market's category: feesEnabled says whether there is a fee at all.    *)
MarketCategory(m) == IF m.feesEnabled THEN FromFeeType(m.feeType) ELSE "Zero"

(* The category charged: the dearest one for a contract never registered.  *)
Category(table, c) == IF c \in DOMAIN table THEN table[c] ELSE "Crypto"

PolymarketFee(category, price, qty) ==
    RoundedUp(qty * RateBps(category) * price * (Dollar - price), 10000 * 100)

TakerFee(venue, table, c, price, qty) ==
    IF venue = "Kalshi" THEN KalshiFee(price, qty)
    ELSE PolymarketFee(Category(table, c), price, qty)
=============================================================================
