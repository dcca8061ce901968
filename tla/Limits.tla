-------------------------------- MODULE Limits --------------------------------
(***************************************************************************)
(* Spending caps in US dollars, internal/limits/limits.go.  Prices enter    *)
(* through a table of rates, caps are decimal amounts with zero for "not    *)
(* set", and every comparison is made on integers of 10^-USDScale dollars.  *)
(***************************************************************************)
EXTENDS Money

CONSTANTS USDScale      \* 6: caps are compared in millionths of a dollar

ASSUME LimitsAssumption == USDScale \in Nat /\ MaxUint \in Nat

\* What a conversion answers instead of a number of units.
CapInvalid == -4
NoRate == -5
RateInvalid == -6

toMicro(a) == IF IsZero(a) THEN CapInvalid ELSE BaseUnits(a, USDScale)

CapMicro(c) == toMicro(c)

FormatUSD(micro) == NewFromBaseUnits(micro, USDScale)

\* Rates.Add: {} when the rate is refused, the table with it otherwise.
AddRate(rates, mints, mint, rate) ==
  IF mint \in mints /\ rate.decimals <= MaxFractionDigits /\ toMicro(rate.usd) >= 0
  THEN {[m \in DOMAIN rates \cup {mint} |-> IF m = mint THEN rate ELSE rates[m]]}
  ELSE {}

Missing(rates, governed) == governed \ DOMAIN rates

\* scaleToUSD that keeps the low word of the product.
scaleToUSD_Wraps(units, perToken) == ((units * perToken) % (MaxUint + 1)) \div Pow10(USDScale)

\* The product is taken in two words; a quotient that needs two words saturates.
scaleToUSD(units, perToken) ==
  LET product == units * perToken
      hi == product \div (MaxUint + 1)
  IN  IF hi >= Pow10(USDScale) THEN MaxUint ELSE product \div Pow10(USDScale)

\* Policy.USDValue and PriceCache.USDValue.
USDValue(rates, amount, mint) ==
  IF mint \notin DOMAIN rates THEN NoRate
  ELSE LET units == BaseUnits(amount, rates[mint].decimals)
           perToken == toMicro(rates[mint].usd)
       IN  CASE units < 0 -> units
             [] units >= 0 /\ perToken < 0 -> perToken
             [] units >= 0 /\ perToken = 0 -> RateInvalid
             [] OTHER -> scaleToUSD(units, perToken)

\* A running uint64 total, as checkSpend and CommittedSpendUSD keep it: a row
\* that cannot be priced, or an addition that wraps, ends the sum with an error.
SpendOverflow == -7
AddSpend(total, value) ==
  IF total < 0 THEN total
  ELSE IF value < 0 THEN value
  ELSE LET sum == (total + value) % (MaxUint + 1)
       IN  IF sum < value THEN SpendOverflow ELSE sum

\* The rows of a function, in any order: it decides only which of several errors
\* is answered.
SumSpend(first, values) == FoldFunction(LAMBDA value, total : AddSpend(total, value), first, values)

-----------------------------------------------------------------------------
(* Policy                                                                   *)

BoundOK(ceiling, cap) ==
  IsZero(ceiling) \/ (toMicro(ceiling) >= 0 /\ Cmp(ceiling, cap) >= 0)

Validate(p) ==
  /\ toMicro(p.perTrade) >= 0
  /\ toMicro(p.perDay) >= 0
  /\ p.window > 0
  /\ BoundOK(p.ceilingPerTrade, p.perTrade)
  /\ BoundOK(p.ceilingPerDay, p.perDay)

Raised(own, default) == IF ~IsZero(own) /\ Cmp(own, default) > 0 THEN own ELSE default

\* The caps in force for an agent whose stored opt-in is a set of at most one row.
Effective(p, optIn) ==
  IF optIn = {} THEN [perTrade |-> p.perTrade, perDay |-> p.perDay]
  ELSE LET own == CHOOSE row \in optIn : TRUE
       IN  [perTrade |-> Raised(own.perTrade, p.perTrade),
            perDay |-> Raised(own.perDay, p.perDay)]

Check(p, caps) ==
  /\ toMicro(caps.perTrade) >= 0
  /\ toMicro(caps.perDay) >= 0
  /\ IsZero(p.ceilingPerTrade) \/ Cmp(caps.perTrade, p.ceilingPerTrade) <= 0
  /\ IsZero(p.ceilingPerDay) \/ Cmp(caps.perDay, p.ceilingPerDay) <= 0
=============================================================================
