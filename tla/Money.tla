-------------------------------- MODULE Money --------------------------------
(***************************************************************************)
(* Decimal amounts, internal/money/money.go.  An Amount is a canonical      *)
(* decimal string; here its digits before and after the point.  The code    *)
(* allows 19 and 9 of them and converts to a uint64; the three limits are   *)
(* constants so that TLC can reach them.                                    *)
(***************************************************************************)
EXTENDS Integers, Sequences, SequencesExt

CONSTANTS MaxIntegerDigits,   \* 19
          MaxFractionDigits,  \* 9
          MaxUint             \* 2^64 - 1

Digit == 0 .. 9

\* Trailing zeros are kept: 1 and 1.0 are two amounts of one value.
DecimalAmount == [integer : Seq(Digit), fraction : Seq(Digit)]

\* The number a digit string denotes: strconv.ParseUint without its limit.
Value(digits) ==
  LET upTo[i \in 0 .. Len(digits)] == IF i = 0 THEN 0 ELSE 10 * upTo[i - 1] + digits[i]
  IN  upTo[Len(digits)]

\* The text Parse is given, cut at its point.
Text(integer, point, fraction) ==
  [integer |-> integer, point |-> point, fraction |-> fraction]

\* Parse accepts a text iff it is the one canonical way to write its digits.
Parses(text) ==
  /\ Len(text.integer) \in 1 .. MaxIntegerDigits
  /\ Len(text.integer) > 1 => Head(text.integer) # 0
  /\ text.point => Len(text.fraction) \in 1 .. MaxFractionDigits
  /\ ~text.point => text.fraction = <<>>

Parse(text) == [integer |-> text.integer, fraction |-> text.fraction]

IsZero(a) == \A d \in Range(a.integer) \cup Range(a.fraction) : d = 0

Zeros(n) == [i \in 1 .. n |-> 0]

\* 10^n, a one and n zeros: math.Pow10.
Pow10(n) == Value(<< 1 >> \o Zeros(n))

Longer(s, t) == IF Len(s) > Len(t) THEN Len(s) ELSE Len(t)

align(integer, fraction, width, scale) ==
  Zeros(width - Len(integer)) \o integer \o fraction \o Zeros(scale - Len(fraction))

\* Go's < on two strings of equal length: the first difference decides.
Before(s, t) ==
  \E i \in 1 .. Len(s) : s[i] < t[i] /\ \A j \in 1 .. i - 1 : s[j] = t[j]

Cmp(a, b) ==
  LET width == Longer(a.integer, b.integer)
      scale == Longer(a.fraction, b.fraction)
      at == align(a.integer, a.fraction, width, scale)
      bt == align(b.integer, b.fraction, width, scale)
  IN  IF Before(bt, at) THEN 1 ELSE IF Before(at, bt) THEN -1 ELSE 0

\* BaseUnits answers the units, or which error it returns.
TooPrecise == -1
Overflow == -2
BadScale == -3

\* BaseUnits that drops the digits the token cannot carry.
BaseUnits_Truncates(a, decimals) ==
  LET kept == SubSeq(a.fraction, 1, IF Len(a.fraction) < decimals THEN Len(a.fraction) ELSE decimals)
      units == Value(a.integer \o kept \o Zeros(decimals - Len(kept)))
  IN  IF decimals \notin 0 .. MaxFractionDigits THEN BadScale
      ELSE IF units > MaxUint THEN Overflow ELSE units

BaseUnits(a, decimals) ==
  LET units == Value(a.integer \o a.fraction \o Zeros(decimals - Len(a.fraction)))
  IN  IF decimals \notin 0 .. MaxFractionDigits THEN BadScale
      ELSE IF Len(a.fraction) > decimals THEN TooPrecise
      ELSE IF units > MaxUint THEN Overflow ELSE units

\* strconv.FormatUint: the digits of n, most significant first.
FormatUint(n) ==
  LET width == CHOOSE k \in 1 .. MaxIntegerDigits + MaxFractionDigits + 1 :
                 /\ n < Pow10(k)
                 /\ k > 1 => n >= Pow10(k - 1)
  IN  [i \in 1 .. width |-> (n \div Pow10(width - i)) % 10]

\* The amount with a given number of base units, {} when it cannot be written.
NewFromBaseUnits(units, decimals) ==
  LET digits == FormatUint(units)
      padded == IF Len(digits) <= decimals
                THEN Zeros(decimals - Len(digits) + 1) \o digits ELSE digits
      cut == Len(padded) - decimals
  IN  IF \/ decimals \notin 1 .. MaxFractionDigits
         \/ Len(digits) > MaxIntegerDigits + decimals
      THEN {}
      ELSE {[integer |-> SubSeq(padded, 1, cut),
             fraction |-> SubSeq(padded, cut + 1, Len(padded))]}
=============================================================================
