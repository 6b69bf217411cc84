------------------------------ MODULE Numerics ------------------------------
(***************************************************************************)
(* tds/numeric.rs, the rescaling of tds/codec/column_data.rs and            *)
(* tds/codec/column_data/money.rs.                                          *)
(*                                                                         *)
(* A Numeric is <<value, scale>>.  The widths are those of the code, in     *)
(* bytes of ByteBase values; the number of digits each width is used for    *)
(* is a parameter, because it follows from ByteBase: 9, 19 and 28 digits    *)
(* for 4, 8 and 12 bytes of 256, and at most 38 in 16.                      *)
(***************************************************************************)
EXTENDS Wire

CONSTANTS
    Buckets,       \* digits stored in 4, 8 and 12 bytes
    MaxPrecision,  \* the greatest precision of a column (38)
    NaN            \* a double that is not finite

I128Max == Holds(15) * (ByteBase \div 2 - 1) + (Holds(15) - 1)

\* What the choice of a width rests on: every number with so many digits
\* fits the bytes.
ASSUME BucketAssumption ==
    /\ \A i \in 1..3 : 10 ^ Buckets[i] <= Holds(4 * i)
    /\ 10 ^ MaxPrecision <= I128Max

Pow10(n) == 10 ^ n
Abs(n) == IF n < 0 THEN -n ELSE n
Sign(n) == IF n < 0 THEN -1 ELSE IF n > 0 THEN 1 ELSE 0

\* Division of integers truncates towards zero.
Quot(a, b) == Sign(a) * (Abs(a) \div b)

\* checked_mul
MulFits(a, b) == Abs(a) <= I128Max \div b

-----------------------------------------------------------------------------
(* numeric.rs                                                               *)

int_part(num) == Quot(num[1], Pow10(num[2]))
dec_part(num) == num[1] - int_part(num) * Pow10(num[2])

\* The digits of the integer part, at least one, and the scale.
precision(num) ==
    num[2] + IF int_part(num) = 0 THEN 1
             ELSE 1 + Max({k \in 0..MaxPrecision :
                              Pow10(k) <= Abs(int_part(num))})

\* The length of the value with its sign byte.
NumericLen(num) == CASE precision(num) <= Buckets[1] -> 5
                     [] precision(num) \in (Buckets[1] + 1)..Buckets[2] -> 9
                     [] precision(num) \in (Buckets[2] + 1)..Buckets[3] -> 13
                     [] OTHER -> 17

\* `value as u32` and the like keep the low bytes.
NumericEncode(num) ==
    LET len == NumericLen(num)
        width == len - 1
        kept == IF width = 16 THEN Abs(num[1]) ELSE Abs(num[1]) % Holds(width)
    IN U(1, len) \o U(1, IF num[1] < 0 THEN 0 ELSE 1) \o U(width, kept)

\* A sign byte and a magnitude: <<n, scale>>.
SignedDecode(r, width, scale) ==
    On(Take(r, 1), LAMBDA sign :
        IF sign.v \notin {0, 1} THEN Bad(r)
        ELSE On(Take(sign, width), LAMBDA n :
                 Yield(n, <<n.v * (2 * sign.v - 1), scale>>)))

\* A value <<n, scale>>, or none for a length of 0.
NumericDecode(r, scale) ==
    On(Take(r, 1), LAMBDA len :
        IF len.v = 0 THEN Yield(len, <<>>)
        ELSE IF len.v \notin {5, 9, 13, 17} THEN Bad(r)
        ELSE SignedDecode(len, len.v - 1, scale))

-----------------------------------------------------------------------------
(* Numeric into a column of another scale (column_data.rs).                 *)

\* A slip: rounds half up, which is not away from zero below zero.
rescale_half_up(num, target) ==
    IF target >= num[2]
    THEN LET f == Pow10(target - num[2])
         IN IF MulFits(num[1], f) THEN Ok(<<num[1] * f, target>>)
                                  ELSE Err("numeric rescale overflow")
    ELSE LET f == Pow10(num[2] - target)
         IN Ok(<<(num[1] + f \div 2) \div f, target>>)

rescale(num, target) ==
    IF target = num[2] THEN Ok(num)
    ELSE IF target > num[2]
    THEN LET f == Pow10(target - num[2])
         IN IF MulFits(num[1], f) THEN Ok(<<num[1] * f, target>>)
                                  ELSE Err("numeric rescale overflow")
    ELSE LET f == Pow10(num[2] - target)
             half == f \div 2
         IN IF Abs(num[1]) > I128Max - half THEN Err("numeric rescale overflow")
            ELSE Ok(<<Quot(num[1] + (IF num[1] >= 0 THEN half ELSE -half), f),
                      target>>)

-----------------------------------------------------------------------------
(* money.rs: a count of ten-thousandths in 4 or 8 bytes.                    *)

MoneyScale == 4

\* put_scaled: the range of the field is checked; the eight-byte form sends
\* its high half first.
put_scaled(len, scaled, prefixed) ==
    LET width == IF len = 4 THEN 4 ELSE 8
        limit == Holds(width - 1) * (ByteBase \div 2)
    IN IF scaled < -limit \/ scaled >= limit THEN Err("money out of range")
       ELSE Ok((IF prefixed THEN U(1, width) ELSE <<>>) \o
               (IF width = 4 THEN U(4, scaled)
                ELSE U(4, scaled \div Holds(4)) \o U(4, scaled % Holds(4))))

\* Round half away from zero, by quotient and remainder.
RoundDiv(n, d) ==
    LET q == Quot(n, d)
        rem == Abs(n - q * d)
    IN IF rem * 2 >= d THEN q + Sign(n) ELSE q

\* encode_inner: a double, here a count of hundred-thousandths.
MoneyEncode(len, val, prefixed) ==
    IF val = NaN THEN Err("money not finite")
    ELSE put_scaled(len, RoundDiv(val, 10), prefixed)

\* encode_numeric_inner: exact, without going through a double.
MoneyEncodeNumeric(len, num, prefixed) ==
    IF num[2] > MoneyScale
    THEN put_scaled(len, RoundDiv(num[1], Pow10(num[2] - MoneyScale)), prefixed)
    ELSE IF MulFits(num[1], Pow10(MoneyScale - num[2]))
    THEN put_scaled(len, num[1] * Pow10(MoneyScale - num[2]), prefixed)
    ELSE Err("money overflows")

\* The value as a double again: <<hundred-thousandths>>, or none.
MoneyDecode(r, len) ==
    CASE len = 0 -> Yield(r, <<>>)
      [] len = 4 -> On(Take(r, 4), LAMBDA n : Yield(n, <<n.v * 10>>))
      [] len = 8 -> On(Take(r, 4), LAMBDA high : On(Take(high, 4), LAMBDA low :
                        Yield(low, <<(high.v * Holds(4) + low.v) * 10>>)))
      [] OTHER -> Bad(r)

=============================================================================
