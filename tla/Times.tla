-------------------------------- MODULE Times --------------------------------
(***************************************************************************)
(* tds/time.rs, tds/time/chrono.rs and tds/time/time.rs: the temporal       *)
(* types on the wire and as the types of the two date libraries.            *)
(*                                                                         *)
(*   Time            <<increments, scale>>   increments of 10^-scale s      *)
(*   Date            <<days>>                since year 1                   *)
(*   DateTime2       <<increments, scale, days>>                            *)
(*   DateTimeOffset  <<increments, scale, days, minutes>>                   *)
(*   DateTime        <<days since 1900, fragments>>                         *)
(*   SmallDateTime   <<days since 1900, minutes>>                           *)
(*                                                                         *)
(* A moment of a library is <<days since year 1, nanos of the day>>.        *)
(***************************************************************************)
EXTENDS Wire

CONSTANTS
    NanoDigits,   \* digits of the libraries' fractional second (9)
    WireScale,    \* the scale to_sql chooses (7)
    DaySecs,      \* seconds of a day (86 400)
    MinSecs,      \* seconds of a minute (60)
    Fragments,    \* ticks of a DateTime in a second (300)
    Days1900,     \* days from year 1 to 1900 (693 595)
    MaxDay,       \* the last day the libraries represent
    MaxOffset     \* minutes of the greatest offset (840)

Second == 10 ^ NanoDigits
Day == DaySecs * Second

-----------------------------------------------------------------------------
(* The wire                                                                 *)

\* Time::len: the bytes a scale needs.
TimeLen(scale) == CASE scale \in 0..2 -> Ok(3) [] scale \in 3..4 -> Ok(4)
                    [] scale \in 5..7 -> Ok(5) [] OTHER -> Err("timen scale")

TimeEncode(inc, scale) ==
    LET len == TimeLen(scale)
    IN IF IsErr(len) THEN len
       ELSE IF inc >= Holds(len.ok) THEN Err("time increments do not fit")
       ELSE Ok(U(len.ok, inc))

\* Scale and length must belong together.
TimeDecode(r, scale, len) ==
    IF TimeLen(scale) # Ok(len) THEN Bad(r)
    ELSE On(Take(r, len), LAMBDA t : Yield(t, <<t.v, scale>>))

DateEncode(days) == IF days >= Holds(3) THEN Err("date out of range")
                    ELSE Ok(U(3, days))

DateTimeEncode(v) == U(4, v[1]) \o U(4, v[2])
SmallDateTimeEncode(v) == U(2, v[1]) \o U(2, v[2])
DateTime2Encode(v) == Then(TimeEncode(v[1], v[2]), DateEncode(v[3]))
DateTimeOffsetEncode(v) == Then(DateTime2Encode(v), Ok(U(2, v[4])))

\* Two fields of equal width (DateTime, SmallDateTime).
PairDecode(r, width) ==
    On(Take(r, width), LAMBDA a :
    On(Take(a, width), LAMBDA b : Yield(b, <<a.v, b.v>>)))

\* A time, then one more field: the date of a DateTime2, ...
DateTime2Decode(r, scale, len) ==
    On(TimeDecode(r, scale, len), LAMBDA t :
    On(Take(t, 3), LAMBDA d : Yield(d, Append(t.v, d.v))))

\* ... and the offset of a DateTimeOffset.
DateTimeOffsetDecode(r, scale, len) ==
    On(DateTime2Decode(r, scale, len), LAMBDA t :
    On(Take(t, 2), LAMBDA o : Yield(o, Append(t.v, o.v))))

\* DateTime2 in a datetime column: the fraction is truncated to fragments, if
\* it has no more digits than a nanosecond (datetime2_to_datetime).
datetime2_to_datetime(v) ==
    IF v[3] < Days1900 THEN Err("before 1900")
    ELSE IF v[2] > NanoDigits THEN Err("invalid datetime2 scale")
    ELSE Ok(<<v[3] - Days1900, (v[1] * Fragments) \div 10 ^ v[2]>>)

\* DateTime2 in a datetime2 column of another scale: truncated.
datetime2_rescale(v, scale) ==
    IF scale >= v[2] THEN <<v[1] * 10 ^ (scale - v[2]), scale, v[3]>>
    ELSE <<v[1] \div 10 ^ (v[2] - scale), scale, v[3]>>

-----------------------------------------------------------------------------
(* The libraries                                                            *)

\* from_days: the libraries' calendars end.
from_days(days, start) ==
    IF start + days \in 0..MaxDay THEN Ok(start + days) ELSE Err("date range")

nanos_from_increments(inc, scale) ==
    IF scale <= NanoDigits THEN inc * 10 ^ (NanoDigits - scale)
                           ELSE inc

\* Adding a duration to midnight wraps around the day.
OfDay(nanos) == nanos % Day

Moment(days, nanos) ==
    IF IsErr(days) THEN days ELSE Ok(<<days.ok, OfDay(nanos)>>)

\* Into a library's date and time (from_sql!), by the kind of the value.
to_moment(k, v) ==
    CASE k = "SmallDateTime" ->
           IF v[2] * MinSecs >= DaySecs THEN Err("seconds of day")
           ELSE Moment(from_days(v[1], Days1900), v[2] * MinSecs * Second)
      [] k = "DateTime2" ->
           Moment(from_days(v[3], 0), nanos_from_increments(v[1], v[2]))
      [] k = "DateTime" ->
           Moment(from_days(v[1], Days1900), (v[2] * Second) \div Fragments)
      [] k = "DateTimeOffset" ->
           IF v[4] \notin -MaxOffset..MaxOffset THEN Err("offset")
           ELSE Moment(from_days(v[3], 0), nanos_from_increments(v[1], v[2]))

\* chrono::DateTime<Utc> of a datetimeoffset takes the offset off the value
\* once more (chrono.rs), although the value is in UTC on the wire.
to_utc_moment(v) ==
    LET m == to_moment("DateTimeOffset", v)
        n == m.ok[2] - v[4] * MinSecs * Second
    IN IF IsErr(m) THEN m
       ELSE Ok(<<m.ok[1] + (IF n < 0 THEN -1 ELSE IF n >= Day THEN 1 ELSE 0),
                 n % Day>>)

\* Out of a library's type (to_sql!, into_sql!): truncated to increments.
\* `offset` is empty, or the offset in whole minutes.
from_moment(m, offset) ==
    <<m[2] \div 10 ^ (NanoDigits - WireScale), WireScale, m[1]>> \o offset

=============================================================================
