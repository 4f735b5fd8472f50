------------------------------ MODULE Calendar ------------------------------
(***************************************************************************)
(* Dates in queries (crates/synapse-core/src/temporal.rs): the conversion  *)
(* between civil dates and day numbers, time stamps with offsets, and the  *)
(* ranges that phrases like "last week" or "q3 2024" stand for.            *)
(*                                                                         *)
(* A wall clock walks through the days.  It is kept twice: as the day      *)
(* number `day` the program computes with, and as the date `wall` that a   *)
(* calendar on the wall shows, which only knows how one date follows       *)
(* another.  An instant is a pair <<day, second>>, a range an interval of  *)
(* days, both ends included (the code multiplies days by DAY = 86400).     *)
(***************************************************************************)
EXTENDS Integers, Sequences

CONSTANTS StartDates,  \* where the clock starts
          MaxSteps,    \* how many days it runs
          Seconds,     \* seconds of the day at which stamps are taken
          Offsets      \* offsets from UTC in which they are written

VARIABLES day, wall, steps

calVars == <<day, wall, steps>>

DaySeconds == 86400
NoDate == [year |-> 0, month |-> 0, day |-> 0]
NoRange == [lo |-> 1, hi |-> 0]

\* Mutant: the Julian rule.
JulianLeap(y) == y % 4 = 0

is_leap_year(y) == y % 4 = 0 /\ (y % 100 # 0 \/ y % 400 = 0)

days_in_month(y, m) ==
    IF m \in {1, 3, 5, 7, 8, 10, 12} THEN 31
    ELSE IF m \in {4, 6, 9, 11} THEN 30
    ELSE IF is_leap_year(y) THEN 29 ELSE 28

ValidDate(d) == /\ 1 <= d.year /\ d.year <= 9999
                /\ d.month \in 1..12
                /\ d.day \in 1..days_in_month(d.year, d.month)

\* The clock starts on dates of the calendar; stamps are taken within a day.
ASSUME CalendarAssumption ==
    /\ \A d \in StartDates : d \in [year : Nat, month : Nat, day : Nat] /\ ValidDate(d)
    /\ \A s \in Seconds : s \in Nat /\ s < DaySeconds
    /\ Offsets \subseteq Int

\* Day number of a valid date, 1970-01-01 being 0; March begins the year.
days_from_civil(d) ==
    LET year == IF d.month <= 2 THEN d.year - 1 ELSE d.year
        era == year \div 400
        yoe == year - era * 400
        doy == (153 * (d.month + (IF d.month > 2 THEN -3 ELSE 9)) + 2) \div 5 + d.day - 1
        doe == yoe * 365 + yoe \div 4 - yoe \div 100 + doy
    IN era * 146097 + doe - 719468

\* Mutant: the last day of a 400-year era falls into a year of its own.
CivilOffByOne(n) ==
    LET z == n + 719468
        doe == z % 146097
        yoe == (doe - doe \div 1460 + doe \div 36524) \div 365
        doy == doe - (365 * yoe + yoe \div 4 - yoe \div 100)
        mp == (5 * doy + 2) \div 153
        month == mp + (IF mp < 10 THEN 3 ELSE -9)
    IN [year |-> yoe + (z \div 146097) * 400 + (IF month <= 2 THEN 1 ELSE 0),
        month |-> month, day |-> doy - (153 * mp + 2) \div 5 + 1]

civil_from_days(n) ==
    LET z == n + 719468
        era == z \div 146097
        doe == z - era * 146097
        yoe == (doe - doe \div 1460 + doe \div 36524 - doe \div 146096) \div 365
        doy == doe - (365 * yoe + yoe \div 4 - yoe \div 100)
        mp == (5 * doy + 2) \div 153
        month == mp + (IF mp < 10 THEN 3 ELSE -9)
        date == [year |-> yoe + era * 400 + (IF month <= 2 THEN 1 ELSE 0),
                 month |-> month, day |-> doy - (153 * mp + 2) \div 5 + 1]
    IN IF ValidDate(date) THEN date ELSE NoDate

-----------------------------------------------------------------------------
(* Ranges                                                                  *)

Date(y, m, d) == [year |-> y, month |-> m, day |-> d]
Between(first, next) ==
    IF ValidDate(first) /\ ValidDate(next)
    THEN [lo |-> days_from_civil(first), hi |-> days_from_civil(next) - 1] ELSE NoRange

day_bounds(n) == IF civil_from_days(n) = NoDate THEN NoRange ELSE [lo |-> n, hi |-> n]

\* 1970-01-01 was a Thursday; rem_euclid is TLA+'s %.
week_of(n) == IF civil_from_days(n) = NoDate THEN NoRange
              ELSE [lo |-> n - ((n + 3) % 7), hi |-> n - ((n + 3) % 7) + 6]

month_of(y, m) == Between(Date(y, m, 1), IF m = 12 THEN Date(y + 1, 1, 1) ELSE Date(y, m + 1, 1))
year_of(y) == Between(Date(y, 1, 1), Date(y + 1, 1, 1))

quarter_of(y, q) ==
    LET next == IF q = 4 THEN month_of(y + 1, 1) ELSE month_of(y, 3 * q + 1)
        first == month_of(y, 3 * q - 2)
    IN IF first = NoRange \/ next = NoRange THEN NoRange
       ELSE [lo |-> first.lo, hi |-> next.lo - 1]

\* Mutant: the month index loses its base.
MonthShiftedWrong(today, k) ==
    LET i == today.year * 12 + today.month + k IN month_of(i \div 12, (i % 12) + 1)

MonthShifted(today, k) ==
    LET i == today.year * 12 + today.month - 1 + k IN month_of(i \div 12, (i % 12) + 1)

unit_days == [day |-> 1, week |-> 7, month |-> 30, year |-> 365]

\* A phrase is a kind with its numbers; `year = 0` in "quarter" and "month"
\* is a phrase without a year (or one outside 1900..2099).
phrase_range(p, n) ==
    LET today == civil_from_days(n)
        year == IF p.year \in 1900..2099 THEN p.year ELSE today.year IN
    CASE p.kind = "stamp"    -> day_bounds(p.count)
      [] p.kind = "dayShift" -> day_bounds(n + p.count)
      [] p.kind = "units"    -> day_bounds(n + p.count * unit_days[p.unit])
      [] p.kind = "week"     -> week_of(n + 7 * p.count)
      [] p.kind = "monthShift" -> MonthShifted(today, p.count)
      [] p.kind = "yearShift"  -> year_of(today.year + p.count)
      [] p.kind = "quarter"  -> quarter_of(year, p.count)
      [] p.kind = "month"    -> month_of(year, p.count)

\* The order in which parse_temporal looks for the kinds.
Precedence == <<"stamp", "dayShift", "units", "week", "monthShift", "yearShift", "quarter", "month">>

\* Weeks and months are one loop, in which each "week" needle is tried
\* before any "month" needle; of two phrases of one kind the first in the
\* code's list wins, which the caller says by offering one per kind.
parse_temporal(phrases, n) ==
    LET found == {k \in DOMAIN Precedence : \E p \in phrases : p.kind = Precedence[k]} IN
    IF civil_from_days(n) = NoDate \/ found = {} THEN NoRange
    ELSE LET k == CHOOSE k \in found : \A j \in found : k <= j
         IN phrase_range(CHOOSE p \in phrases : p.kind = Precedence[k], n)

-----------------------------------------------------------------------------
(* Time stamps                                                             *)

Instant(n, s) == <<n + s \div DaySeconds, s % DaySeconds>>
SecondOfDay(f) == f.hour * 3600 + f.minute * 60 + f.second

\* Mutant: the offset is added where it must be taken away.
ParseAddsOffset(f, offset) ==
    IF ~ValidDate(f.date) \/ f.hour > 23 \/ f.minute > 59 \/ f.second > 59 THEN <<>>
    ELSE Instant(days_from_civil(f.date), SecondOfDay(f) + offset)

\* The fields of a stamp and the offset it is written with, to an instant.
parse_timestamp(f, offset) ==
    IF ~ValidDate(f.date) \/ f.hour > 23 \/ f.minute > 59 \/ f.second > 59 THEN <<>>
    ELSE Instant(days_from_civil(f.date), SecondOfDay(f) - offset)

format_timestamp(i) ==
    [date |-> civil_from_days(i[1]), hour |-> i[2] \div 3600,
     minute |-> (i[2] % 3600) \div 60, second |-> i[2] % 60]

-----------------------------------------------------------------------------
(* The wall clock                                                          *)

\* How one date follows another, with the months' lengths as on the wall.
MonthLength(d) ==
    IF d.month = 2
    THEN IF (d.year % 400 = 0) \/ (d.year % 4 = 0 /\ d.year % 100 # 0) THEN 29 ELSE 28
    ELSE <<31, 0, 31, 30, 31, 30, 31, 31, 30, 31, 30, 31>>[d.month]

Tomorrow(d) ==
    IF d.day < MonthLength(d) THEN [d EXCEPT !.day = @ + 1]
    ELSE IF d.month < 12 THEN Date(d.year, d.month + 1, 1)
    ELSE Date(d.year + 1, 1, 1)

CalInit == /\ wall \in StartDates
           /\ day = days_from_civil(wall)
           /\ steps = 0

CalTick == /\ steps < MaxSteps
           /\ day' = day + 1
           /\ wall' = Tomorrow(wall)
           /\ steps' = steps + 1

-----------------------------------------------------------------------------
(* Properties                                                              *)

\* civil_from_days and days_from_civil agree with the calendar on the wall on
\* every day the clock shows, across month ends, leap days and centuries, and
\* past 9999-12-31 there is no date.
DatesAgree ==
    IF wall.year <= 9999
    THEN civil_from_days(day) = wall /\ days_from_civil(wall) = day
    ELSE civil_from_days(day) = NoDate

Shift(kind, k) == [kind |-> kind, count |-> k, unit |-> "day", year |-> 0]
RangeOf(kind, k) == parse_temporal({Shift(kind, k)}, day)

\* One range begins the day after another ends.
Follows(a, b) == a # NoRange /\ b # NoRange => a.hi + 1 = b.lo
ShiftsFollow ==
    \A kind \in {"dayShift", "week", "monthShift", "yearShift"} : \A k \in {-1, 0} :
       Follows(RangeOf(kind, k), RangeOf(kind, k + 1))
HoldToday ==
    \A kind \in {"week", "monthShift", "yearShift"} :
       RangeOf(kind, 0) # NoRange => day \in RangeOf(kind, 0).lo..RangeOf(kind, 0).hi
QuartersTile ==
    1 < wall.year /\ wall.year < 9999 =>
       /\ RangeOf("quarter", 1).lo = RangeOf("yearShift", 0).lo
       /\ \A q \in 1..3 : RangeOf("quarter", q).hi + 1 = RangeOf("quarter", q + 1).lo
       /\ RangeOf("quarter", 4).hi = RangeOf("yearShift", 0).hi
       /\ RangeOf("month", wall.month) = RangeOf("monthShift", 0)

\* The ranges of parse_temporal: "this ..." holds today, "last", "this" and
\* "next" follow each other without a gap, and quarters tile the year, on
\* every day of the clock (a range that would leave the year 9999 is none).
RangesTile == ShiftsFollow /\ HoldToday /\ QuartersTile

\* A time stamp written in any zone is read back as the instant it stands for:
\* parse_timestamp undoes format_timestamp, also where the offset moves the
\* local date over midnight, a month's end or a year's end.
StampsReadBack ==
    \A s \in Seconds, o \in Offsets :
        LET i == <<day, s>>
            shown == format_timestamp(Instant(day, s + o)) IN
        shown.date # NoDate => parse_timestamp(shown, o) = i
=============================================================================
