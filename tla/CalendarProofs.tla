-------------------------- MODULE CalendarProofs --------------------------
(***************************************************************************)
(* The calendar of temporal.rs, proved for every year from 1 on.  Years    *)
(* begin in March and are counted in eras of 400: a day number is split    *)
(* into era, century, quad, year and day, which the divisions of           *)
(* civil_from_days undo.  The wall calendar, which knows only the lengths  *)
(* of months, moves by one such number a day.                              *)
(***************************************************************************)
EXTENDS Calendar, TLAPS

\* A date of the calendar on the wall, in any year from 1 on.
WallDate(d) ==
    /\ d \in [year : Nat \ {0}, month : 1..12, day : 1..31]
    /\ d.day <= days_in_month(d.year, d.month)

\* The parts of days_from_civil: years begin in March.
MarchYear(y, m) == IF m <= 2 THEN y - 1 ELSE y
MarchMonth(m) == IF m > 2 THEN m - 3 ELSE m + 9
DayOfYear(m, d) == (153 * MarchMonth(m) + 2) \div 5 + d - 1
EraDays(y) == 146097 * (y \div 400) + 365 * (y % 400) + (y % 400) \div 4 - (y % 400) \div 100
DayNumber(y, m, d) == EraDays(MarchYear(y, m)) + DayOfYear(m, d) - 719468

\* days_from_civil is the sum of those parts.
LEMMA DaysAreNumbered ==
  ASSUME NEW y \in Int, NEW m \in 1..12, NEW d \in Int
  PROVE  days_from_civil(Date(y, m, d)) = DayNumber(y, m, d)
<1>1. Date(y, m, d).year = y /\ Date(y, m, d).month = m /\ Date(y, m, d).day = d
  BY DEF Date
<1>2. CASE m <= 2
  BY <1>1, <1>2, SMT DEF days_from_civil, DayNumber, EraDays, DayOfYear, MarchMonth, MarchYear
<1>3. CASE m > 2
  BY <1>1, <1>3, SMT DEF days_from_civil, DayNumber, EraDays, DayOfYear, MarchMonth, MarchYear
<1> QED BY <1>2, <1>3

DayFacts(y, m, d) ==
    /\ DayOfYear(m, d) \in 0..365
    /\ (5 * DayOfYear(m, d) + 2) \div 153 = MarchMonth(m)
    /\ DayOfYear(m, d) = 365 => m = 2 /\ is_leap_year(y)
    /\ DayOfYear(m, d) - (153 * MarchMonth(m) + 2) \div 5 + 1 = d

\* A day of a March year names its month and its place in it; only the
\* 29th of February is the 366th.
LEMMA MonthOfDay ==
  ASSUME NEW y \in Nat, NEW m \in 1..12, NEW d \in 1..31, d <= days_in_month(y, m)
  PROVE  DayFacts(y, m, d)
  BY SMTT(60) DEF DayFacts, DayOfYear, MarchMonth, days_in_month

\* civil_from_days without its final check, part by part.
YoeOf(doe) == (doe - doe \div 1460 + doe \div 36524 - doe \div 146096) \div 365
MonthFrom(mp) == mp + (IF mp < 10 THEN 3 ELSE -9)
DateIn(era, yoe, doy, mp) ==
    Date(yoe + era * 400 + (IF MonthFrom(mp) <= 2 THEN 1 ELSE 0), MonthFrom(mp), doy - (153 * mp + 2) \div 5 + 1)
DateOnDay(era, yoe, doy) == DateIn(era, yoe, doy, (5 * doy + 2) \div 153)
DateInYear(era, yoe, doe) == DateOnDay(era, yoe, doe - (365 * yoe + yoe \div 4 - yoe \div 100))
DateInEra(era, doe) == DateInYear(era, YoeOf(doe), doe)
DateFrom(z) == DateInEra(z \div 146097, z - (z \div 146097) * 146097)
DateOf(n) == DateFrom(n + 719468)

DoeOf(c, q, r, doy) == 36524 * c + 1461 * q + 365 * r + doy
LastDayFits(c, q, r, doy) == doy = 365 => r = 3 /\ (q = 24 => c = 3)
EraFacts(c, q, r, doy) ==
    /\ YoeOf(DoeOf(c, q, r, doy)) = 100 * c + 4 * q + r
    /\ 0 <= DoeOf(c, q, r, doy) /\ DoeOf(c, q, r, doy) <= 146096

\* The year of the era a day is in is what civil_from_days divides out,
\* the last day of a leap year included.
LEMMA YearOfEra ==
  ASSUME NEW c \in 0..3, NEW q \in 0..24, NEW r \in 0..3, NEW doy \in 0..365,
         LastDayFits(c, q, r, doy)
  PROVE  EraFacts(c, q, r, doy)
<1>1. PICK doe \in Nat : doe = DoeOf(c, q, r, doy)
  BY SMT DEF DoeOf
<1>2. doe = 36524 * c + 1461 * q + 365 * r + doy
  BY <1>1, SMT DEF DoeOf
<1>3. YoeOf(doe) = 100 * c + 4 * q + r
  BY <1>2, SMTT(60) DEF YoeOf, LastDayFits
<1>4. 36524 * c + 1461 * q + 365 * r + doy <= 146096
  <2>1. CASE doy = 365
    BY <2>1, SMT
  <2>2. CASE doy <= 364
    BY <2>2, SMT
  <2> QED BY <2>1, <2>2, SMT
<1> QED BY ONLY <1>1, <1>2, <1>3, <1>4, SMT DEF EraFacts

\* A year of the era is a century, a quad and a year of it; a leap day ends a
\* quad, and not the last quad of a century but for the fourth.
LEMMA YearParts ==
  ASSUME NEW y \in Nat
  PROVE  \E c \in 0..3, q \in 0..24, r \in 0..3 :
            /\ y % 400 = 100 * c + 4 * q + r
            /\ (y % 400) \div 4 = 25 * c + q
            /\ (y % 400) \div 100 = c
            /\ is_leap_year(y + 1) => r = 3 /\ (q = 24 => c = 3)
<1>1. PICK k \in 0..399 : k = y % 400
  OBVIOUS
<1>2. PICK c \in 0..3 : c = k \div 100
  OBVIOUS
<1>3. PICK q \in 0..24 : q = (k % 100) \div 4
  OBVIOUS
<1>4. PICK r \in 0..3 : r = k % 4
  OBVIOUS
<1>5. k = 100 * c + 4 * q + r
  BY <1>2, <1>3, <1>4
<1>6. k \div 4 = 25 * c + q
  BY <1>5
<1>7. ASSUME is_leap_year(y + 1) PROVE r = 3 /\ (q = 24 => c = 3)
  <2>1. PICK e \in Nat : y = 400 * e + k
    BY <1>1
  <2>2. (y + 1) % 4 = 0
    BY <1>7 DEF is_leap_year
  <2>3. r = 3
    BY <2>1, <2>2, <1>5
  <2>4. ASSUME q = 24, c # 3 PROVE FALSE
    <3>1. (y + 1) % 100 = 0
      BY <2>1, <2>3, <2>4, <1>5
    <3>2. (y + 1) % 400 # 0
      BY <2>1, <2>3, <2>4, <1>5
    <3> QED BY <3>1, <3>2, <1>7 DEF is_leap_year
  <2> QED BY <2>3, <2>4
<1> QED BY <1>1, <1>2, <1>5, <1>6, <1>7

\* civil_from_days is that date, unless the date is outside years 1 to 9999.
LEMMA CivilIsDate ==
  ASSUME NEW n \in Int
  PROVE  civil_from_days(n) = IF ValidDate(DateOf(n)) THEN DateOf(n) ELSE NoDate
  BY SMT DEF civil_from_days, DateOf, DateFrom, DateInEra, DateInYear, DateOnDay, DateIn, MonthFrom, YoeOf, Date

\* days_from_civil can be undone, in every year.
LEMMA DateOfDayNumber ==
  ASSUME NEW y \in Nat \ {0}, NEW m \in 1..12, NEW d \in 1..31, d <= days_in_month(y, m)
  PROVE  DateOf(DayNumber(y, m, d)) = Date(y, m, d)
<1>1. PICK w \in Nat : w = MarchYear(y, m)
  BY SMT DEF MarchYear
<1>2. PICK e \in Nat : e = w \div 400
  OBVIOUS
<1>3. PICK k \in 0..399 : k = w % 400
  OBVIOUS
<1>4. w = 400 * e + k
  BY <1>2, <1>3, SMT
<1>5. PICK c \in 0..3, q \in 0..24, r \in 0..3 :
         /\ k = 100 * c + 4 * q + r
         /\ k \div 4 = 25 * c + q
         /\ k \div 100 = c
         /\ is_leap_year(w + 1) => r = 3 /\ (q = 24 => c = 3)
  BY <1>3, YearParts, SMT
<1>6. DayFacts(y, m, d)
  <2>1. y \in Nat
    OBVIOUS
  <2> QED BY ONLY <2>1, m \in 1..12, d \in 1..31, d <= days_in_month(y, m), MonthOfDay, Zenon
<1>7. PICK mp \in 0..11 : mp = MarchMonth(m)
  BY SMT DEF MarchMonth
<1>8. PICK t \in 0..365 :
      /\ t = DayOfYear(m, d)
      /\ (5 * t + 2) \div 153 = mp
      /\ t = 365 => m = 2 /\ is_leap_year(y)
      /\ t - (153 * mp + 2) \div 5 + 1 = d
  BY <1>6, <1>7, SMT DEF DayFacts
<1>9. LastDayFits(c, q, r, t)
  <2>1. m = 2 => w + 1 = y
    BY <1>1, SMT DEF MarchYear
  <2> QED BY <2>1, <1>5, <1>8, SMT DEF LastDayFits
<1>10. PICK doe \in Nat : doe = 36524 * c + 1461 * q + 365 * r + t
  OBVIOUS
<1>11. /\ YoeOf(doe) = k
       /\ 0 <= doe /\ doe <= 146096
  <2>1. EraFacts(c, q, r, t)
    BY ONLY <1>9, c \in 0..3, q \in 0..24, r \in 0..3, t \in 0..365, YearOfEra, Zenon
  <2>2. doe = DoeOf(c, q, r, t)
    BY ONLY <1>10, SMT DEF DoeOf
  <2> QED BY ONLY <2>1, <2>2, <1>5, SMT DEF EraFacts
<1>12. DayNumber(y, m, d) + 719468 = 146097 * e + doe
  <2>1. EraDays(w) = 146097 * e + 365 * k + k \div 4 - k \div 100
    BY <1>2, <1>3, SMT DEF EraDays
  <2>2. DayNumber(y, m, d) = EraDays(w) + t - 719468
    BY <1>1, <1>8, SMT DEF DayNumber
  <2> QED BY <2>1, <2>2, <1>5, <1>10, SMT
<1>13. PICK z \in Nat : z = DayNumber(y, m, d) + 719468
  BY <1>12, SMT
<1>14. z \div 146097 = e /\ z - (z \div 146097) * 146097 = doe
  BY <1>11, <1>12, <1>13, SMT
<1>15. doe - (365 * k + k \div 4 - k \div 100) = t
  BY <1>5, <1>10, SMT
<1>16. /\ mp + (IF mp < 10 THEN 3 ELSE -9) = m
       /\ k + e * 400 + (IF m <= 2 THEN 1 ELSE 0) = y
  BY <1>1, <1>4, <1>7, SMT DEF MarchMonth, MarchYear
<1>17. DateOf(DayNumber(y, m, d)) = DateInEra(e, doe)
  <2>1. PICK n : n = DayNumber(y, m, d)
    OBVIOUS
  <2>2. n + 719468 = z
    BY ONLY <2>1, <1>13, SMT
  <2>3. DateOf(n) = DateFrom(z)
    BY ONLY <2>2, SMT DEF DateOf
  <2>4. DateFrom(z) = DateInEra(e, doe)
    BY ONLY <1>14, SMT DEF DateFrom
  <2> QED BY ONLY <2>1, <2>3, <2>4, SMT
<1>18. DateInEra(e, doe) = DateOnDay(e, k, t)
  BY ONLY <1>11, <1>15, SMT DEF DateInEra, DateInYear
<1>19. DateOnDay(e, k, t) = DateIn(e, k, t, mp)
  BY ONLY <1>8, SMT DEF DateOnDay
<1>20. MonthFrom(mp) = m
  BY ONLY <1>16, SMT DEF MonthFrom
<1>21. DateIn(e, k, t, mp) = Date(y, m, d)
  BY ONLY <1>8, <1>16, <1>20, SMT DEF DateIn
<1> QED BY ONLY <1>17, <1>18, <1>19, <1>21, SMT

\* A year that ends with a leap day has one day more.
LEMMA LeapStep ==
  ASSUME NEW y \in Nat \ {0}
  PROVE  EraDays(y) = EraDays(y - 1) + (IF is_leap_year(y) THEN 366 ELSE 365)
<1>1. PICK k \in 0..399 : k = (y - 1) % 400
  BY SMT
<1>2. PICK e \in Nat : e = (y - 1) \div 400
  BY SMT
<1>3. y - 1 = 400 * e + k
  BY <1>1, <1>2, SMT
<1>4. CASE k = 399
  <2>1. y % 400 = 0 /\ y \div 400 = e + 1
    BY <1>3, <1>4, SMT
  <2>2. is_leap_year(y)
    <3>1. y % 4 = 0
      BY <1>3, <1>4, SMT
    <3> QED BY <2>1, <3>1, SMT DEF is_leap_year
  <2> QED BY <1>1, <1>2, <1>4, <2>1, <2>2, SMT DEF EraDays
<1>5. CASE k < 399
  <2>1. y % 400 = k + 1 /\ y \div 400 = e
    BY <1>3, <1>5, SMT
  <2>2. is_leap_year(y) <=> (k + 1) % 4 = 0 /\ (k + 1) % 100 # 0
    <3>1. y % 4 = (k + 1) % 4
      BY <1>3, SMT
    <3>2. y % 100 = (k + 1) % 100
      BY <1>3, SMT
    <3> QED BY <1>5, <2>1, <3>1, <3>2, SMT DEF is_leap_year
  <2>3. (k + 1) \div 4 = k \div 4 + (IF (k + 1) % 4 = 0 THEN 1 ELSE 0)
    BY SMT
  <2>4. (k + 1) \div 100 = k \div 100 + (IF (k + 1) % 100 = 0 THEN 1 ELSE 0)
    BY SMT
  <2>5. (k + 1) % 100 = 0 => (k + 1) % 4 = 0
    BY SMT
  <2> QED BY <1>1, <1>2, <2>1, <2>2, <2>3, <2>4, <2>5, SMT DEF EraDays
<1> QED BY <1>4, <1>5, SMT

FirstOfNext(y, m) == IF m = 12 THEN DayNumber(y + 1, 1, 1) ELSE DayNumber(y, m + 1, 1)

\* The first of the next month comes the length of the month later.
LEMMA MonthsFollow ==
  ASSUME NEW y \in Nat \ {0}, NEW m \in 1..12
  PROVE  FirstOfNext(y, m) = DayNumber(y, m, 1) + days_in_month(y, m)
<1>1. EraDays(y) \in Int /\ EraDays(y - 1) \in Int
  BY SMT DEF EraDays
<1>2. PICK a \in Int : a = EraDays(y)
  BY <1>1, SMT
<1>3. PICK b \in Int : b = EraDays(y - 1)
  BY <1>1, SMT
<1>4. a = b + (IF is_leap_year(y) THEN 366 ELSE 365)
  BY <1>2, <1>3, LeapStep, SMT
<1>5. y + 1 - 1 = y
  BY SMT
<1>6. DayNumber(y + 1, 1, 1) = a + 306 - 719468
  BY <1>2, <1>5, SMT DEF DayNumber, MarchYear, DayOfYear, MarchMonth
<1>7. \A n \in 1..12 : DayNumber(y, n, 1) = (IF n <= 2 THEN b ELSE a) + (153 * MarchMonth(n) + 2) \div 5 - 719468
  <2> TAKE n \in 1..12
  <2>1. PICK mp \in 0..11 : mp = MarchMonth(n)
    BY SMT DEF MarchMonth
  <2>2. EraDays(MarchYear(y, n)) = IF n <= 2 THEN b ELSE a
    BY <1>2, <1>3, SMT DEF MarchYear
  <2> QED BY <1>2, <1>3, <2>1, <2>2, SMT DEF DayNumber, DayOfYear
<1>8. CASE m = 2
  BY <1>4, <1>7, <1>8, SMT DEF FirstOfNext, days_in_month, MarchMonth
<1>9. CASE m = 12
  BY <1>6, <1>7, <1>9, SMT DEF FirstOfNext, days_in_month, MarchMonth
<1>10. CASE m # 2 /\ m # 12
  BY <1>7, <1>10, SMT DEF FirstOfNext, days_in_month, MarchMonth
<1> QED BY <1>8, <1>9, <1>10, SMT

\* A date in parts, and where its day lies.
IsDate(y, m, d) == y \in Nat \ {0} /\ m \in 1..12 /\ d \in 1..31 /\ d <= days_in_month(y, m)
Placed(y, m, d) ==
    /\ DayNumber(y, m, d) \in Int /\ DayNumber(y, m, 1) \in Int
    /\ DayNumber(y, m, d) = DayNumber(y, m, 1) + d - 1
    /\ DayNumber(y, 1, 1) <= DayNumber(y, m, d)
    /\ DayNumber(y, m, d) < DayNumber(y + 1, 1, 1)

\* Every date lies in its month and in its year.
LEMMA YearsHoldTheirDays ==
  ASSUME NEW y, NEW m, NEW d, IsDate(y, m, d)
  PROVE  Placed(y, m, d)
<1>0. y \in Nat \ {0} /\ m \in 1..12 /\ d \in 1..31 /\ d <= days_in_month(y, m)
  BY DEF IsDate
<1>1. EraDays(y) \in Int /\ EraDays(y - 1) \in Int
  BY <1>0, SMT DEF EraDays
<1>2. PICK a \in Int : a = EraDays(y)
  BY <1>0, <1>1, SMT
<1>3. PICK b \in Int : b = EraDays(y - 1)
  BY <1>0, <1>1, SMT
<1>4. a >= b + 365
  BY <1>0, <1>2, <1>3, LeapStep, SMT
<1>5. y + 1 - 1 = y
  BY <1>0, SMT
<1>6. DayNumber(y + 1, 1, 1) = a + 306 - 719468
  BY <1>0, <1>2, <1>5, SMT DEF DayNumber, MarchYear, DayOfYear, MarchMonth
<1>7. DayNumber(y, 1, 1) = b + 306 - 719468
  BY <1>0, <1>3, SMT DEF DayNumber, MarchYear, DayOfYear, MarchMonth
<1>8. \A n \in 1..31 : DayNumber(y, m, n) = (IF m <= 2 THEN b ELSE a) + (153 * MarchMonth(m) + 2) \div 5 + n - 1 - 719468
  <2> TAKE n \in 1..31
  <2>1. PICK mp \in 0..11 : mp = MarchMonth(m)
    BY <1>0, SMT DEF MarchMonth
  <2>2. EraDays(MarchYear(y, m)) = IF m <= 2 THEN b ELSE a
    BY <1>0, <1>2, <1>3, SMT DEF MarchYear
  <2> QED BY <1>0, <1>2, <1>3, <2>1, <2>2, SMT DEF DayNumber, DayOfYear
<1>9. PICK mp \in 0..11 : mp = MarchMonth(m)
  BY <1>0, SMT DEF MarchMonth
<1>10. (m > 2 => 0 <= (153 * mp + 2) \div 5 + d - 1 /\ (153 * mp + 2) \div 5 + d - 1 <= 305)
       /\ (m <= 2 => 306 <= (153 * mp + 2) \div 5 + d - 1 /\ (153 * mp + 2) \div 5 + d - 1 <= 365)
  BY <1>0, <1>9, SMT DEF MarchMonth, days_in_month
<1>11. PICK x \in Int : x = (153 * mp + 2) \div 5
  BY SMT
<1>12. DayNumber(y, m, 1) = (IF m <= 2 THEN b ELSE a) + x - 719468
  BY <1>0, <1>8, <1>9, <1>11, SMT
<1>13. DayNumber(y, m, d) = (IF m <= 2 THEN b ELSE a) + x + d - 1 - 719468
  BY <1>0, <1>8, <1>9, <1>11, SMT
<1> QED BY <1>0, <1>4, <1>6, <1>7, <1>10, <1>11, <1>12, <1>13, SMT DEF Placed

\* The wall shows a date of the calendar, and `day` is its number.
CalInv == WallDate(wall) /\ day = DayNumber(wall.year, wall.month, wall.day)

\* A date on the wall and its parts.
LEMMA WallDates ==
  ASSUME NEW x, WallDate(x)
  PROVE  IsDate(x.year, x.month, x.day) /\ x = Date(x.year, x.month, x.day)
  BY SMT DEF WallDate, Date, IsDate

\* And back.
LEMMA MakesWallDate ==
  ASSUME NEW y, NEW m, NEW d, IsDate(y, m, d)
  PROVE  WallDate(Date(y, m, d)) /\ Date(y, m, d).year = y /\ Date(y, m, d).month = m /\ Date(y, m, d).day = d
  BY SMT DEF WallDate, Date, IsDate

\* The wall's month lengths are days_in_month's.
LEMMA MonthLengths ==
  ASSUME NEW x, WallDate(x)
  PROVE  MonthLength(x) = days_in_month(x.year, x.month)
<1>1. x.year \in Nat \ {0} /\ x.month \in 1..12
  BY WallDates DEF IsDate
<1>2. CASE x.month = 2
  BY <1>1, <1>2, SMT DEF MonthLength, days_in_month, is_leap_year
<1>3. CASE x.month # 2
  BY <1>1, <1>3, SMT DEF MonthLength, days_in_month
<1> QED BY <1>2, <1>3

\* No month is shorter than 28 days or longer than 31.
LEMMA ShortMonths ==
  ASSUME NEW y \in Nat, NEW m \in 1..12
  PROVE  days_in_month(y, m) \in 28..31
  BY SMT DEF days_in_month

\* Tomorrow's number is the next one.
LEMMA TomorrowFollows ==
  ASSUME NEW x, WallDate(x)
  PROVE  /\ WallDate(Tomorrow(x))
         /\ DayNumber(Tomorrow(x).year, Tomorrow(x).month, Tomorrow(x).day) = DayNumber(x.year, x.month, x.day) + 1
<1>1. PICK y, m, d : y = x.year /\ m = x.month /\ d = x.day
  OBVIOUS
<1>2. IsDate(y, m, d) /\ x = Date(y, m, d)
  BY <1>1, WallDates
<1>3. y \in Nat \ {0} /\ m \in 1..12 /\ d \in 1..31 /\ d <= days_in_month(y, m) /\ days_in_month(y, m) \in 28..31
  BY <1>2, ShortMonths DEF IsDate
<1>4. MonthLength(x) = days_in_month(y, m)
  BY <1>1, MonthLengths
<1>5. Placed(y, m, d)
  BY <1>2, YearsHoldTheirDays
<1>6. SUFFICES \E b, n, e : /\ IsDate(b, n, e) /\ Tomorrow(x) = Date(b, n, e)
                            /\ DayNumber(b, n, e) = DayNumber(y, m, d) + 1
  <2>1. PICK b, n, e : /\ IsDate(b, n, e) /\ Tomorrow(x) = Date(b, n, e)
                       /\ DayNumber(b, n, e) = DayNumber(y, m, d) + 1
    OBVIOUS
  <2>2. WallDate(Date(b, n, e)) /\ Date(b, n, e).year = b /\ Date(b, n, e).month = n /\ Date(b, n, e).day = e
    BY <2>1, MakesWallDate
  <2>3. Tomorrow(x).year = b /\ Tomorrow(x).month = n /\ Tomorrow(x).day = e
    BY <2>1, <2>2
  <2> QED BY <1>1, <2>1, <2>2, <2>3
<1>7. CASE d < days_in_month(y, m)
  <2>1. PICK e \in 1..31 : e = d + 1
    BY <1>3, <1>7, SMT
  <2>2. Tomorrow(x) = [x EXCEPT !.day = d + 1]
    BY <1>1, <1>4, <1>7, SMT DEF Tomorrow
  <2>3. Tomorrow(x) = Date(y, m, e)
    <3>1. [Date(y, m, d) EXCEPT !.day = e] = Date(y, m, e)
      BY SMT DEF Date
    <3> QED BY <1>2, <2>1, <2>2, <3>1, SMT
  <2>4. IsDate(y, m, e)
    BY <1>3, <1>7, <2>1, SMT DEF IsDate
  <2>5. Placed(y, m, e)
    BY <2>4, YearsHoldTheirDays
  <2>6. DayNumber(y, m, e) = DayNumber(y, m, d) + 1
    BY <1>3, <1>5, <2>1, <2>5, SMT DEF Placed
  <2> QED BY <2>3, <2>4, <2>6
<1>8. CASE d = days_in_month(y, m)
  <2>1. FirstOfNext(y, m) = DayNumber(y, m, d) + 1
    <3>1. FirstOfNext(y, m) = DayNumber(y, m, 1) + days_in_month(y, m)
      BY <1>3, MonthsFollow, Zenon
    <3> QED BY <1>3, <1>5, <1>8, <3>1, SMT DEF Placed
  <2>2. CASE m < 12
    <3>1. Tomorrow(x) = Date(y, m + 1, 1)
      BY <1>1, <1>3, <1>4, <1>8, <2>2, SMT DEF Tomorrow
    <3>2. PICK n \in 1..12 : n = m + 1
      BY <1>3, <2>2, SMT
    <3>3. IsDate(y, n, 1)
      BY <1>3, ShortMonths, SMT DEF IsDate
    <3>4. DayNumber(y, n, 1) = DayNumber(y, m, d) + 1
      BY <1>3, <2>1, <2>2, <3>2, SMT DEF FirstOfNext
    <3> QED BY <3>1, <3>2, <3>3, <3>4
  <2>3. CASE m = 12
    <3>1. Tomorrow(x) = Date(y + 1, 1, 1)
      BY <1>1, <1>3, <1>4, <1>8, <2>3, SMT DEF Tomorrow
    <3>2. PICK z \in Nat \ {0} : z = y + 1
      BY <1>3, SMT
    <3>3. IsDate(z, 1, 1)
      BY ShortMonths, SMT DEF IsDate
    <3>4. DayNumber(z, 1, 1) = DayNumber(y, m, d) + 1
      BY <2>1, <2>3, <3>2, SMT DEF FirstOfNext
    <3> QED BY <3>1, <3>2, <3>3, <3>4
  <2> QED BY <1>3, <2>2, <2>3, SMT
<1> QED BY <1>3, <1>7, <1>8, SMT

\* What the program computes of a day, under the invariant.
LEMMA CivilShowsTheWall ==
  ASSUME NEW y, NEW m, NEW d, IsDate(y, m, d)
  PROVE  /\ civil_from_days(DayNumber(y, m, d)) = IF y <= 9999 THEN Date(y, m, d) ELSE NoDate
         /\ days_from_civil(Date(y, m, d)) = DayNumber(y, m, d)
         /\ ValidDate(Date(y, m, d)) <=> y <= 9999
<1>1. y \in Nat \ {0} /\ m \in 1..12 /\ d \in 1..31 /\ d <= days_in_month(y, m) /\ y \in Int /\ d \in Int
  BY SMT DEF IsDate
<1>2. DateOf(DayNumber(y, m, d)) = Date(y, m, d)
  BY <1>1, DateOfDayNumber, Zenon
<1>3. DayNumber(y, m, d) \in Int
  BY YearsHoldTheirDays DEF Placed
<1>4. PICK n \in Int : n = DayNumber(y, m, d)
  BY <1>3
<1>5. civil_from_days(n) = IF ValidDate(DateOf(n)) THEN DateOf(n) ELSE NoDate
  BY CivilIsDate, Zenon
<1>6. Date(y, m, d).year = y /\ Date(y, m, d).month = m /\ Date(y, m, d).day = d
  BY MakesWallDate
<1>7. days_in_month(y, m) \in 28..31
  BY <1>1, ShortMonths
<1>8. ValidDate(Date(y, m, d)) <=> y <= 9999
  <2>1. PICK x : x = Date(y, m, d)
    OBVIOUS
  <2>2. x.year = y /\ x.month = m /\ x.day = d /\ days_in_month(x.year, x.month) = days_in_month(y, m)
    BY <1>6, <2>1
  <2>3. 1 <= y
    BY ONLY <1>1, SMT
  <2>4. d \in 1..days_in_month(y, m)
    BY <1>1, <1>7, SMT
  <2>5. ValidDate(x) <=> y <= 9999
    BY ONLY <1>1, <2>2, <2>3, <2>4, SMT DEF ValidDate
  <2> QED BY ONLY <2>1, <2>5
<1>9. days_from_civil(Date(y, m, d)) = DayNumber(y, m, d)
  BY <1>1, DaysAreNumbered, Zenon
<1>10. civil_from_days(n) = IF ValidDate(Date(y, m, d)) THEN Date(y, m, d) ELSE NoDate
  BY ONLY <1>2, <1>4, <1>5, Zenon
<1> QED BY ONLY <1>4, <1>8, <1>9, <1>10, SMT

\* The program shows the date on the wall.
LEMMA DatesAgreeAlways == CalInv => DatesAgree
<1> SUFFICES ASSUME CalInv PROVE DatesAgree
  OBVIOUS
<1>1. PICK y, m, d : y = wall.year /\ m = wall.month /\ d = wall.day
  OBVIOUS
<1>2. IsDate(y, m, d) /\ wall = Date(y, m, d)
  BY <1>1, WallDates DEF CalInv
<1>3. day = DayNumber(y, m, d)
  BY <1>1 DEF CalInv
<1>4. y \in Nat \ {0}
  BY <1>2 DEF IsDate
<1>5. /\ civil_from_days(DayNumber(y, m, d)) = IF y <= 9999 THEN Date(y, m, d) ELSE NoDate
      /\ days_from_civil(Date(y, m, d)) = DayNumber(y, m, d)
  BY <1>2, CivilShowsTheWall
<1>6. /\ civil_from_days(day) = IF y <= 9999 THEN wall ELSE NoDate
      /\ days_from_civil(wall) = day
  BY <1>2, <1>3, <1>5
<1>7. CASE y <= 9999
  BY ONLY <1>1, <1>6, <1>7, SMT DEF DatesAgree
<1>8. CASE ~(y <= 9999)
  BY ONLY <1>1, <1>6, <1>8, SMT DEF DatesAgree
<1> QED BY ONLY <1>7, <1>8

-----------------------------------------------------------------------------
\* Every day of an era has its year, and its place in it.
InEra(doe) == doe <= 146096
LEMMA EraParts ==
  ASSUME NEW doe \in Nat, InEra(doe)
  PROVE  \E c \in 0..3, q \in 0..24, r \in 0..3, t \in 0..365 :
            doe = DoeOf(c, q, r, t) /\ LastDayFits(c, q, r, t)
<1>1. PICK c \in Nat : c = IF doe >= 109572 THEN 3 ELSE doe \div 36524
  BY SMT
<1>2. c <= 3 /\ 36524 * c <= doe /\ doe <= 36524 * c + 36524 /\ (doe = 36524 * c + 36524 => c = 3)
  BY <1>1, SMT DEF InEra
<1>3. PICK x \in Nat : x = doe - 36524 * c
  BY <1>2, SMT
<1>4. PICK q \in Nat : q = x \div 1461
  BY SMT
<1>5. PICK w \in Nat : w = x - 1461 * q
  BY <1>4, SMT
<1>6. q <= 24 /\ w <= 1460
  BY <1>2, <1>3, <1>4, <1>5, SMT
<1>7. PICK r \in Nat : r = IF w = 1460 THEN 3 ELSE w \div 365
  BY SMT
<1>8. r <= 3 /\ 365 * r <= w /\ w <= 365 * r + 365 /\ (w = 365 * r + 365 => r = 3)
  BY <1>6, <1>7, SMT
<1>9. PICK t \in Nat : t = w - 365 * r
  BY <1>8, SMT
<1>10. c \in 0..3 /\ q \in 0..24 /\ r \in 0..3 /\ t \in 0..365
  BY <1>2, <1>6, <1>8, <1>9, SMT
<1>11. doe = DoeOf(c, q, r, t)
  BY <1>3, <1>5, <1>9, SMT DEF DoeOf
<1>12. LastDayFits(c, q, r, t)
  BY <1>2, <1>3, <1>5, <1>6, <1>8, <1>9, SMT DEF LastDayFits
<1> QED BY ONLY <1>10, <1>11, <1>12, Zenon

\* civil_from_days can be undone: its date is the one numbered n.
LEMMA DayNumberOfDate ==
  ASSUME NEW n \in Int
  PROVE  /\ DateOf(n).year \in Int /\ DateOf(n).month \in 1..12 /\ DateOf(n).day \in Int
         /\ DateOf(n) = Date(DateOf(n).year, DateOf(n).month, DateOf(n).day)
         /\ DayNumber(DateOf(n).year, DateOf(n).month, DateOf(n).day) = n
<1>1. PICK z \in Int : z = n + 719468
  BY SMT
<1>2. PICK e \in Int : e = z \div 146097
  BY SMT
<1>3. PICK doe \in Nat : doe = z - e * 146097 /\ doe <= 146096
  BY <1>2, SMT
<1>4. DateOf(n) = DateInEra(e, doe)
  BY <1>1, <1>2, <1>3, SMT DEF DateOf, DateFrom
<1>5. PICK c \in 0..3, q \in 0..24, r \in 0..3, t \in 0..365 :
         doe = DoeOf(c, q, r, t) /\ LastDayFits(c, q, r, t)
  <2>1. InEra(doe)
    BY <1>3, SMT DEF InEra
  <2> QED BY ONLY <2>1, doe \in Nat, EraParts, Zenon
<1>6. EraFacts(c, q, r, t)
  BY ONLY <1>5, c \in 0..3, q \in 0..24, r \in 0..3, t \in 0..365, YearOfEra, Zenon
<1>7. PICK k \in 0..399 : k = 100 * c + 4 * q + r
  BY SMT
<1>8. YoeOf(doe) = k
  BY ONLY <1>5, <1>6, <1>7, SMT DEF EraFacts
<1>9. doe = 36524 * c + 1461 * q + 365 * r + t
  BY <1>5, SMT DEF DoeOf
<1>10. k \div 4 = 25 * c + q /\ k \div 100 = c
  BY <1>7, SMT
<1>11. doe - (365 * k + k \div 4 - k \div 100) = t
  BY <1>7, <1>9, <1>10, SMT
<1>12. PICK mp \in 0..11 : mp = (5 * t + 2) \div 153
  BY SMT
<1>13. PICK m \in 1..12 : m = MonthFrom(mp)
  BY SMT DEF MonthFrom
<1>14. PICK y \in Int : y = k + e * 400 + (IF m <= 2 THEN 1 ELSE 0)
  BY SMT
<1>15. PICK d \in Int : d = t - (153 * mp + 2) \div 5 + 1
  BY SMT
<1>16. DateInEra(e, doe) = DateOnDay(e, k, t)
  BY ONLY <1>8, <1>11, SMT DEF DateInEra, DateInYear
<1>17. DateOnDay(e, k, t) = DateIn(e, k, t, mp)
  BY ONLY <1>12, SMT DEF DateOnDay
<1>18. DateIn(e, k, t, mp) = Date(y, m, d)
  BY ONLY <1>13, <1>14, <1>15, SMT DEF DateIn
<1>19. DateOf(n) = Date(y, m, d)
  BY ONLY <1>4, <1>16, <1>17, <1>18, SMT
<1>20. DateOf(n).year = y /\ DateOf(n).month = m /\ DateOf(n).day = d
  BY ONLY <1>19, SMT DEF Date
<1>21. MarchMonth(m) = mp /\ MarchYear(y, m) = 400 * e + k
  BY <1>13, <1>14, SMT DEF MonthFrom, MarchMonth, MarchYear
<1>22. DayOfYear(m, d) = t
  BY <1>15, <1>21, SMT DEF DayOfYear
<1>23. PICK w \in Int : w = 400 * e + k
  BY SMT
<1>24. w \div 400 = e /\ w % 400 = k
  BY <1>23, SMT
<1>25. EraDays(w) = 146097 * e + 365 * k + k \div 4 - k \div 100
  BY <1>24, SMT DEF EraDays
<1>26. DayNumber(y, m, d) = EraDays(w) + t - 719468
  BY ONLY <1>21, <1>22, <1>23, SMT DEF DayNumber
<1>27. DayNumber(y, m, d) = n
  BY <1>1, <1>3, <1>11, <1>25, <1>26, SMT
<1> QED BY ONLY <1>19, <1>20, <1>27, SMT

\* A date the program shows is the date of that day.
LEMMA DaysUndoCivil ==
  ASSUME NEW n \in Int, civil_from_days(n) # NoDate
  PROVE  ValidDate(civil_from_days(n)) /\ days_from_civil(civil_from_days(n)) = n
<1>1. civil_from_days(n) = IF ValidDate(DateOf(n)) THEN DateOf(n) ELSE NoDate
  BY CivilIsDate, Zenon
<1>2. ValidDate(DateOf(n)) /\ civil_from_days(n) = DateOf(n)
  BY ONLY <1>1, civil_from_days(n) # NoDate, Zenon
<1>3. PICK y, m, d : y = DateOf(n).year /\ m = DateOf(n).month /\ d = DateOf(n).day
  BY ONLY Zenon
<1>4. y \in Int /\ m \in 1..12 /\ d \in Int /\ DateOf(n) = Date(y, m, d) /\ DayNumber(y, m, d) = n
  BY ONLY <1>3, n \in Int, DayNumberOfDate, Zenon
<1>5. days_from_civil(Date(y, m, d)) = DayNumber(y, m, d)
  BY ONLY <1>4, DaysAreNumbered, Zenon
<1> QED BY ONLY <1>2, <1>4, <1>5, Zenon

\* What a stamp's fields are of the second they are made from.
HourOf(s) == s \div 3600
MinuteOf(s) == (s % 3600) \div 60
SecondsOf(h, m, z) == h * 3600 + m * 60 + z
FieldsFit(s, h, m, z) ==
    /\ HourOf(s) = h /\ MinuteOf(s) = m /\ s % 60 = z
    /\ ~(h > 23) /\ ~(m > 59) /\ ~(z > 59)
    /\ SecondsOf(h, m, z) = s
LEMMA FieldsOfSecond ==
  ASSUME NEW s \in Nat, s < 86400
  PROVE  \E h, m, z : FieldsFit(s, h, m, z)
<1>1. PICK h \in Nat : h = s \div 3600
  BY SMT
<1>2. PICK x \in Nat : x = s % 3600
  BY SMT
<1>3. s = 3600 * h + x /\ x < 3600 /\ h <= 23
  BY <1>1, <1>2, SMT
<1>4. PICK m \in Nat : m = x \div 60
  BY SMT
<1>5. PICK z \in Nat : z = s % 60
  BY SMT
<1>6. x = 60 * m + z /\ z <= 59 /\ m <= 59
  BY <1>3, <1>4, <1>5, SMT
<1>7. HourOf(s) = h /\ MinuteOf(s) = m /\ s % 60 = z
  BY ONLY <1>1, <1>2, <1>4, <1>5, SMT DEF HourOf, MinuteOf
<1>8. SecondsOf(h, m, z) = s /\ ~(h > 23) /\ ~(m > 59) /\ ~(z > 59)
  BY ONLY <1>3, <1>6, h \in Nat, m \in Nat, z \in Nat, x \in Nat, s \in Nat, SMT DEF SecondsOf
<1> QED BY ONLY <1>7, <1>8, Zenon DEF FieldsFit

\* What format_timestamp prints, in any time zone, parse_timestamp reads as
\* the same day and second.
LEMMA StampReadsBack ==
  ASSUME NEW n \in Int, NEW s \in Nat, s < 86400, NEW o \in Int,
         format_timestamp(Instant(n, s + o)).date # NoDate
  PROVE  parse_timestamp(format_timestamp(Instant(n, s + o)), o) = <<n, s>>
<1>1. PICK k \in Int, u \in Nat : k = (s + o) \div 86400 /\ u = (s + o) % 86400
  BY SMT
<1>2. s + o = 86400 * k + u /\ u < 86400
  BY <1>1, SMT
<1>3. PICK b \in Int : b = n + k
  BY SMT
<1>4. Instant(n, s + o) = <<b, u>>
  BY <1>1, <1>3, SMT DEF Instant, DaySeconds
<1>5. PICK f : f = format_timestamp(<<b, u>>)
  BY ONLY Zenon
<1>6. f.date = civil_from_days(b) /\ f.hour = HourOf(u) /\ f.minute = MinuteOf(u) /\ f.second = u % 60
  BY <1>5, SMT DEF format_timestamp, HourOf, MinuteOf
<1>7. f.date # NoDate
  BY <1>4, <1>5
<1>8. ValidDate(f.date) /\ days_from_civil(f.date) = b
  BY <1>6, <1>7, DaysUndoCivil
<1>9. PICK h, m, z : FieldsFit(u, h, m, z)
  BY <1>2, FieldsOfSecond, SMT
<1>10. f.hour = h /\ f.minute = m /\ f.second = z
  BY ONLY <1>6, <1>9, Zenon DEF FieldsFit
<1>11. ~(f.hour > 23) /\ ~(f.minute > 59) /\ ~(f.second > 59) /\ SecondsOf(f.hour, f.minute, f.second) = u
  BY ONLY <1>9, <1>10, Zenon DEF FieldsFit
<1>12. parse_timestamp(f, o) = Instant(b, u - o)
  <2>1. SecondOfDay(f) = SecondsOf(f.hour, f.minute, f.second)
    BY ONLY SMT DEF SecondOfDay, SecondsOf
  <2> QED BY ONLY <1>8, <1>11, <2>1, Zenon DEF parse_timestamp
<1>13. u - o = s - 86400 * k
  BY <1>2, SMT
<1>14. PICK v \in Int : v = u - o
  BY SMT
<1>15. v \div 86400 = - k /\ v % 86400 = s
  BY <1>13, <1>14, SMT
<1>16. Instant(b, v) = <<n, s>>
  BY <1>3, <1>15, SMT DEF Instant, DaySeconds
<1> QED BY ONLY <1>4, <1>5, <1>12, <1>14, <1>16, SMT

-----------------------------------------------------------------------------
\* What parse_temporal makes of one phrase.
YearIn(p, n) == IF p.year \in 1900..2099 THEN p.year ELSE civil_from_days(n).year
LEMMA PhraseRanges ==
  ASSUME NEW p, NEW n
  PROVE  /\ p.kind = "dayShift" => phrase_range(p, n) = day_bounds(n + p.count)
         /\ p.kind = "week" => phrase_range(p, n) = week_of(n + 7 * p.count)
         /\ p.kind = "monthShift" => phrase_range(p, n) = MonthShifted(civil_from_days(n), p.count)
         /\ p.kind = "yearShift" => phrase_range(p, n) = year_of(civil_from_days(n).year + p.count)
         /\ p.kind = "quarter" => phrase_range(p, n) = quarter_of(YearIn(p, n), p.count)
         /\ p.kind = "month" => phrase_range(p, n) = month_of(YearIn(p, n), p.count)
<1>1. p.kind = "dayShift" => phrase_range(p, n) = day_bounds(n + p.count)
  BY ONLY Zenon DEF phrase_range
<1>2. p.kind = "week" => phrase_range(p, n) = week_of(n + 7 * p.count)
  BY ONLY SMT DEF phrase_range
<1>3. p.kind = "monthShift" => phrase_range(p, n) = MonthShifted(civil_from_days(n), p.count)
  BY ONLY Zenon DEF phrase_range
<1>4. p.kind = "yearShift" => phrase_range(p, n) = year_of(civil_from_days(n).year + p.count)
  BY ONLY Zenon DEF phrase_range
<1>5. p.kind = "quarter" => phrase_range(p, n) = quarter_of(YearIn(p, n), p.count)
  BY ONLY SMT DEF phrase_range, YearIn
<1>6. p.kind = "month" => phrase_range(p, n) = month_of(YearIn(p, n), p.count)
  BY ONLY Zenon DEF phrase_range, YearIn
<1> QED BY ONLY <1>1, <1>2, <1>3, <1>4, <1>5, <1>6, Zenon

\* A query with one phrase is answered by that phrase, on a day with a date.
LEMMA OnePhrase ==
  ASSUME NEW p, NEW n, NEW j \in 1..8, p.kind = Precedence[j]
  PROVE  parse_temporal({p}, n) = IF civil_from_days(n) = NoDate THEN NoRange ELSE phrase_range(p, n)
<1>1. DOMAIN Precedence = 1..8
  BY ONLY SMT DEF Precedence
<1>2. \A k \in 1..8 : Precedence[k] = Precedence[j] => k = j
  BY ONLY j \in 1..8, SMT DEF Precedence
<1>3. {k \in DOMAIN Precedence : \E q \in {p} : q.kind = Precedence[k]} = {j}
  BY ONLY <1>1, <1>2, j \in 1..8, p.kind = Precedence[j], Zenon
<1>4. (CHOOSE k \in {j} : \A i \in {j} : k <= i) = j
  BY ONLY j \in 1..8, SMT
<1>5. (CHOOSE q \in {p} : q.kind = Precedence[j]) = p
  BY ONLY p.kind = Precedence[j], Zenon
<1>6. PICK F : F = {k \in DOMAIN Precedence : \E q \in {p} : q.kind = Precedence[k]}
  BY ONLY Zenon
<1>7. PICK b : b = (CHOOSE k \in F : \A i \in F : k <= i)
  BY ONLY Zenon
<1>8. PICK c : c = (CHOOSE q \in {p} : q.kind = Precedence[b])
  BY ONLY Zenon
<1>9. parse_temporal({p}, n) = IF civil_from_days(n) = NoDate \/ F = {} THEN NoRange ELSE phrase_range(c, n)
  BY ONLY <1>6, <1>7, <1>8, SMT DEF parse_temporal
<1>10. F = {j}
  BY ONLY <1>3, <1>6, Zenon
<1>11. b = j
  BY ONLY <1>4, <1>7, <1>10, Zenon
<1>12. c = p
  BY ONLY <1>5, <1>8, <1>11, Zenon
<1> QED BY ONLY <1>9, <1>10, <1>12, Zenon

\* The years dates can be in, and those with another after them.
InCalendar(y) == y \in Nat \ {0} /\ y <= 9999
BeforeLast(y) == y \in Nat \ {0} /\ y <= 9998

\* The first of a month is a date when its year is in the calendar.
LEMMA FirstsOfMonths ==
  ASSUME NEW y \in Int, NEW m \in 1..12
  PROVE  /\ ValidDate(Date(y, m, 1)) => InCalendar(y)
         /\ InCalendar(y) => ValidDate(Date(y, m, 1))
         /\ days_from_civil(Date(y, m, 1)) = DayNumber(y, m, 1)
<1>1. days_from_civil(Date(y, m, 1)) = DayNumber(y, m, 1)
  BY DaysAreNumbered, SMT
<1>2. Date(y, m, 1).year = y
  BY SMT DEF Date
<1>3. ASSUME ValidDate(Date(y, m, 1)) PROVE InCalendar(y)
  <2>1. y >= 1 /\ y <= 9999
    BY ONLY <1>3, y \in Int, SMT DEF ValidDate, Date
  <2> QED BY ONLY <2>1, y \in Int, SMT DEF InCalendar
<1>4. ASSUME InCalendar(y) PROVE ValidDate(Date(y, m, 1))
  <2>1. IsDate(y, m, 1)
    <3>1. days_in_month(y, m) \in 28..31
      BY <1>4, ShortMonths, SMT DEF InCalendar
    <3> QED BY <1>4, <3>1, SMT DEF IsDate, InCalendar
  <2>2. ValidDate(Date(y, m, 1)) <=> y <= 9999
    BY ONLY <2>1, CivilShowsTheWall, SMT
  <2> QED BY ONLY <1>4, <2>2, SMT DEF InCalendar
<1> QED BY ONLY <1>1, <1>3, <1>4, Zenon

\* The months and years the program answers with.
MonthRange(y, m) == [lo |-> DayNumber(y, m, 1), hi |-> FirstOfNext(y, m) - 1]
WholeYear(y) == [lo |-> DayNumber(y, 1, 1), hi |-> DayNumber(y + 1, 1, 1) - 1]

\* month_of is the whole month, and gives up only from December 9999 on.
LEMMA MonthsOf ==
  ASSUME NEW y \in Int, NEW m \in 1..12
  PROVE  /\ month_of(y, m) # NoRange => InCalendar(y) /\ month_of(y, m) = MonthRange(y, m)
         /\ BeforeLast(y) => month_of(y, m) = MonthRange(y, m)
         /\ InCalendar(y) /\ m < 12 => month_of(y, m) = MonthRange(y, m)
<1>1. PICK b \in Int, c \in 1..12 :
         /\ m = 12 => b = y + 1 /\ c = 1
         /\ m < 12 => b = y /\ c = m + 1
  <2>1. CASE m = 12
    BY <2>1, SMT
  <2>2. CASE m < 12
    BY <2>2, SMT
  <2> QED BY <2>1, <2>2, SMT
<1>2. (IF m = 12 THEN Date(y + 1, 1, 1) ELSE Date(y, m + 1, 1)) = Date(b, c, 1)
  <2>1. CASE m = 12
    BY <1>1, <2>1
  <2>2. CASE m < 12
    <3>1. m # 12
      BY <2>2, SMT
    <3> QED BY <1>1, <2>2, <3>1
  <2>3. m = 12 \/ m < 12
    BY SMT
  <2> QED BY ONLY <2>1, <2>2, <2>3, Zenon
<1>3. FirstOfNext(y, m) = DayNumber(b, c, 1)
  <2>1. CASE m = 12
    BY ONLY <1>1, <2>1, Zenon DEF FirstOfNext
  <2>2. CASE m < 12
    <3>1. m # 12
      BY <2>2, SMT
    <3> QED BY ONLY <1>1, <2>2, <3>1, Zenon DEF FirstOfNext
  <2>3. m = 12 \/ m < 12
    BY SMT
  <2> QED BY ONLY <2>1, <2>2, <2>3, Zenon
<1>4. month_of(y, m) = IF ValidDate(Date(y, m, 1)) /\ ValidDate(Date(b, c, 1))
                       THEN [lo |-> days_from_civil(Date(y, m, 1)), hi |-> days_from_civil(Date(b, c, 1)) - 1]
                       ELSE NoRange
  BY ONLY <1>2, Zenon DEF month_of, Between
<1>5. /\ days_from_civil(Date(y, m, 1)) = DayNumber(y, m, 1)
      /\ days_from_civil(Date(b, c, 1)) = DayNumber(b, c, 1)
  BY FirstsOfMonths
<1>6. ValidDate(Date(y, m, 1)) /\ ValidDate(Date(b, c, 1)) => month_of(y, m) = MonthRange(y, m)
  BY ONLY <1>3, <1>4, <1>5, Zenon DEF MonthRange
<1>7. ~(ValidDate(Date(y, m, 1)) /\ ValidDate(Date(b, c, 1))) => month_of(y, m) = NoRange
  BY ONLY <1>4, Zenon
<1>8. ASSUME month_of(y, m) # NoRange
      PROVE  InCalendar(y) /\ month_of(y, m) = MonthRange(y, m)
  BY <1>6, <1>7, <1>8, FirstsOfMonths
<1>9. ASSUME BeforeLast(y) PROVE month_of(y, m) = MonthRange(y, m)
  <2>1. InCalendar(y)
    BY ONLY <1>9, SMT DEF InCalendar, BeforeLast
  <2>2. b = y \/ b = y + 1
    BY ONLY <1>1, m \in 1..12, SMT
  <2>3. InCalendar(b)
    BY ONLY <1>9, <2>2, b \in Int, SMT DEF InCalendar, BeforeLast
  <2> QED BY <1>6, <2>1, <2>3, FirstsOfMonths
<1>10. ASSUME InCalendar(y), m < 12 PROVE month_of(y, m) = MonthRange(y, m)
  <2>1. InCalendar(b)
    BY <1>1, <1>10, SMT DEF InCalendar
  <2> QED BY <1>6, <1>10, <2>1, FirstsOfMonths
<1> QED BY ONLY <1>8, <1>9, <1>10, SMT

\* year_of is the whole year, and gives up only from 9999 on.
LEMMA YearsOf ==
  ASSUME NEW y \in Int
  PROVE  /\ year_of(y) # NoRange => InCalendar(y) /\ year_of(y) = WholeYear(y)
         /\ BeforeLast(y) => year_of(y) = WholeYear(y)
<1>1. PICK b \in Int : b = y + 1
  BY SMT
<1>2. year_of(y) = IF ValidDate(Date(y, 1, 1)) /\ ValidDate(Date(b, 1, 1))
                   THEN [lo |-> days_from_civil(Date(y, 1, 1)), hi |-> days_from_civil(Date(b, 1, 1)) - 1]
                   ELSE NoRange
  BY ONLY <1>1, Zenon DEF year_of, Between
<1>3. 1 \in 1..12
  BY SMT
<1>4. /\ days_from_civil(Date(y, 1, 1)) = DayNumber(y, 1, 1)
      /\ days_from_civil(Date(b, 1, 1)) = DayNumber(b, 1, 1)
  BY <1>3, FirstsOfMonths
<1>5. ValidDate(Date(y, 1, 1)) /\ ValidDate(Date(b, 1, 1)) => year_of(y) = WholeYear(y)
  BY ONLY <1>1, <1>2, <1>4, Zenon DEF WholeYear
<1>6. ~(ValidDate(Date(y, 1, 1)) /\ ValidDate(Date(b, 1, 1))) => year_of(y) = NoRange
  BY ONLY <1>2, Zenon
<1>7. ASSUME year_of(y) # NoRange PROVE InCalendar(y) /\ year_of(y) = WholeYear(y)
  BY <1>3, <1>5, <1>6, <1>7, FirstsOfMonths
<1>8. ASSUME BeforeLast(y) PROVE year_of(y) = WholeYear(y)
  <2>1. InCalendar(y) /\ InCalendar(b)
    BY <1>1, <1>8, SMT DEF InCalendar, BeforeLast
  <2> QED BY <1>3, <1>5, <1>8, <2>1, FirstsOfMonths
<1> QED BY ONLY <1>7, <1>8, SMT

\* What RangeOf is for each kind, on a day with a date.
LEMMA RangesOf ==
  ASSUME NEW k \in Int, civil_from_days(day) # NoDate, civil_from_days(day) = wall
  PROVE  /\ RangeOf("dayShift", k) = day_bounds(day + k)
         /\ RangeOf("week", k) = week_of(day + 7 * k)
         /\ RangeOf("monthShift", k) = MonthShifted(wall, k)
         /\ RangeOf("yearShift", k) = year_of(wall.year + k)
         /\ RangeOf("quarter", k) = quarter_of(wall.year, k)
         /\ RangeOf("month", k) = month_of(wall.year, k)
<1>1. \A kind : /\ Shift(kind, k).kind = kind /\ Shift(kind, k).count = k
                /\ YearIn(Shift(kind, k), day) = wall.year
  <2> TAKE kind
  <2>1. Shift(kind, k).kind = kind /\ Shift(kind, k).count = k /\ Shift(kind, k).year = 0
    BY ONLY Zenon DEF Shift
  <2>2. 0 \notin 1900..2099
    BY ONLY SMT
  <2> QED BY ONLY <2>1, <2>2, civil_from_days(day) = wall, SMT DEF YearIn
<1>2. ASSUME NEW kind, NEW j \in 1..8, kind = Precedence[j]
      PROVE  RangeOf(kind, k) = phrase_range(Shift(kind, k), day)
  <2>1. PICK p : p = Shift(kind, k)
    BY ONLY Zenon
  <2>2. p.kind = Precedence[j]
    BY ONLY <1>1, <1>2, <2>1, Zenon
  <2>3. parse_temporal({p}, day) = IF civil_from_days(day) = NoDate THEN NoRange ELSE phrase_range(p, day)
    BY ONLY <2>2, j \in 1..8, OnePhrase, Zenon
  <2> QED BY ONLY <2>1, <2>3, civil_from_days(day) # NoDate, Zenon DEF RangeOf
<1>3. /\ Precedence[2] = "dayShift" /\ Precedence[4] = "week" /\ Precedence[5] = "monthShift"
      /\ Precedence[6] = "yearShift" /\ Precedence[7] = "quarter" /\ Precedence[8] = "month"
      /\ 2 \in 1..8 /\ 4 \in 1..8 /\ 5 \in 1..8 /\ 6 \in 1..8 /\ 7 \in 1..8 /\ 8 \in 1..8
  BY ONLY SMT DEF Precedence
<1>4. \A kind \in {"dayShift", "week", "monthShift", "yearShift", "quarter", "month"} :
         RangeOf(kind, k) = phrase_range(Shift(kind, k), day)
  BY ONLY <1>2, <1>3, Zenon
<1>6. RangeOf("dayShift", k) = day_bounds(day + k)
  <2>1. PICK p : p = Shift("dayShift", k)
    BY ONLY Zenon
  <2>2. p.kind = "dayShift" /\ p.count = k /\ YearIn(p, day) = wall.year
    BY ONLY <1>1, <2>1, Zenon
  <2>3. RangeOf("dayShift", k) = phrase_range(p, day)
    BY ONLY <1>4, <2>1, Zenon
  <2>4. phrase_range(p, day) = day_bounds(day + k)
    BY ONLY <2>2, PhraseRanges, civil_from_days(day) = wall, Zenon
  <2> QED BY ONLY <2>3, <2>4, Zenon
<1>7. RangeOf("week", k) = week_of(day + 7 * k)
  <2>1. PICK p : p = Shift("week", k)
    BY ONLY Zenon
  <2>2. p.kind = "week" /\ p.count = k /\ YearIn(p, day) = wall.year
    BY ONLY <1>1, <2>1, Zenon
  <2>3. RangeOf("week", k) = phrase_range(p, day)
    BY ONLY <1>4, <2>1, Zenon
  <2>4. phrase_range(p, day) = week_of(day + 7 * k)
    BY ONLY <2>2, PhraseRanges, civil_from_days(day) = wall, Zenon
  <2> QED BY ONLY <2>3, <2>4, Zenon
<1>8. RangeOf("monthShift", k) = MonthShifted(wall, k)
  <2>1. PICK p : p = Shift("monthShift", k)
    BY ONLY Zenon
  <2>2. p.kind = "monthShift" /\ p.count = k /\ YearIn(p, day) = wall.year
    BY ONLY <1>1, <2>1, Zenon
  <2>3. RangeOf("monthShift", k) = phrase_range(p, day)
    BY ONLY <1>4, <2>1, Zenon
  <2>4. phrase_range(p, day) = MonthShifted(wall, k)
    BY ONLY <2>2, PhraseRanges, civil_from_days(day) = wall, Zenon
  <2> QED BY ONLY <2>3, <2>4, Zenon
<1>9. RangeOf("yearShift", k) = year_of(wall.year + k)
  <2>1. PICK p : p = Shift("yearShift", k)
    BY ONLY Zenon
  <2>2. p.kind = "yearShift" /\ p.count = k /\ YearIn(p, day) = wall.year
    BY ONLY <1>1, <2>1, Zenon
  <2>3. RangeOf("yearShift", k) = phrase_range(p, day)
    BY ONLY <1>4, <2>1, Zenon
  <2>4. phrase_range(p, day) = year_of(wall.year + k)
    BY ONLY <2>2, PhraseRanges, civil_from_days(day) = wall, Zenon
  <2> QED BY ONLY <2>3, <2>4, Zenon
<1>10. RangeOf("quarter", k) = quarter_of(wall.year, k)
  <2>1. PICK p : p = Shift("quarter", k)
    BY ONLY Zenon
  <2>2. p.kind = "quarter" /\ p.count = k /\ YearIn(p, day) = wall.year
    BY ONLY <1>1, <2>1, Zenon
  <2>3. RangeOf("quarter", k) = phrase_range(p, day)
    BY ONLY <1>4, <2>1, Zenon
  <2>4. phrase_range(p, day) = quarter_of(wall.year, k)
    BY ONLY <2>2, PhraseRanges, civil_from_days(day) = wall, Zenon
  <2> QED BY ONLY <2>3, <2>4, Zenon
<1>11. RangeOf("month", k) = month_of(wall.year, k)
  <2>1. PICK p : p = Shift("month", k)
    BY ONLY Zenon
  <2>2. p.kind = "month" /\ p.count = k /\ YearIn(p, day) = wall.year
    BY ONLY <1>1, <2>1, Zenon
  <2>3. RangeOf("month", k) = phrase_range(p, day)
    BY ONLY <1>4, <2>1, Zenon
  <2>4. phrase_range(p, day) = month_of(wall.year, k)
    BY ONLY <2>2, PhraseRanges, civil_from_days(day) = wall, Zenon
  <2> QED BY ONLY <2>3, <2>4, Zenon
<1> QED BY ONLY <1>6, <1>7, <1>8, <1>9, <1>10, <1>11, Zenon

\* Days and weeks follow each other.
LEMMA DaysTile ==
  ASSUME NEW n \in Int
  PROVE  /\ Follows(day_bounds(n), day_bounds(n + 1))
         /\ Follows(week_of(n), week_of(n + 7))
         /\ week_of(n) # NoRange => n \in week_of(n).lo..week_of(n).hi
<1>1. ASSUME NEW i \in Int, day_bounds(i) # NoRange PROVE day_bounds(i).lo = i /\ day_bounds(i).hi = i
  BY ONLY <1>1, Zenon DEF day_bounds
<1>2. ASSUME NEW i \in Int, week_of(i) # NoRange
      PROVE  week_of(i).lo = i - ((i + 3) % 7) /\ week_of(i).hi = i - ((i + 3) % 7) + 6
  BY ONLY <1>2, Zenon DEF week_of
<1>3. Follows(day_bounds(n), day_bounds(n + 1))
  BY ONLY <1>1, n \in Int, SMT DEF Follows
<1>4. PICK i \in Int : i = n + 7
  BY SMT
<1>5. PICK r \in 0..6 : r = (n + 3) % 7 /\ r = (i + 3) % 7
  BY <1>4, SMT
<1>6. Follows(week_of(n), week_of(i))
  <2>1. SUFFICES ASSUME week_of(n) # NoRange, week_of(i) # NoRange PROVE week_of(n).hi + 1 = week_of(i).lo
    BY DEF Follows
  <2>2. week_of(n).hi = n - r + 6 /\ week_of(i).lo = i - r
    BY ONLY <1>2, <1>5, <2>1, n \in Int, i \in Int, Zenon
  <2> QED BY ONLY <1>4, <2>2, n \in Int, r \in 0..6, SMT
<1>7. ASSUME week_of(n) # NoRange PROVE n \in week_of(n).lo..week_of(n).hi
  <2>1. week_of(n).lo = n - r /\ week_of(n).hi = n - r + 6
    BY ONLY <1>2, <1>5, <1>7, n \in Int, Zenon
  <2> QED BY ONLY <2>1, n \in Int, r \in 0..6, SMT
<1> QED BY ONLY <1>3, <1>4, <1>6, <1>7, Zenon

\* A month begins before the next one.
LEMMA MonthSpans ==
  ASSUME NEW y \in Nat \ {0}, NEW m \in 1..12
  PROVE  /\ DayNumber(y, m, 1) \in Int /\ FirstOfNext(y, m) \in Int
         /\ FirstOfNext(y, m) = DayNumber(y, m, 1) + days_in_month(y, m)
         /\ MonthRange(y, m) # NoRange
         /\ MonthRange(y, m).lo = DayNumber(y, m, 1) /\ MonthRange(y, m).hi = FirstOfNext(y, m) - 1
<1>1. days_in_month(y, m) \in 28..31
  BY ShortMonths, SMT
<1>2. IsDate(y, m, 1)
  BY <1>1, SMT DEF IsDate
<1>3. DayNumber(y, m, 1) \in Int
  BY <1>2, YearsHoldTheirDays DEF Placed
<1>4. FirstOfNext(y, m) = DayNumber(y, m, 1) + days_in_month(y, m)
  BY MonthsFollow
<1>5. FirstOfNext(y, m) \in Int /\ DayNumber(y, m, 1) <= FirstOfNext(y, m) - 1
  BY ONLY <1>1, <1>3, <1>4, SMT
<1>6. MonthRange(y, m).lo = DayNumber(y, m, 1) /\ MonthRange(y, m).hi = FirstOfNext(y, m) - 1
  BY ONLY Zenon DEF MonthRange
<1>7. NoRange.lo = 1 /\ NoRange.hi = 0
  BY ONLY Zenon DEF NoRange
<1>8. MonthRange(y, m) # NoRange
  BY ONLY <1>3, <1>5, <1>6, <1>7, SMT
<1> QED BY ONLY <1>3, <1>4, <1>5, <1>6, <1>8, Zenon

\* Months counted through the years follow each other.
LEMMA MonthsTile ==
  ASSUME NEW i \in Int
  PROVE  Follows(month_of(i \div 12, (i % 12) + 1), month_of((i + 1) \div 12, ((i + 1) % 12) + 1))
<1>1. PICK y \in Int : y = i \div 12
  BY SMT
<1>2. PICK m \in 1..12 : m = (i % 12) + 1
  BY SMT
<1>3. PICK b \in Int : b = (i + 1) \div 12
  BY SMT
<1>4. PICK c \in 1..12 : c = ((i + 1) % 12) + 1
  BY SMT
<1>5. i = 12 * y + m - 1
  BY <1>1, <1>2, SMT
<1>6. (m = 12 => b = y + 1 /\ c = 1) /\ (m < 12 => b = y /\ c = m + 1)
  BY <1>3, <1>4, <1>5, SMT
<1>7. FirstOfNext(y, m) = DayNumber(b, c, 1)
  <2>1. CASE m = 12
    BY ONLY <1>6, <2>1, Zenon DEF FirstOfNext
  <2>2. CASE m < 12
    <3>1. m # 12
      BY <2>2, SMT
    <3> QED BY ONLY <1>6, <2>2, <3>1, Zenon DEF FirstOfNext
  <2>3. m = 12 \/ m < 12
    BY SMT
  <2> QED BY ONLY <2>1, <2>2, <2>3, Zenon
<1>8. ASSUME month_of(y, m) # NoRange, month_of(b, c) # NoRange
      PROVE  month_of(y, m).hi + 1 = month_of(b, c).lo
  <2>1. InCalendar(y) /\ month_of(y, m) = MonthRange(y, m)
    BY ONLY <1>8, y \in Int, m \in 1..12, MonthsOf
  <2>2. InCalendar(b) /\ month_of(b, c) = MonthRange(b, c)
    BY ONLY <1>8, b \in Int, c \in 1..12, MonthsOf
  <2>3. y \in Nat \ {0} /\ b \in Nat \ {0}
    BY ONLY <2>1, <2>2, SMT DEF InCalendar
  <2>4. FirstOfNext(y, m) \in Int /\ month_of(y, m).hi = FirstOfNext(y, m) - 1
    BY ONLY <2>1, <2>3, m \in 1..12, MonthSpans, Zenon
  <2>5. month_of(b, c).lo = DayNumber(b, c, 1)
    BY ONLY <2>2, <2>3, c \in 1..12, MonthSpans, Zenon
  <2> QED BY ONLY <1>7, <2>4, <2>5, SMT
<1>9. Follows(month_of(y, m), month_of(b, c))
  BY ONLY <1>8, Zenon DEF Follows
<1> QED BY ONLY <1>1, <1>2, <1>3, <1>4, <1>9, Zenon

\* Years follow each other.
LEMMA YearsTile ==
  ASSUME NEW y \in Int
  PROVE  Follows(year_of(y), year_of(y + 1))
<1>1. PICK b \in Int : b = y + 1
  BY SMT
<1>2. ASSUME year_of(y) # NoRange, year_of(b) # NoRange PROVE year_of(y).hi + 1 = year_of(b).lo
  <2>1. year_of(y) = WholeYear(y) /\ year_of(b) = WholeYear(b) /\ InCalendar(b)
    BY ONLY <1>2, y \in Int, b \in Int, YearsOf
  <2>2. year_of(y).hi = DayNumber(b, 1, 1) - 1 /\ year_of(b).lo = DayNumber(b, 1, 1)
    <3>1. WholeYear(y).hi = DayNumber(y + 1, 1, 1) - 1 /\ WholeYear(b).lo = DayNumber(b, 1, 1)
      BY ONLY Zenon DEF WholeYear
    <3> QED BY ONLY <1>1, <2>1, <3>1, Zenon
  <2>3. b \in Nat \ {0} /\ 1 \in 1..12
    BY ONLY <2>1, SMT DEF InCalendar
  <2>4. DayNumber(b, 1, 1) \in Int
    BY ONLY <2>3, MonthSpans, Zenon
  <2> QED BY ONLY <2>2, <2>4, SMT
<1> QED BY ONLY <1>1, <1>2, Zenon DEF Follows

\* The quarters of a year that has a next one.
QuarterRange(y, q) ==
    [lo |-> DayNumber(y, 3 * q - 2, 1),
     hi |-> (IF q = 4 THEN DayNumber(y + 1, 1, 1) ELSE DayNumber(y, 3 * q + 1, 1)) - 1]

\* quarter_of is its three months.
LEMMA QuartersOf ==
  ASSUME NEW y \in Nat \ {0}, BeforeLast(y), NEW q \in 1..4
  PROVE  quarter_of(y, q) = QuarterRange(y, q)
<1>1. PICK m \in 1..12 : m = 3 * q - 2
  BY SMT
<1>2. y \in Int /\ InCalendar(y)
  BY SMT DEF InCalendar, BeforeLast
<1>3. month_of(y, m) = MonthRange(y, m)
  BY ONLY <1>2, m \in 1..12, BeforeLast(y), MonthsOf
<1>4. PICK b \in Nat \ {0}, c \in 1..12 :
         /\ q = 4 => b = y + 1 /\ c = 1
         /\ q # 4 => b = y /\ c = 3 * q + 1
  <2>1. CASE q = 4
    <3>1. y + 1 \in Nat \ {0} /\ 1 \in 1..12
      BY SMT
    <3> QED BY ONLY <2>1, <3>1, Zenon
  <2>2. CASE q # 4
    <3>1. 3 * q + 1 \in 1..12
      BY <2>2, SMT
    <3> QED BY ONLY <2>2, <3>1, y \in Nat \ {0}, Zenon
  <2> QED BY ONLY <2>1, <2>2, Zenon
<1>5. b \in Int /\ InCalendar(b) /\ c < 12
  <2>1. CASE q = 4
    BY <1>4, <2>1, SMT DEF InCalendar, BeforeLast
  <2>2. CASE q # 4
    BY <1>4, <2>2, SMT DEF InCalendar, BeforeLast
  <2> QED BY ONLY <2>1, <2>2, Zenon
<1>6. month_of(b, c) = MonthRange(b, c)
  BY ONLY <1>5, c \in 1..12, MonthsOf
<1>7. (IF q = 4 THEN month_of(y + 1, 1) ELSE month_of(y, 3 * q + 1)) = month_of(b, c)
  BY ONLY <1>4, Zenon
<1>8. month_of(y, m) # NoRange /\ month_of(y, m).lo = DayNumber(y, m, 1)
  BY ONLY <1>3, y \in Nat \ {0}, m \in 1..12, MonthSpans, Zenon
<1>9. month_of(b, c) # NoRange /\ month_of(b, c).lo = DayNumber(b, c, 1)
  BY ONLY <1>6, b \in Nat \ {0}, c \in 1..12, MonthSpans, Zenon
<1>10. quarter_of(y, q) = [lo |-> month_of(y, m).lo, hi |-> month_of(b, c).lo - 1]
  BY ONLY <1>1, <1>7, <1>8, <1>9, Zenon DEF quarter_of
<1>11. (IF q = 4 THEN DayNumber(y + 1, 1, 1) ELSE DayNumber(y, 3 * q + 1, 1)) = DayNumber(b, c, 1)
  BY ONLY <1>4, Zenon
<1> QED BY ONLY <1>1, <1>8, <1>9, <1>10, <1>11, Zenon DEF QuarterRange

\* The answers to shifted phrases leave no day out and share none.
LEMMA RangesTileAlways == CalInv => RangesTile
<1> SUFFICES ASSUME CalInv PROVE RangesTile
  OBVIOUS
<1>1. PICK y, m, d : y = wall.year /\ m = wall.month /\ d = wall.day
  BY ONLY Zenon
<1>2. IsDate(y, m, d) /\ wall = Date(y, m, d)
  BY <1>1, WallDates DEF CalInv
<1>3. day = DayNumber(y, m, d)
  BY <1>1 DEF CalInv
<1>4. /\ y \in Nat \ {0} /\ m \in 1..12 /\ d \in 1..31 /\ d <= days_in_month(y, m)
      /\ y \in Int /\ days_in_month(y, m) \in 28..31
  BY <1>2, ShortMonths, SMT DEF IsDate
<1>5. Placed(y, m, d)
  BY <1>2, YearsHoldTheirDays
<1>6. day \in Int
  BY ONLY <1>3, <1>5, Zenon DEF Placed
<1>7. /\ civil_from_days(day) = IF y <= 9999 THEN wall ELSE NoDate
      /\ ValidDate(wall) <=> y <= 9999
  BY ONLY <1>2, <1>3, CivilShowsTheWall, SMT
<1>8. CASE civil_from_days(day) = NoDate
  <2>1. \A kind \in {"dayShift", "week", "monthShift", "yearShift"}, k \in {-1, 0, 1} : RangeOf(kind, k) = NoRange
    BY ONLY <1>8, Zenon DEF RangeOf, parse_temporal
  <2>2. \A k \in {-1, 0} : k \in {-1, 0, 1} /\ k + 1 \in {-1, 0, 1}
    BY ONLY SMT
  <2>3. ASSUME 1 < y, y < 9999 PROVE FALSE
    <3>1. y <= 9999
      BY ONLY <1>4, <2>3, SMT
    <3>2. civil_from_days(day) = wall
      BY ONLY <1>7, <3>1, SMT
    <3>3. NoDate.year = 0
      BY ONLY Zenon DEF NoDate
    <3> QED BY ONLY <1>1, <1>4, <1>8, <3>2, <3>3, SMT
  <2>4. ShiftsFollow
    BY ONLY <2>1, <2>2, Zenon DEF ShiftsFollow, Follows
  <2>5. HoldToday
    BY ONLY <2>1, Zenon DEF HoldToday
  <2>6. QuartersTile
    BY ONLY <1>1, <2>3, SMT DEF QuartersTile
  <2> QED BY ONLY <2>4, <2>5, <2>6, Zenon DEF RangesTile
<1>9. CASE civil_from_days(day) # NoDate
  <2>1. civil_from_days(day) = wall
    BY ONLY <1>7, <1>9, SMT
  <2>2. \A k \in Int :
         /\ RangeOf("dayShift", k) = day_bounds(day + k)
         /\ RangeOf("week", k) = week_of(day + 7 * k)
         /\ RangeOf("monthShift", k) = MonthShifted(wall, k)
         /\ RangeOf("yearShift", k) = year_of(y + k)
         /\ RangeOf("quarter", k) = quarter_of(y, k)
         /\ RangeOf("month", k) = month_of(y, k)
    BY ONLY <1>1, <1>9, <2>1, RangesOf, Zenon
  <2>3. PICK x \in Int : x = y * 12 + m - 1
    BY ONLY <1>4, SMT
  <2>4. ASSUME NEW k \in Int PROVE MonthShifted(wall, k) = month_of((x + k) \div 12, ((x + k) % 12) + 1)
    BY ONLY <1>1, <2>3, Zenon DEF MonthShifted
  <2>5. MonthShifted(wall, 0) = month_of(y, m)
    <3>1. 0 \in Int /\ (x + 0) \div 12 = y /\ ((x + 0) % 12) + 1 = m
      BY ONLY <1>4, <2>3, SMT
    <3> QED BY ONLY <2>4, <3>1, Zenon
  <2>6. ASSUME NEW k \in {-1, 0}
        PROVE  /\ Follows(RangeOf("dayShift", k), RangeOf("dayShift", k + 1))
               /\ Follows(RangeOf("week", k), RangeOf("week", k + 1))
               /\ Follows(RangeOf("monthShift", k), RangeOf("monthShift", k + 1))
               /\ Follows(RangeOf("yearShift", k), RangeOf("yearShift", k + 1))
    <3>1. PICK j \in Int : j = k + 1
      BY ONLY k \in {-1, 0}, SMT
    <3>2. k \in Int /\ day + k \in Int /\ day + 7 * k \in Int /\ x + k \in Int /\ y + k \in Int
      BY ONLY <1>4, <1>6, x \in Int, k \in {-1, 0}, SMT
    <3>3. /\ day + j = (day + k) + 1 /\ day + 7 * j = (day + 7 * k) + 7
          /\ x + j = (x + k) + 1 /\ y + j = (y + k) + 1
      BY ONLY <1>4, <1>6, <3>1, <3>2, x \in Int, SMT
    <3>4. Follows(RangeOf("dayShift", k), RangeOf("dayShift", j))
      BY ONLY <2>2, <3>2, <3>3, j \in Int, DaysTile, Zenon
    <3>5. Follows(RangeOf("week", k), RangeOf("week", j))
      BY ONLY <2>2, <3>2, <3>3, j \in Int, DaysTile, Zenon
    <3>6. Follows(RangeOf("monthShift", k), RangeOf("monthShift", j))
      BY ONLY <2>2, <2>4, <3>2, <3>3, j \in Int, MonthsTile, Zenon
    <3>7. Follows(RangeOf("yearShift", k), RangeOf("yearShift", j))
      BY ONLY <2>2, <3>2, <3>3, j \in Int, YearsTile, Zenon
    <3> QED BY ONLY <3>1, <3>4, <3>5, <3>6, <3>7, Zenon
  <2>7. ASSUME RangeOf("week", 0) # NoRange PROVE day \in RangeOf("week", 0).lo..RangeOf("week", 0).hi
    <3>1. 0 \in Int /\ day + 7 * 0 = day
      BY ONLY <1>6, SMT
    <3>2. RangeOf("week", 0) = week_of(day)
      BY ONLY <2>2, <3>1, Zenon
    <3> QED BY ONLY <1>6, <2>7, <3>2, DaysTile, Zenon
  <2>8. ASSUME RangeOf("monthShift", 0) # NoRange PROVE day \in RangeOf("monthShift", 0).lo..RangeOf("monthShift", 0).hi
    <3>1. 0 \in Int
      BY ONLY SMT
    <3>2. RangeOf("monthShift", 0) = month_of(y, m)
      BY ONLY <2>2, <2>5, <3>1, Zenon
    <3>3. month_of(y, m) = MonthRange(y, m)
      BY ONLY <1>4, <2>8, <3>2, MonthsOf, Zenon
    <3>4. /\ FirstOfNext(y, m) = DayNumber(y, m, 1) + days_in_month(y, m)
          /\ MonthRange(y, m).lo = DayNumber(y, m, 1) /\ MonthRange(y, m).hi = FirstOfNext(y, m) - 1
      BY ONLY <1>4, MonthSpans, Zenon
    <3>5. PICK a \in Int : a = DayNumber(y, m, 1)
      BY ONLY <1>5, Zenon DEF Placed
    <3>6. PICK l \in 28..31 : l = days_in_month(y, m)
      BY ONLY <1>4, Zenon
    <3>7. day = a + d - 1 /\ d \in 1..31 /\ d <= l
      BY ONLY <1>3, <1>4, <1>5, <3>5, <3>6, Zenon DEF Placed
    <3>8. day \in a..(a + l - 1)
      BY ONLY <3>7, a \in Int, l \in 28..31, SMT
    <3>9. RangeOf("monthShift", 0).lo = a /\ RangeOf("monthShift", 0).hi = FirstOfNext(y, m) - 1
      BY ONLY <3>2, <3>3, <3>4, <3>5, Zenon
    <3>10. FirstOfNext(y, m) = a + l
      BY ONLY <3>4, <3>5, <3>6, Zenon
    <3>11. PICK f \in Int : f = FirstOfNext(y, m)
      BY ONLY <3>10, a \in Int, l \in 28..31, SMT
    <3>12. day \in a..(f - 1)
      BY ONLY <3>7, <3>10, <3>11, a \in Int, l \in 28..31, SMT
    <3> QED BY ONLY <3>9, <3>11, <3>12, Zenon
  <2>9. ASSUME RangeOf("yearShift", 0) # NoRange PROVE day \in RangeOf("yearShift", 0).lo..RangeOf("yearShift", 0).hi
    <3>1. 0 \in Int /\ y + 0 = y
      BY ONLY <1>4, SMT
    <3>2. RangeOf("yearShift", 0) = year_of(y)
      BY ONLY <2>2, <3>1, Zenon
    <3>3. year_of(y) = WholeYear(y)
      BY ONLY <1>4, <2>9, <3>2, YearsOf, Zenon
    <3>4. WholeYear(y).lo = DayNumber(y, 1, 1) /\ WholeYear(y).hi = DayNumber(y + 1, 1, 1) - 1
      BY ONLY Zenon DEF WholeYear
    <3>5. y + 1 \in Nat \ {0} /\ 1 \in 1..12
      BY ONLY <1>4, SMT
    <3>6. PICK a \in Int : a = DayNumber(y, 1, 1)
      BY ONLY <1>4, <3>5, MonthSpans, Zenon
    <3>7. PICK b \in Int : b = DayNumber(y + 1, 1, 1)
      BY ONLY <3>5, MonthSpans, Zenon
    <3>8. a <= day /\ day < b
      BY ONLY <1>3, <1>5, <3>6, <3>7, Zenon DEF Placed
    <3>9. day \in a..(b - 1)
      BY ONLY <1>6, <3>8, a \in Int, b \in Int, SMT
    <3> QED BY ONLY <3>2, <3>3, <3>4, <3>6, <3>7, <3>9, Zenon
  <2>10. ASSUME 1 < y, y < 9999
         PROVE  /\ RangeOf("quarter", 1).lo = RangeOf("yearShift", 0).lo
                /\ \A q \in 1..3 : RangeOf("quarter", q).hi + 1 = RangeOf("quarter", q + 1).lo
                /\ RangeOf("quarter", 4).hi = RangeOf("yearShift", 0).hi
                /\ RangeOf("month", m) = RangeOf("monthShift", 0)
    <3>1. BeforeLast(y) /\ y + 0 = y
      BY ONLY <1>4, <2>10, SMT DEF BeforeLast
    <3>2. \A q \in 1..4 : q \in Int /\ quarter_of(y, q) = QuarterRange(y, q)
      <4>1. \A q \in 1..4 : q \in Int
        BY ONLY SMT
      <4> QED BY ONLY <1>4, <3>1, <4>1, QuartersOf
    <3>3. year_of(y) = WholeYear(y)
      BY ONLY <1>4, <3>1, YearsOf
    <3>4. \A q \in 1..4 : RangeOf("quarter", q) = QuarterRange(y, q)
      BY ONLY <2>2, <3>2, Zenon
    <3>5. RangeOf("yearShift", 0) = WholeYear(y) /\ 0 \in Int
      <4>1. 0 \in Int
        BY ONLY SMT
      <4> QED BY ONLY <2>2, <3>1, <3>3, <4>1
    <3>6. WholeYear(y).lo = DayNumber(y, 1, 1) /\ WholeYear(y).hi = DayNumber(y + 1, 1, 1) - 1
      BY ONLY Zenon DEF WholeYear
    <3>7. \A q : /\ QuarterRange(y, q).lo = DayNumber(y, 3 * q - 2, 1)
                 /\ QuarterRange(y, q).hi = (IF q = 4 THEN DayNumber(y + 1, 1, 1) ELSE DayNumber(y, 3 * q + 1, 1)) - 1
      BY ONLY Zenon DEF QuarterRange
    <3>8. 1 \in 1..4 /\ 4 \in 1..4 /\ 3 * 1 - 2 = 1
      BY ONLY SMT
    <3>9. RangeOf("quarter", 1).lo = RangeOf("yearShift", 0).lo
      BY ONLY <3>4, <3>5, <3>6, <3>7, <3>8, Zenon
    <3>10. RangeOf("quarter", 4).hi = RangeOf("yearShift", 0).hi
      BY ONLY <3>4, <3>5, <3>6, <3>7, <3>8, Zenon
    <3>11. ASSUME NEW q \in 1..3 PROVE RangeOf("quarter", q).hi + 1 = RangeOf("quarter", q + 1).lo
      <4>1. PICK p \in 1..4 : p = q + 1
        BY ONLY q \in 1..3, SMT
      <4>2. q \in 1..4 /\ q # 4
        BY ONLY q \in 1..3, SMT
      <4>3. PICK n \in 1..12 : n = 3 * q + 1 /\ n = 3 * p - 2
        BY ONLY <4>1, q \in 1..3, SMT
      <4>4. RangeOf("quarter", q).hi = DayNumber(y, n, 1) - 1
        BY ONLY <3>4, <3>7, <4>2, <4>3, Zenon
      <4>5. RangeOf("quarter", p).lo = DayNumber(y, n, 1)
        BY ONLY <3>4, <3>7, <4>3, p \in 1..4, Zenon
      <4>6. DayNumber(y, n, 1) \in Int
        BY ONLY <1>4, n \in 1..12, MonthSpans, Zenon
      <4>7. RangeOf("quarter", q).hi + 1 = RangeOf("quarter", p).lo
        BY ONLY <4>4, <4>5, <4>6, SMT
      <4> QED BY ONLY <4>1, <4>7, Zenon
    <3>12. RangeOf("month", m) = RangeOf("monthShift", 0)
      <4>1. m \in Int
        BY ONLY <1>4, SMT
      <4> QED BY ONLY <2>2, <2>5, <3>5, <4>1, Zenon
    <3> QED BY ONLY <3>9, <3>10, <3>11, <3>12, Zenon
  <2>11. QuartersTile
    BY ONLY <1>1, <2>10, SMT DEF QuartersTile
  <2>12. ShiftsFollow
    BY ONLY <2>6, Zenon DEF ShiftsFollow
  <2>13. HoldToday
    BY ONLY <2>7, <2>8, <2>9, Zenon DEF HoldToday
  <2> QED BY ONLY <2>11, <2>12, <2>13, Zenon DEF RangesTile
<1> QED BY ONLY <1>8, <1>9

\* Every stamp of the day reads back.
LEMMA StampsReadBackAlways == CalInv => StampsReadBack
<1> SUFFICES ASSUME CalInv, NEW s \in Seconds, NEW o \in Offsets,
                    format_timestamp(Instant(day, s + o)).date # NoDate
             PROVE  parse_timestamp(format_timestamp(Instant(day, s + o)), o) = <<day, s>>
  BY Zenon DEF StampsReadBack
<1>1. s \in Nat /\ s < 86400 /\ o \in Int
  BY CalendarAssumption, SMT DEF DaySeconds
<1>2. PICK y, m, d : IsDate(y, m, d) /\ day = DayNumber(y, m, d)
  BY WallDates, Zenon DEF CalInv
<1>3. Placed(y, m, d)
  BY ONLY <1>2, YearsHoldTheirDays, Zenon
<1>4. day \in Int
  BY ONLY <1>2, <1>3, Zenon DEF Placed
<1> QED BY <1>1, <1>4, StampReadsBack, SMT

\* What the invariant gives.
LEMMA CalInvIsEnough == CalInv => DatesAgree /\ RangesTile /\ StampsReadBack
  BY DatesAgreeAlways, RangesTileAlways, StampsReadBackAlways

\* It holds at the start.
LEMMA CalInvInit == CalInit => CalInv
<1> SUFFICES ASSUME CalInit PROVE CalInv
  OBVIOUS
<1>1. wall \in [year : Nat, month : Nat, day : Nat] /\ ValidDate(wall)
  BY CalendarAssumption, Zenon DEF CalInit
<1>2. PICK y \in Nat, m \in Nat, d \in Nat : wall = Date(y, m, d)
  BY ONLY <1>1, SMT DEF Date
<1>3. y >= 1 /\ m \in 1..12 /\ d \in 1..days_in_month(y, m)
  BY ONLY <1>1, <1>2, y \in Nat, m \in Nat, d \in Nat, SMT DEF ValidDate, Date
<1>4. y \in Nat \ {0} /\ y \in Int
  BY ONLY <1>3, y \in Nat, SMT
<1>5. days_in_month(y, m) \in 28..31
  BY ONLY <1>3, <1>4, ShortMonths, SMT
<1>6. IsDate(y, m, d) /\ d \in Int
  BY ONLY <1>3, <1>4, <1>5, SMT DEF IsDate
<1>7. WallDate(wall)
  BY ONLY <1>2, <1>6, MakesWallDate, Zenon
<1>8. days_from_civil(wall) = DayNumber(y, m, d)
  BY ONLY <1>2, <1>3, <1>4, <1>6, DaysAreNumbered, Zenon
<1>9. wall.year = y /\ wall.month = m /\ wall.day = d
  <2>1. Date(y, m, d).year = y /\ Date(y, m, d).month = m /\ Date(y, m, d).day = d
    BY ONLY Zenon DEF Date
  <2> QED BY ONLY <1>2, <2>1, Zenon
<1> QED BY <1>7, <1>8, <1>9, Zenon DEF CalInit, CalInv

\* Every midnight keeps it.
LEMMA CalStep == CalInv /\ (CalTick \/ UNCHANGED calVars) => CalInv'
<1>1. ASSUME CalInv, CalTick PROVE CalInv'
  <2>1. WallDate(wall') /\ DayNumber(wall'.year, wall'.month, wall'.day) = DayNumber(wall.year, wall.month, wall.day) + 1
    BY <1>1, TomorrowFollows, Zenon DEF CalInv, CalTick
  <2> QED BY <1>1, <2>1, Zenon DEF CalInv, CalTick
<1>2. ASSUME CalInv, UNCHANGED calVars PROVE CalInv'
  BY <1>2, Zenon DEF CalInv, calVars
<1> QED BY <1>1, <1>2, Zenon
====
