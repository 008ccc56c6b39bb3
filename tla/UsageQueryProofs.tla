--------------------------- MODULE UsageQueryProofs ---------------------------
(***************************************************************************)
(* Theorems about UsageQuery, for every set of kinds of request, period,   *)
(* date, retention and default window.                                     *)
(*                                                                         *)
(* The calendar.  The code computes with years that begin in March, in     *)
(* eras of 400 years, and the proofs count with them too: a day is a       *)
(* Position, an era, a year of the era, a month from March and a day of    *)
(* the month, all from 0.  Every day has one (DayHasPosition); format_day  *)
(* reads it off the day, although its formula for the year of the era is   *)
(* no plain division (YearOfEra, FormatOfPosition); and parse_day puts the *)
(* day together again (ParseOfPosition).  What is left is to step a        *)
(* Position forward, and that the lexical order of dates is that of days.  *)
(*                                                                         *)
(* The answers.  The tables count the requests served, class by class of   *)
(* their keys (TablesInv), and an answer is what the tables held when it   *)
(* was made (AnswerInv).  A query then groups the keys it selects by other *)
(* columns, and the aggregation groups the rows again: each is a sum over  *)
(* classes of a sum over classes, which is the sum over the requests       *)
(* themselves (SumOfClasses, Grouping, RowSums, LinesSum).                 *)
(*                                                                         *)
(* The percentiles.  The buckets of a date, in whichever order the rows of *)
(* several days come, form a Ladder.  A rank crosses a row exactly when    *)
(* its bucket is reached, and the value is between the row before and it.  *)
(***************************************************************************)
EXTENDS UsageQuery, FiniteSetTheorems, TLAPS

(* The days before a year of the era, and before a month of the year.      *)
DaysBefore(y) == 365 * y + y \div 4 - y \div 100

MonthStart(m) == (153 * m + 2) \div 5

(* The year of the era whose last day, the 365th from March, is there.     *)
LeapAtEnd(y) == y % 4 = 3 /\ (y % 100 # 99 \/ y % 400 = 399)

(* The days of a month, by the year they are counted from.                 *)
MonthLength(y, m) ==
  IF m = 11 THEN (IF LeapAtEnd(y) THEN 29 ELSE 28) ELSE MonthStart(m + 1) - MonthStart(m)

Position(e, y, m, d) ==
  /\ e \in Int /\ y \in Nat /\ y <= 399 /\ m \in Nat /\ m <= 11 /\ d \in Nat
  /\ d < MonthLength(y, m)

DayAt(e, y, m, d) == 146097 * e + DaysBefore(y) + MonthStart(m) + d - 719468

DateAt(e, y, m, d) ==
  <<400 * e + y + (IF m >= 10 THEN 1 ELSE 0), IF m < 10 THEN m + 3 ELSE m - 9, d + 1>>

-----------------------------------------------------------------------------
(* The months from March begin on these days of the year.                  *)
LEMMA MonthStarts ==
  ASSUME NEW m \in Nat, m <= 11
  PROVE  /\ MonthStart(m) \in Nat /\ MonthStart(m + 1) \in Nat
         /\ MonthStart(m + 1) - MonthStart(m) \in {30, 31}
         /\ m = 11 => MonthStart(m) = 337
         /\ m < 11 => MonthStart(m + 1) <= 337
         /\ MonthStart(0) = 0
  BY DEF MonthStart

(* The code's formula for the year of the era inverts DaysBefore.          *)
LEMMA YearOfEra ==
  ASSUME NEW y \in Nat, y <= 399, NEW n \in Nat, n <= 365, n = 365 => LeapAtEnd(y),
         NEW doe, doe = DaysBefore(y) + n
  PROVE  /\ (doe - doe \div 1460 + doe \div 36524 - doe \div 146096) \div 365 = y
         /\ doe \in Nat /\ doe <= 146096
  BY DEF DaysBefore, LeapAtEnd

(* Every day of an era is in one of its years.                             *)
LEMMA DayInYear ==
  ASSUME NEW doe \in Nat, doe <= 146096
  PROVE  \E y, n \in Nat : /\ y <= 399 /\ n <= 365
                           /\ doe = DaysBefore(y) + n /\ (n = 365 => LeapAtEnd(y))
<1>1. PICK c, r \in Nat : /\ c <= 3 /\ r <= 36524
                          /\ doe = 36524 * c + r /\ (r = 36524 => c = 3)
  <2>1. CASE doe < 146096
    <3>1. /\ doe \div 36524 \in Nat /\ doe \div 36524 <= 3
          /\ doe - 36524 * (doe \div 36524) \in Nat /\ doe - 36524 * (doe \div 36524) < 36524
      BY <2>1
    <3> QED
      BY <3>1
  <2>2. CASE doe = 146096
    BY <2>2
  <2> QED
    BY <2>1, <2>2
<1>2. PICK q, s \in Nat : q <= 24 /\ s <= 1460 /\ r = 1461 * q + s
  <2>1. /\ r \div 1461 \in Nat /\ r \div 1461 <= 24
        /\ r - 1461 * (r \div 1461) \in Nat /\ r - 1461 * (r \div 1461) <= 1460
    BY <1>1
  <2> QED
    BY <2>1
<1>3. PICK l, n \in Nat : l <= 3 /\ n <= 365 /\ s = 365 * l + n /\ (n = 365 => l = 3)
  <2>1. CASE s < 1460
    <3>1. /\ s \div 365 \in Nat /\ s \div 365 <= 3
          /\ s - 365 * (s \div 365) \in Nat /\ s - 365 * (s \div 365) < 365
      BY <2>1
    <3> QED
      BY <3>1
  <2>2. CASE s = 1460
    BY <2>2
  <2> QED
    BY <1>2, <2>1, <2>2
<1>4. PICK y : y = 100 * c + 4 * q + l
  OBVIOUS
<1>5. y \in Nat /\ y <= 399 /\ y \div 4 = 25 * c + q /\ y \div 100 = c
  BY <1>1, <1>2, <1>3, <1>4
<1>6. doe = DaysBefore(y) + n
  BY <1>1, <1>2, <1>3, <1>4, <1>5 DEF DaysBefore
<1>7. ASSUME n = 365 PROVE LeapAtEnd(y)
  <2>1. l = 3
    BY <1>3, <1>7
  <2>2. y % 4 = 3 /\ (y % 100 = 99 <=> q = 24)
    BY <1>1, <1>2, <1>4, <2>1
  <2>3. q = 24 => c = 3
    BY <1>1, <1>2, <1>3, <1>7, <2>1
  <2>4. q = 24 => y % 400 = 399
    BY <1>4, <2>1, <2>3
  <2> QED
    BY <2>2, <2>4 DEF LeapAtEnd
<1> QED
  BY <1>3, <1>5, <1>6, <1>7

(* Every day of a year is in one of its months, and the code's formula     *)
(* finds it.                                                               *)
LEMMA DayInMonth ==
  ASSUME NEW n \in Nat, n <= 365
  PROVE  \E m, d \in Nat : /\ m <= 11 /\ n = MonthStart(m) + d /\ n < MonthStart(m + 1)
                           /\ (5 * n + 2) \div 153 = m
<1>1. PICK m : m = (5 * n + 2) \div 153
  OBVIOUS
<1>2. m \in Nat /\ m <= 11
  BY <1>1
<1>3. MonthStart(m) \in Nat /\ MonthStart(m) <= n /\ n < MonthStart(m + 1)
  BY <1>1, <1>2 DEF MonthStart
<1>4. PICK d : d = n - MonthStart(m)
  OBVIOUS
<1>5. d \in Nat /\ n = MonthStart(m) + d
  BY <1>3, <1>4
<1> QED
  BY <1>1, <1>2, <1>3, <1>5

(* A place in a month is a place in the year, and its month is found.      *)
LEMMA PlaceInYear ==
  ASSUME NEW e, NEW y, NEW m, NEW d, Position(e, y, m, d), NEW n, n = MonthStart(m) + d
  PROVE  /\ n \in Nat /\ n <= 365 /\ (n = 365 => LeapAtEnd(y))
         /\ (5 * n + 2) \div 153 = m /\ d <= 30
  BY DEF Position, MonthLength, MonthStart

(* Every day has a position.                                               *)
LEMMA DayHasPosition ==
  ASSUME NEW day \in Int
  PROVE  \E e \in Int, y, m, d \in Nat : Position(e, y, m, d) /\ day = DayAt(e, y, m, d)
<1>1. PICK e \in Int, doe \in Nat : doe <= 146096 /\ day + 719468 = 146097 * e + doe
  <2>1. PICK z \in Int : z = day + 719468
    OBVIOUS
  <2>2. PICK e : e = z \div 146097
    OBVIOUS
  <2>3. PICK doe : doe = z - 146097 * e
    OBVIOUS
  <2>4. e \in Int /\ doe \in Nat /\ doe <= 146096 /\ z = 146097 * e + doe
    BY <2>2, <2>3
  <2> QED
    BY <2>1, <2>4
<1>2. PICK y, n \in Nat : /\ y <= 399 /\ n <= 365
                          /\ doe = DaysBefore(y) + n /\ (n = 365 => LeapAtEnd(y))
  BY <1>1, DayInYear
<1>3. PICK m, d \in Nat : m <= 11 /\ n = MonthStart(m) + d /\ n < MonthStart(m + 1)
  BY <1>2, DayInMonth
<1>4. MonthStart(m) \in Nat /\ MonthStart(m + 1) \in Nat /\ (m = 11 => MonthStart(m) = 337)
  BY <1>3, MonthStarts
<1>5. d < MonthLength(y, m)
  BY <1>2, <1>3, <1>4 DEF MonthLength
<1>6. Position(e, y, m, d)
  BY <1>2, <1>3, <1>5 DEF Position
<1>7. DaysBefore(y) \in Nat
  BY <1>2 DEF DaysBefore
<1>8. day = DayAt(e, y, m, d)
  BY <1>1, <1>2, <1>3, <1>4, <1>7 DEF DayAt
<1> QED
  BY <1>6, <1>8

(* format_day reads a position off its day.                                *)
LEMMA FormatOfPosition ==
  ASSUME NEW e, NEW y, NEW m, NEW d, Position(e, y, m, d)
  PROVE  format_day(DayAt(e, y, m, d)) = DateAt(e, y, m, d)
<1>1. e \in Int /\ y \in Nat /\ y <= 399 /\ m \in Nat /\ m <= 11 /\ d \in Nat
  BY DEF Position
<1>2. PICK n : n = MonthStart(m) + d
  OBVIOUS
<1>3. n \in Nat /\ n <= 365 /\ (n = 365 => LeapAtEnd(y)) /\ (5 * n + 2) \div 153 = m
  BY <1>2, PlaceInYear
<1>4. PICK doe : doe = DaysBefore(y) + n
  OBVIOUS
<1>5. /\ (doe - doe \div 1460 + doe \div 36524 - doe \div 146096) \div 365 = y
      /\ doe \in Nat /\ doe <= 146096
  BY <1>1, <1>3, <1>4, YearOfEra
<1>6. MonthStart(m) \in Nat /\ DaysBefore(y) \in Nat
  BY <1>1, MonthStarts DEF DaysBefore
<1>7. PICK z \in Int : z = 146097 * e + doe
  BY <1>1, <1>5
<1>8. DayAt(e, y, m, d) \in Int /\ DayAt(e, y, m, d) + 719468 = z
  BY <1>1, <1>2, <1>3, <1>4, <1>6, <1>7 DEF DayAt
<1>12. PICK day \in Int : day = DayAt(e, y, m, d)
  BY <1>8
<1>9. z \div 146097 = e /\ z - e * 146097 = doe
  BY <1>1, <1>5, <1>7
<1>10. doe - (365 * y + y \div 4 - y \div 100) = n /\ n - (153 * m + 2) \div 5 + 1 = d + 1
  BY <1>1, <1>2, <1>3, <1>4, <1>6 DEF DaysBefore, MonthStart
<1>11. format_day(day) =
         <<y + e * 400 + (IF (IF m < 10 THEN m + 3 ELSE m - 9) <= 2 THEN 1 ELSE 0),
           IF m < 10 THEN m + 3 ELSE m - 9, d + 1>>
  <2> DEFINE z0   == day + 719468
             era0 == z0 \div 146097
             doe0 == z0 - era0 * 146097
             yoe0 == (doe0 - doe0 \div 1460 + doe0 \div 36524 - doe0 \div 146096) \div 365
             doy0 == doe0 - (365 * yoe0 + yoe0 \div 4 - yoe0 \div 100)
             mp0  == (5 * doy0 + 2) \div 153
             d0   == doy0 - (153 * mp0 + 2) \div 5 + 1
             m0   == IF mp0 < 10 THEN mp0 + 3 ELSE mp0 - 9
  <2>1. format_day(day) = <<yoe0 + era0 * 400 + (IF m0 <= 2 THEN 1 ELSE 0), m0, d0>>
    BY DEF format_day
  <2> HIDE DEF m0
  <2>2. m0 = IF mp0 < 10 THEN mp0 + 3 ELSE mp0 - 9
    BY DEF m0
  <2> HIDE DEF d0
  <2>3. d0 = doy0 - (153 * mp0 + 2) \div 5 + 1
    BY DEF d0
  <2> HIDE DEF mp0
  <2>4. mp0 = (5 * doy0 + 2) \div 153
    BY DEF mp0
  <2> HIDE DEF doy0
  <2>5. doy0 = doe0 - (365 * yoe0 + yoe0 \div 4 - yoe0 \div 100)
    BY DEF doy0
  <2> HIDE DEF yoe0
  <2>6. yoe0 = (doe0 - doe0 \div 1460 + doe0 \div 36524 - doe0 \div 146096) \div 365
    BY DEF yoe0
  <2> HIDE DEF doe0
  <2>7. doe0 = z0 - era0 * 146097
    BY DEF doe0
  <2> HIDE DEF era0
  <2>8. era0 = z0 \div 146097
    BY DEF era0
  <2>9. z0 = z
    BY <1>8, <1>12
  <2> HIDE DEF z0
  <2>10. era0 = e /\ doe0 = doe
    BY <1>9, <2>7, <2>8, <2>9
  <2>11. yoe0 = y
    BY <1>5, <2>6, <2>10
  <2>12. doy0 = n
    BY <1>10, <2>5, <2>10, <2>11
  <2>13. mp0 = m
    BY <1>3, <2>4, <2>12
  <2>14. d0 = d + 1
    BY <1>10, <2>3, <2>12, <2>13
  <2> QED
    BY <2>1, <2>2, <2>10, <2>11, <2>13, <2>14
<1> QED
  BY <1>1, <1>11, <1>12 DEF DateAt

(* The months of the calendar are as long as the positions have it.        *)
LEMMA MonthOfPosition ==
  ASSUME NEW e, NEW y, NEW m, NEW d, Position(e, y, m, d), NEW t, t = DateAt(e, y, m, d)
  PROVE  /\ t[1] \in Int /\ t[2] \in Nat /\ 1 <= t[2] /\ t[2] <= 12 /\ t[3] = d + 1
         /\ days_in_month(t[1], t[2]) = MonthLength(y, m)
<1>1. e \in Int /\ y \in Nat /\ y <= 399 /\ m \in Nat /\ m <= 11 /\ d \in Nat
  BY DEF Position
<1>2. /\ t[1] = 400 * e + y + (IF m >= 10 THEN 1 ELSE 0)
      /\ t[2] = (IF m < 10 THEN m + 3 ELSE m - 9) /\ t[3] = d + 1
  BY DEF DateAt
<1>3. is_leap(400 * e + y + 1) <=> LeapAtEnd(y)
  BY <1>1 DEF is_leap, LeapAtEnd
<1>4. CASE m = 11
  <2>1. t[1] = 400 * e + y + 1 /\ t[2] = 2
    BY <1>1, <1>2, <1>4
  <2>2. days_in_month(t[1], 2) = IF is_leap(t[1]) THEN 29 ELSE 28
    BY DEF days_in_month
  <2> QED
    BY <1>1, <1>2, <1>3, <1>4, <2>1, <2>2 DEF MonthLength
<1>5. CASE m # 11
  <2>1. /\ t[2] \in Nat /\ 1 <= t[2] /\ t[2] <= 12 /\ t[2] # 2
        /\ t[1] \in Int /\ (m < 10 => m = t[2] - 3) /\ (m = 10 => t[2] = 1)
    BY <1>1, <1>2, <1>5
  <2>2. days_in_month(t[1], t[2]) = IF t[2] \in {4, 6, 9, 11} THEN 30 ELSE 31
    BY <2>1 DEF days_in_month
  <2>3. MonthLength(y, m) = MonthStart(m + 1) - MonthStart(m)
    BY <1>5 DEF MonthLength
  <2>4. MonthStart(m + 1) - MonthStart(m) = IF m \in {1, 3, 6, 8} THEN 30 ELSE 31
    BY <1>1, <1>5 DEF MonthStart
  <2> QED
    BY <1>1, <1>2, <1>5, <2>1, <2>2, <2>3, <2>4
<1> QED
  BY <1>4, <1>5

(* parse_day puts a day together again.                                    *)
LEMMA ParseOfPosition ==
  ASSUME NEW e, NEW y, NEW m, NEW d, Position(e, y, m, d)
  PROVE  /\ IsDate(DateAt(e, y, m, d))
         /\ parse_day(DateAt(e, y, m, d)) = DayAt(e, y, m, d)
<1>1. e \in Int /\ y \in Nat /\ y <= 399 /\ m \in Nat /\ m <= 11 /\ d \in Nat
      /\ d < MonthLength(y, m)
  BY DEF Position
<1>2. PICK t : t = DateAt(e, y, m, d)
  OBVIOUS
<1>3. /\ t[1] = 400 * e + y + (IF m >= 10 THEN 1 ELSE 0)
      /\ t[2] = (IF m < 10 THEN m + 3 ELSE m - 9) /\ t[3] = d + 1
  BY <1>2 DEF DateAt
<1>4. IsDate(t)
  <2>1. days_in_month(t[1], t[2]) = MonthLength(y, m) /\ t[2] \in Nat /\ 1 <= t[2] /\ t[2] <= 12
    BY <1>2, MonthOfPosition
  <2>2. MonthLength(y, m) \in Nat
    BY <1>1, MonthStarts DEF MonthLength
  <2> QED
    BY <1>1, <1>3, <2>1, <2>2 DEF IsDate
<1>5. parse_day(t) = DayAt(e, y, m, d)
  <2> DEFINE y0   == IF t[2] <= 2 THEN t[1] - 1 ELSE t[1]
             era0 == y0 \div 400
             yoe0 == y0 - era0 * 400
             mp0  == IF t[2] > 2 THEN t[2] - 3 ELSE t[2] + 9
             doy0 == (153 * mp0 + 2) \div 5 + t[3] - 1
  <2>1. parse_day(t) = era0 * 146097 + yoe0 * 365 + yoe0 \div 4 - yoe0 \div 100 + doy0 - 719468
    BY DEF parse_day
  <2>2. y0 = 400 * e + y /\ mp0 = m
    BY <1>1, <1>3
  <2>3. doy0 = MonthStart(m) + d
    BY <1>1, <1>3, <2>2 DEF MonthStart
  <2> HIDE DEF y0, mp0, doy0
  <2>4. era0 = e
    BY <1>1, <2>2
  <2>5. yoe0 = y
    BY <1>1, <2>2, <2>4
  <2> HIDE DEF era0, yoe0
  <2>6. MonthStart(m) \in Nat
    BY <1>1, MonthStarts
  <2> QED
    BY <1>1, <2>1, <2>3, <2>4, <2>5, <2>6 DEF DayAt, DaysBefore
<1> QED
  BY <1>2, <1>4, <1>5

(* Every date has a position.                                              *)
LEMMA DateHasPosition ==
  ASSUME NEW a \in Int, NEW b \in Int, NEW c \in Int, IsDate(<<a, b, c>>)
  PROVE  \E e \in Int, y, m, d \in Nat : Position(e, y, m, d) /\ DateAt(e, y, m, d) = <<a, b, c>>
<1>1. 1 <= b /\ b <= 12 /\ 1 <= c /\ c <= days_in_month(a, b) /\ days_in_month(a, b) \in Nat
  <2>1. b \in 1 .. 12 /\ c \in 1 .. days_in_month(a, b)
    BY DEF IsDate
  <2>2. days_in_month(a, b) \in Nat
    BY <2>1 DEF days_in_month
  <2> QED
    BY <2>1, <2>2
<1>2. PICK m \in Nat : m = (IF b > 2 THEN b - 3 ELSE b + 9) /\ m <= 11
  BY <1>1
<1>3. PICK z \in Int : z = (IF b > 2 THEN a ELSE a - 1)
  OBVIOUS
<1>4. PICK e : e = z \div 400
  OBVIOUS
<1>5. PICK y : y = z - 400 * e
  OBVIOUS
<1>6. e \in Int /\ y \in Nat /\ y <= 399 /\ z = 400 * e + y
  BY <1>4, <1>5
<1>7. PICK d \in Nat : d = c - 1
  BY <1>1
<1>8. DateAt(e, y, m, d) = <<a, b, c>>
  BY <1>1, <1>2, <1>3, <1>6, <1>7 DEF DateAt
<1>9. MonthLength(y, m) = days_in_month(a, b)
  <2>1. Position(e, y, m, 0)
    BY <1>2, <1>6, MonthStarts DEF Position, MonthLength
  <2>2. DateAt(e, y, m, 0) = <<a, b, 1>>
    BY <1>8, <1>6, <1>7, <1>2 DEF DateAt
  <2> QED
    BY <2>1, <2>2, MonthOfPosition
<1>10. Position(e, y, m, d)
  BY <1>1, <1>2, <1>6, <1>7, <1>9 DEF Position
<1> QED
  BY <1>2, <1>6, <1>7, <1>8, <1>10

(* A later month, or a later day of the same month, is a later day.        *)
LEMMA DaysInOrder ==
  ASSUME NEW e1, NEW y1, NEW m1, NEW d1, Position(e1, y1, m1, d1),
         NEW e2, NEW y2, NEW m2, NEW d2, Position(e2, y2, m2, d2),
         \/ 400 * e1 + y1 < 400 * e2 + y2
         \/ 400 * e1 + y1 = 400 * e2 + y2 /\ m1 < m2
         \/ 400 * e1 + y1 = 400 * e2 + y2 /\ m1 = m2 /\ d1 < d2
  PROVE  DayAt(e1, y1, m1, d1) < DayAt(e2, y2, m2, d2)
<1>1. /\ e1 \in Int /\ y1 \in Nat /\ y1 <= 399 /\ m1 \in Nat /\ m1 <= 11 /\ d1 \in Nat
      /\ e2 \in Int /\ y2 \in Nat /\ y2 <= 399 /\ m2 \in Nat /\ m2 <= 11 /\ d2 \in Nat
      /\ d1 < MonthLength(y1, m1)
  BY DEF Position
<1>2. PICK n1, n2 \in Nat : n1 = MonthStart(m1) + d1 /\ n2 = MonthStart(m2) + d2
  BY <1>1, MonthStarts
<1>3. n1 <= 365 /\ (n1 = 365 => LeapAtEnd(y1))
  BY <1>2, PlaceInYear
<1>4. PICK b1, b2 \in Nat : b1 = DaysBefore(y1) /\ b2 = DaysBefore(y2)
  BY <1>1 DEF DaysBefore
<1>5. /\ DayAt(e1, y1, m1, d1) = 146097 * e1 + b1 + n1 - 719468
      /\ DayAt(e2, y2, m2, d2) = 146097 * e2 + b2 + n2 - 719468
  <2>1. MonthStart(m1) \in Nat /\ MonthStart(m2) \in Nat
    BY <1>1, MonthStarts
  <2> QED
    BY <1>1, <1>2, <1>4, <2>1 DEF DayAt
<1>6. CASE e1 < e2
  <2>1. b1 + n1 <= 146096
    BY <1>1, <1>2, <1>3, <1>4, YearOfEra
  <2> QED
    BY <1>1, <1>2, <1>4, <1>5, <1>6, <2>1
<1>7. CASE e1 = e2 /\ y1 < y2
  <2>1. b1 + n1 < b2
    BY <1>1, <1>2, <1>3, <1>4, <1>7 DEF DaysBefore, LeapAtEnd
  <2> QED
    BY <1>1, <1>2, <1>4, <1>5, <1>7, <2>1
<1>8. CASE e1 = e2 /\ y1 = y2 /\ m1 < m2
  <2>1. MonthLength(y1, m1) = MonthStart(m1 + 1) - MonthStart(m1)
    BY <1>1, <1>8 DEF MonthLength
  <2>2. MonthStart(m1 + 1) <= MonthStart(m2)
    BY <1>1, <1>8 DEF MonthStart
  <2>3. /\ MonthStart(m1) \in Nat /\ MonthStart(m1 + 1) \in Nat /\ MonthStart(m2) \in Nat
    BY <1>1, MonthStarts
  <2>4. n1 < n2
    BY <1>1, <1>2, <2>1, <2>2, <2>3
  <2> QED
    BY <1>1, <1>2, <1>4, <1>5, <1>8, <2>4
<1>9. CASE e1 = e2 /\ y1 = y2 /\ m1 = m2 /\ d1 < d2
  <2>1. MonthStart(m1) \in Nat
    BY <1>1, MonthStarts
  <2> QED
    BY <1>1, <1>2, <1>4, <1>5, <1>9, <2>1
<1>10. e1 > e2 => 400 * e1 + y1 > 400 * e2 + y2
  BY <1>1
<1>11. e1 = e2 \/ e1 < e2
  BY <1>1, <1>10
<1> QED
  BY <1>1, <1>6, <1>7, <1>8, <1>9, <1>11

-----------------------------------------------------------------------------
(* format_day makes a date of every day, and parse_day reads it back.      *)
THEOREM DatesAreReadBack ==
  \A day \in Int : IsDate(format_day(day)) /\ parse_day(format_day(day)) = day
<1> TAKE day \in Int
<1>1. PICK e \in Int, y, m, d \in Nat : Position(e, y, m, d) /\ day = DayAt(e, y, m, d)
  BY DayHasPosition
<1> QED
  BY <1>1, FormatOfPosition, ParseOfPosition

(* And parse_day gives every date its own day: the dates a caller may name *)
(* and the days of the server correspond one to one.                       *)
THEOREM DaysAreWrittenBack ==
  \A a, b, c \in Int :
    IsDate(<<a, b, c>>) => format_day(parse_day(<<a, b, c>>)) = <<a, b, c>>
<1> SUFFICES ASSUME NEW a \in Int, NEW b \in Int, NEW c \in Int, IsDate(<<a, b, c>>)
             PROVE  format_day(parse_day(<<a, b, c>>)) = <<a, b, c>>
  OBVIOUS
<1>1. PICK e \in Int, y, m, d \in Nat : Position(e, y, m, d) /\ DateAt(e, y, m, d) = <<a, b, c>>
  BY DateHasPosition
<1> QED
  BY <1>1, FormatOfPosition, ParseOfPosition

(* Dates compare like days, as the comment over the calendar has it and    *)
(* the SELECTs rely on.                                                    *)
THEOREM DatesCompareLikeDays ==
  \A a, b \in Int : UpTo(format_day(a), format_day(b)) <=> a <= b
<1> SUFFICES ASSUME NEW a \in Int, NEW b \in Int
             PROVE  UpTo(format_day(a), format_day(b)) <=> a <= b
  OBVIOUS
<1>1. PICK e1 \in Int, y1, m1, d1 \in Nat : Position(e1, y1, m1, d1) /\ a = DayAt(e1, y1, m1, d1)
  BY DayHasPosition
<1>2. PICK e2 \in Int, y2, m2, d2 \in Nat : Position(e2, y2, m2, d2) /\ b = DayAt(e2, y2, m2, d2)
  BY DayHasPosition
<1>3. PICK s, t : s = format_day(a) /\ t = format_day(b)
  OBVIOUS
<1>4. s = DateAt(e1, y1, m1, d1) /\ t = DateAt(e2, y2, m2, d2)
  BY <1>1, <1>2, <1>3, FormatOfPosition
<1>5. /\ s[1] = 400 * e1 + y1 + (IF m1 >= 10 THEN 1 ELSE 0)
      /\ s[2] = (IF m1 < 10 THEN m1 + 3 ELSE m1 - 9) /\ s[3] = d1 + 1
      /\ t[1] = 400 * e2 + y2 + (IF m2 >= 10 THEN 1 ELSE 0)
      /\ t[2] = (IF m2 < 10 THEN m2 + 3 ELSE m2 - 9) /\ t[3] = d2 + 1
  BY <1>4 DEF DateAt
<1>6. m1 <= 11 /\ m2 <= 11
  BY <1>1, <1>2 DEF Position
<1>7. PICK z1, z2 \in Int : z1 = 400 * e1 + y1 /\ z2 = 400 * e2 + y2
  OBVIOUS
<1>8. UpTo(s, t) <=> \/ z1 < z2
                     \/ z1 = z2 /\ m1 < m2
                     \/ z1 = z2 /\ m1 = m2 /\ d1 <= d2
  BY <1>5, <1>6, <1>7 DEF UpTo
<1>9. ASSUME UpTo(s, t) PROVE a <= b
  <2>1. CASE z1 = z2 /\ m1 = m2 /\ d1 = d2
    <3>1. e1 = e2 /\ y1 = y2
      BY <1>1, <1>2, <1>7, <2>1 DEF Position
    <3> QED
      BY <1>1, <1>2, <2>1, <3>1
  <2>2. CASE z1 < z2 \/ (z1 = z2 /\ m1 < m2) \/ (z1 = z2 /\ m1 = m2 /\ d1 < d2)
    <3>1. DayAt(e1, y1, m1, d1) < DayAt(e2, y2, m2, d2)
      BY <1>1, <1>2, <1>7, <2>2, DaysInOrder
    <3> QED
      BY <1>1, <1>2, <3>1
  <2> QED
    BY <1>8, <1>9, <2>1, <2>2
<1>10. ASSUME ~UpTo(s, t) PROVE b < a
  <2>1. z2 < z1 \/ (z2 = z1 /\ m2 < m1) \/ (z2 = z1 /\ m2 = m1 /\ d2 < d1)
    BY <1>7, <1>8, <1>10
  <2>2. DayAt(e2, y2, m2, d2) < DayAt(e1, y1, m1, d1)
    BY <1>1, <1>2, <1>7, <2>1, DaysInOrder
  <2> QED
    BY <1>1, <1>2, <2>2
<1> QED
  BY <1>3, <1>9, <1>10

(* So a row is in the window of a query exactly when its day is between    *)
(* the days of the window.                                                 *)
THEOREM WindowsAreDays ==
  \A first, last, day \in Int :
    \A dated \in BOOLEAN :
      InWindow(Window(first, last, dated), format_day(day)) <=> first <= day /\ day <= last
  BY DatesCompareLikeDays DEF InWindow, Window

-----------------------------------------------------------------------------
(* The next position is the next day and the next date.                    *)
LEMMA PositionSteps ==
  ASSUME NEW day \in Int
  PROVE  format_day(day + 1) = DateAfter(format_day(day))
<1>1. PICK e \in Int, y, m, d \in Nat : Position(e, y, m, d) /\ day = DayAt(e, y, m, d)
  BY DayHasPosition
<1>2. y <= 399 /\ m <= 11 /\ d < MonthLength(y, m)
  BY <1>1 DEF Position
<1>3. PICK t : t = format_day(day)
  OBVIOUS
<1>4. t = DateAt(e, y, m, d)
  BY <1>1, <1>3, FormatOfPosition
<1>5. /\ t[1] = 400 * e + y + (IF m >= 10 THEN 1 ELSE 0)
      /\ t[2] = (IF m < 10 THEN m + 3 ELSE m - 9) /\ t[3] = d + 1
  BY <1>4 DEF DateAt
<1>6. days_in_month(t[1], t[2]) = MonthLength(y, m)
  BY <1>1, <1>4, MonthOfPosition
<1>7. /\ MonthStart(m) \in Nat /\ MonthStart(m + 1) \in Nat /\ MonthLength(y, m) \in Nat
      /\ DaysBefore(y) \in Nat
  BY <1>2, MonthStarts DEF MonthLength, DaysBefore
<1>8. CASE d + 1 < MonthLength(y, m)
  <2>1. Position(e, y, m, d + 1)
    BY <1>2, <1>8 DEF Position
  <2>2. DayAt(e, y, m, d + 1) = day + 1
    BY <1>1, <1>7 DEF DayAt
  <2>3. DateAt(e, y, m, d + 1) = DateAfter(t)
    BY <1>5, <1>6, <1>7, <1>8 DEF DateAt, DateAfter
  <2> QED
    BY <1>3, <2>1, <2>2, <2>3, FormatOfPosition
<1>9. CASE d + 1 = MonthLength(y, m) /\ m < 11
  <2>1. Position(e, y, m + 1, 0)
    BY <1>2, <1>9, MonthStarts DEF Position, MonthLength
  <2>2. MonthLength(y, m) = MonthStart(m + 1) - MonthStart(m)
    BY <1>2, <1>9 DEF MonthLength
  <2>3. DayAt(e, y, m + 1, 0) = day + 1
    BY <1>1, <1>7, <1>9, <2>2 DEF DayAt
  <2>4. DateAt(e, y, m + 1, 0) = DateAfter(t)
    BY <1>2, <1>5, <1>6, <1>7, <1>9 DEF DateAt, DateAfter
  <2> QED
    BY <1>3, <2>1, <2>3, <2>4, FormatOfPosition
<1>10. CASE d + 1 = MonthLength(y, m) /\ m = 11
  <2>1. MonthStart(11) = 337 /\ MonthStart(0) = 0
    BY DEF MonthStart
  <2>2. d + 1 = IF LeapAtEnd(y) THEN 29 ELSE 28
    BY <1>10 DEF MonthLength
  <2>3. PICK e2 \in Int, y2 \in Nat : (y < 399 /\ e2 = e /\ y2 = y + 1) \/ (y = 399 /\ e2 = e + 1 /\ y2 = 0)
    BY <1>2
  <2>4. Position(e2, y2, 0, 0)
    BY <1>2, <2>3, MonthStarts DEF Position, MonthLength
  <2>5. 146097 * e2 + DaysBefore(y2) = 146097 * e + DaysBefore(y) + 337 + d + 1
    BY <1>2, <2>2, <2>3 DEF DaysBefore, LeapAtEnd
  <2>6. DayAt(e2, y2, 0, 0) = day + 1
    BY <1>1, <1>7, <1>10, <2>1, <2>5 DEF DayAt
  <2>7. DateAt(e2, y2, 0, 0) = DateAfter(t)
    BY <1>2, <1>5, <1>6, <1>7, <1>10, <2>3 DEF DateAt, DateAfter
  <2> QED
    BY <1>3, <2>4, <2>6, <2>7, FormatOfPosition
<1> QED
  BY <1>2, <1>7, <1>8, <1>9, <1>10

(* The server runs on days of its horizon.                                 *)
DayInv == today \in Horizon

(* And every midnight goes to another day of it.                           *)
LEMMA DayInvariant == Spec => []DayInv
<1>1. Init => DayInv
  BY DEF Init, DayInv
<1>2. DayInv /\ [Next]_vars => DayInv'
  <2> SUFFICES ASSUME DayInv, [Next]_vars PROVE DayInv'
    OBVIOUS
  <2>1. ASSUME NEW k \in Kinds, Serve(k) PROVE DayInv'
    BY <2>1 DEF Serve, DayInv
  <2>2. ASSUME NEW c \in Queries, UsageDaily(c) PROVE DayInv'
    BY <2>2 DEF UsageDaily, Asks, DayInv
  <2>3. ASSUME NEW c \in Queries, UsageErrors(c) PROVE DayInv'
    BY <2>3 DEF UsageErrors, Asks, DayInv
  <2>4. ASSUME NEW c \in Queries, UsageLanguages(c) PROVE DayInv'
    BY <2>4 DEF UsageLanguages, Asks, DayInv
  <2>5. ASSUME NEW c \in Queries, UsageLatency(c) PROVE DayInv'
    BY <2>5 DEF UsageLatency, Asks, DayInv
  <2>6. ASSUME NEW c \in Queries, Refuse(c) PROVE DayInv'
    BY <2>6 DEF Refuse, Asks, DayInv
  <2>7. CASE Respond
    BY <2>7 DEF Respond, DayInv
  <2>8. CASE Midnight
    BY <2>8, UsageQueryAssumption DEF Midnight, DayInv
  <2>9. CASE UNCHANGED vars
    BY <2>9 DEF vars, DayInv
  <2> QED
    BY <2>1, <2>2, <2>3, <2>4, <2>5, <2>6, <2>7, <2>8, <2>9 DEF Next
<1> QED
  BY <1>1, <1>2, PTL DEF Spec

(* Every midnight brings the date after the last, in the calendar with its *)
(* leap years; it sorts after it, and is read back as the new day.         *)
THEOREM CalendarIsRight == Spec => CalendarSteps
<1>1. ASSUME DayInv, [Next]_vars, today' # today
      PROVE  today \in Nat /\ today' = today + 1
  <2>1. today \in Nat
    BY <1>1, UsageQueryAssumption DEF DayInv
  <2>2. CASE Midnight
    BY <2>1, <2>2 DEF Midnight, DayInv
  <2>3. CASE ~Midnight
    BY <1>1, <2>3 DEF Next, vars, Serve, UsageDaily, UsageErrors, UsageLanguages, UsageLatency,
                      Refuse, Respond, Asks
  <2> QED
    BY <2>2, <2>3, <2>1
<1> DEFINE Step ==
      today' # today =>
        /\ format_day(today') = DateAfter(format_day(today))
        /\ UpTo(format_day(today), format_day(today'))
        /\ ~UpTo(format_day(today'), format_day(today))
        /\ parse_day(format_day(today')) = today'
<1>2. DayInv /\ [Next]_vars => Step
  <2> SUFFICES ASSUME DayInv, [Next]_vars, today' # today PROVE Step
    OBVIOUS
  <2>1. PICK a \in Nat : today = a /\ today' = a + 1
    BY <1>1
  <2>2. format_day(a + 1) = DateAfter(format_day(a))
    BY PositionSteps
  <2>3. UpTo(format_day(a), format_day(a + 1)) /\ ~UpTo(format_day(a + 1), format_day(a))
    BY DatesCompareLikeDays
  <2>4. parse_day(format_day(a + 1)) = a + 1
    BY DatesAreReadBack
  <2> QED
    BY <2>1, <2>2, <2>3, <2>4
<1> QED
  BY <1>2, DayInvariant, PTL DEF Spec, CalendarSteps

(* The window a query resolves to holds the rows of exactly the days it is *)
(* about: those between the dates it names, else those the billing period  *)
(* touches, else the last thirty.                                          *)
LEMMA WindowCovers ==
  ASSUME DayInv, NEW c \in Queries, ~Refused(c), NEW day \in Int
  PROVE  InWindow(usage_window(c), format_day(day)) <=> About(c, day)
<1>1. /\ c.start \in Dates \union {Omitted} /\ c.end \in Dates \union {Omitted}
      /\ c.period \in Periods
  BY DEF Queries
<1>2. today \in Int /\ DEFAULT_WINDOW_DAYS \in Nat
  BY UsageQueryAssumption DEF DayInv
<1>3. usage_window(c) # InvalidDateRange
  BY DEF Refused
<1>4. CASE c.start # Omitted
  <2>1. c.end # Omitted
    BY <1>3, <1>4 DEF usage_window, resolve_window
  <2>2. usage_window(c) = Explicit(c.start, c.end)
    BY <1>4, <2>1 DEF usage_window, resolve_window
  <2>3. usage_window(c) = Window(parse_day(c.start), parse_day(c.end), TRUE)
    BY <1>3, <2>2 DEF Explicit
  <2>4. parse_day(c.start) \in Int /\ parse_day(c.end) \in Int
    <3>1. \A t \in Dates : t[1] \in Int /\ t[2] \in Int /\ t[3] \in Int
      BY UsageQueryAssumption
    <3>2. \A t \in Dates : parse_day(t) \in Int
      BY <3>1 DEF parse_day
    <3> QED
      BY <1>1, <1>4, <2>1, <3>2
  <2>5. InWindow(usage_window(c), format_day(day)) <=>
          parse_day(c.start) <= day /\ day <= parse_day(c.end)
    BY <2>3, <2>4, WindowsAreDays
  <2> QED
    BY <1>4, <2>5 DEF About
<1>5. CASE c.start = Omitted
  <2>1. c.end = Omitted
    BY <1>3, <1>5 DEF usage_window, resolve_window
  <2>2. usage_window(c) = DefaultWindow(c.period)
    BY <1>5, <2>1 DEF usage_window, resolve_window
  <2>3. CASE c.period # NoPeriod
    <3>1. PICK p, q \in Nat : c.period[1] = p /\ c.period[2] = q
      BY <1>1, <2>3, UsageQueryAssumption
    <3>2. usage_window(c) = Window(p \div SECONDS_PER_DAY, q \div SECONDS_PER_DAY, FALSE)
      BY <2>2, <2>3, <3>1 DEF DefaultWindow
    <3>3. p \div SECONDS_PER_DAY \in Int /\ q \div SECONDS_PER_DAY \in Int
      BY DEF SECONDS_PER_DAY
    <3>4. InWindow(usage_window(c), format_day(day)) <=>
            p \div SECONDS_PER_DAY <= day /\ day <= q \div SECONDS_PER_DAY
      BY <3>2, <3>3, WindowsAreDays
    <3>5. /\ p \div SECONDS_PER_DAY <= day <=> p < (day + 1) * SECONDS_PER_DAY
          /\ day <= q \div SECONDS_PER_DAY <=> day * SECONDS_PER_DAY <= q
      BY DEF SECONDS_PER_DAY
    <3> QED
      BY <1>5, <2>3, <3>1, <3>4, <3>5 DEF About
  <2>4. CASE c.period = NoPeriod
    <3>1. PICK f, l \in Int : f = today - DEFAULT_WINDOW_DAYS + 1 /\ l = today
      BY <1>2
    <3>2. usage_window(c) = Window(f, l, FALSE)
      BY <2>2, <2>4, <3>1 DEF DefaultWindow
    <3>3. InWindow(usage_window(c), format_day(day)) <=> f <= day /\ day <= l
      BY <3>2, WindowsAreDays
    <3> QED
      BY <1>2, <1>5, <2>4, <3>1, <3>3 DEF About
  <2> QED
    BY <2>3, <2>4
<1> QED
  BY <1>4, <1>5

(* So, of every state: an answer's rows are those of the days its query is *)
(* about.                                                                  *)
THEOREM WindowsCoverQueries ==
  Spec => [](\A c \in Queries : ~Refused(c) =>
               \A day \in Int : InWindow(usage_window(c), format_day(day)) <=> About(c, day))
<1>1. DayInv =>
        \A c \in Queries : ~Refused(c) =>
          \A day \in Int : InWindow(usage_window(c), format_day(day)) <=> About(c, day)
  BY WindowCovers
<1> QED
  BY <1>1, DayInvariant, PTL

-----------------------------------------------------------------------------
(* Pairs in the order of the numbers.                                      *)
Less == {p \in Nat \X Nat : p[1] < p[2]}

(* A set of numbers has a least one. *)
LEMMA Least ==
  ASSUME NEW N, N \subseteq Nat, N # {}
  PROVE  \E n \in N : \A m \in N : n <= m
<1>1. IsWellFoundedOn(Less, Nat)
  BY NatLessThanWellFounded DEF OpToRel, Less
<1>2. PICK n \in N : \A m \in N : ~ (<<m, n>> \in Less)
  BY <1>1, WFMin
<1>3. ASSUME NEW m \in N, ~ (n <= m) PROVE FALSE
  <2>1. m \in Nat /\ n \in Nat /\ m < n
    BY <1>2, <1>3
  <2>2. <<m, n>> \in Less
    BY <2>1 DEF Less
  <2> QED
    BY <1>2, <2>2
<1> QED
  BY <1>2, <1>3

(* Induction over the subsets of a finite set, from the largest one that a *)
(* family closed under adding an element reaches.                          *)
LEMMA ElementByElement ==
  ASSUME NEW S, IsFiniteSet(S), NEW P, {} \in P,
         \A A \in SUBSET S : \A x \in S \ A : A \in P => A \union {x} \in P
  PROVE  S \in P
<1> DEFINE Q == {A \in SUBSET S : A \in P}
           N == {Cardinality(S \ A) : A \in Q}
<1>1. \A A \in Q : IsFiniteSet(S \ A) /\ Cardinality(S \ A) \in Nat
  BY FS_Difference, FS_CardinalityType
<1>2. N \subseteq Nat /\ N # {}
  BY <1>1
<1>3. PICK n \in N : \A m \in N : n <= m
  <2> HIDE DEF N
  <2> QED
    BY <1>2, Least
<1>4. PICK A \in Q : n = Cardinality(S \ A)
  BY <1>3
<1>5. ASSUME NEW x \in S \ A PROVE FALSE
  <2>1. A \union {x} \in Q
    BY <1>4, <1>5
  <2>2. S \ (A \union {x}) = (S \ A) \ {x}
    OBVIOUS
  <2>3. Cardinality((S \ A) \ {x}) = Cardinality(S \ A) - 1
    BY <1>1, <1>4, <1>5, FS_RemoveElement
  <2>4. Cardinality(S \ (A \union {x})) \in N
    BY <2>1
  <2>5. n <= n - 1 /\ n \in Nat
    <3> HIDE DEF N
    <3> QED
      BY <1>1, <1>3, <1>4, <2>2, <2>3, <2>4
  <2> QED
    BY <2>5
<1>6. A = S
  BY <1>4, <1>5
<1> QED
  BY <1>4, <1>6

-----------------------------------------------------------------------------
(* The sum of f over a set, as the community modules define it.            *)
Sum(f, S) == SumFunctionOnSet(f, S)

(* The element the fold takes first.                                       *)
Pick(s) == CHOOSE x \in s : TRUE

(* What the fold over a set computes, by the sets it takes elements from.  *)
Taken(f, F, s) == IF s = {} THEN 0 ELSE f[Pick(s)] + F[s \ {Pick(s)}]

(* The function the fold chooses, and the equation it obeys.               *)
Folded(f, S) == CHOOSE F : F = [s \in SUBSET S |-> Taken(f, F, s)]

Obeys(f, S, F) == \A s \in SUBSET S : F[s] = Taken(f, F, s)

(* SumFunctionOnSet, with its definitions expanded, is this fold.          *)
LEMMA SumIsFolded ==
  ASSUME NEW f, NEW S
  PROVE  Sum(f, S) = Folded(f, S)[S]
  BY DEF Sum, SumFunctionOnSet, FoldFunctionOnSet, MapThenFoldSet, Folded, Taken, Pick

(* Taking the picked element out of a finite set leaves one fewer.         *)
LEMMA PickOne ==
  ASSUME NEW S, IsFiniteSet(S), NEW s \in SUBSET S
  PROVE  /\ Cardinality(s) \in Nat
         /\ s = {} <=> Cardinality(s) = 0
         /\ s # {} => /\ Pick(s) \in s /\ s \ {Pick(s)} \in SUBSET S
                      /\ Cardinality(s \ {Pick(s)}) = Cardinality(s) - 1
<1>1. IsFiniteSet(s) /\ Cardinality(s) \in Nat
  BY FS_Subset, FS_CardinalityType
<1>2. s = {} <=> Cardinality(s) = 0
  BY <1>1, FS_EmptySet
<1>3. s # {} => Pick(s) \in s
  BY DEF Pick
<1> QED
  BY <1>1, <1>2, <1>3, FS_RemoveElement

(* Two functions that obey the equation of the fold are the same.          *)
LEMMA FoldIsUnique ==
  ASSUME NEW S, IsFiniteSet(S), NEW f, NEW D, NEW F,
         Obeys(f, S, D), Obeys(f, S, F)
  PROVE  \A s \in SUBSET S : D[s] = F[s]
<1>1. \A s \in SUBSET S :
        /\ Cardinality(s) \in Nat
        /\ s # {} => /\ Pick(s) \in s /\ s \ {Pick(s)} \in SUBSET S
                     /\ Cardinality(s \ {Pick(s)}) = Cardinality(s) - 1
  BY PickOne
<1> DEFINE Wrong == {Cardinality(s) : s \in {t \in SUBSET S : D[t] # F[t]}}
<1>2. Wrong = {}
  <2> SUFFICES ASSUME Wrong # {} PROVE FALSE
    OBVIOUS
  <2>1. PICK n \in Wrong : \A m \in Wrong : n <= m
    <3>1. \A s \in SUBSET S : Cardinality(s) \in Nat
      BY <1>1
    <3>2. Wrong \subseteq Nat
      BY <3>1
    <3> HIDE DEF Wrong
    <3> QED
      BY <3>2, Least
  <2>2. PICK s \in SUBSET S : D[s] # F[s] /\ n = Cardinality(s)
    BY <2>1
  <2>3. D[s] = Taken(f, D, s) /\ F[s] = Taken(f, F, s)
    BY <2>2 DEF Obeys
  <2>4. s # {}
    BY <2>2, <2>3 DEF Taken
  <2>5. PICK t \in SUBSET S : t = s \ {Pick(s)} /\ Cardinality(t) = n - 1 /\ n \in Nat
    BY <2>2, <2>4, <1>1
  <2>6. D[t] # F[t]
    BY <2>2, <2>3, <2>4, <2>5 DEF Taken
  <2>7. Cardinality(t) \in Wrong
    BY <2>6
  <2>8. n <= n - 1
    <3> HIDE DEF Wrong
    <3> QED
      BY <2>1, <2>5, <2>7
  <2> QED
    BY <2>5, <2>8
<1> QED
  BY <1>2

(* A function that obeys the equation exists, so that the fold's is one:   *)
(* it is put together from those of the smaller sets.                      *)
LEMMA FoldIsDefined ==
  ASSUME NEW S, IsFiniteSet(S), NEW f, \A x \in S : f[x] \in Nat
  PROVE  /\ Folded(f, S) \in [SUBSET S -> Nat]
         /\ Obeys(f, S, Folded(f, S))
<1> DEFINE Level(n, F) == \A s \in SUBSET S : Cardinality(s) <= n => F[s] = Taken(f, F, s)
           Missed == {n \in Nat : ~ \E F \in [SUBSET S -> Nat] : Level(n, F)}
<1>0. \A s \in SUBSET S :
        /\ Cardinality(s) \in Nat
        /\ s = {} <=> Cardinality(s) = 0
        /\ s # {} => /\ Pick(s) \in s /\ s \ {Pick(s)} \in SUBSET S
                     /\ Cardinality(s \ {Pick(s)}) = Cardinality(s) - 1
  BY PickOne
<1>1. \E F \in [SUBSET S -> Nat] : Level(0, F)
  <2> DEFINE Zero == [s \in SUBSET S |-> 0]
  <2>1. ASSUME NEW s \in SUBSET S, Cardinality(s) <= 0 PROVE Zero[s] = Taken(f, Zero, s)
    <3>1. Cardinality(s) \in Nat /\ (Cardinality(s) = 0 => s = {})
      BY <1>0
    <3>2. s = {}
      BY <2>1, <3>1
    <3> QED
      BY <3>2 DEF Taken
  <2> QED
    BY <2>1
<1>2. ASSUME NEW n \in Nat, NEW F \in [SUBSET S -> Nat], Level(n, F)
      PROVE  \E G \in [SUBSET S -> Nat] : Level(n + 1, G)
  <2> DEFINE G == [s \in SUBSET S |-> IF Cardinality(s) = n + 1 THEN Taken(f, F, s) ELSE F[s]]
  <2>1. ASSUME NEW s \in SUBSET S PROVE Taken(f, F, s) \in Nat
    <3>1. s # {} => f[Pick(s)] \in Nat /\ F[s \ {Pick(s)}] \in Nat
      BY <1>0
    <3> QED
      BY <3>1 DEF Taken
  <2>2. G \in [SUBSET S -> Nat]
    BY <2>1
  <2>3. ASSUME NEW s \in SUBSET S, Cardinality(s) <= n + 1 PROVE G[s] = Taken(f, G, s)
    <3>1. Cardinality(s) \in Nat /\ n \in Nat
      BY <1>0
    <3>2. G[s] = Taken(f, F, s)
      <4>1. CASE Cardinality(s) = n + 1
        BY <4>1
      <4>2. CASE Cardinality(s) <= n
        <5>1. Cardinality(s) # n + 1
          BY <3>1, <4>2
        <5> QED
          BY <1>2, <4>2, <5>1
      <4> QED
        BY <2>3, <3>1, <4>1, <4>2
    <3>3. CASE s = {}
      BY <3>2, <3>3 DEF Taken
    <3>4. CASE s # {}
      <4>1. s \ {Pick(s)} \in SUBSET S /\ Cardinality(s \ {Pick(s)}) # n + 1
        BY <2>3, <3>1, <3>4, <1>0
      <4>2. G[s \ {Pick(s)}] = F[s \ {Pick(s)}]
        BY <4>1
      <4> HIDE DEF G
      <4> QED
        BY <3>2, <3>4, <4>2 DEF Taken
    <3> QED
      BY <3>3, <3>4
  <2>4. Level(n + 1, G)
    BY <2>3
  <2> HIDE DEF G
  <2> QED
    BY <2>2, <2>4
<1>3. Missed = {}
  <2> SUFFICES ASSUME Missed # {} PROVE FALSE
    OBVIOUS
  <2>1. PICK n \in Missed : \A m \in Missed : n <= m
    <3>1. Missed \subseteq Nat
      OBVIOUS
    <3> HIDE DEF Missed
    <3> QED
      BY <3>1, Least
  <2>2. n \in Nat /\ n # 0
    BY <1>1
  <2>3. n - 1 \in Nat /\ (n - 1) + 1 = n
    BY <2>2
  <2>4. n - 1 \notin Missed
    <3> HIDE DEF Missed
    <3> QED
      BY <2>1, <2>2, <2>3
  <2>5. PICK F \in [SUBSET S -> Nat] : Level(n - 1, F)
    BY <2>3, <2>4
  <2>6. \E G \in [SUBSET S -> Nat] : Level((n - 1) + 1, G)
    <3> HIDE DEF Level
    <3> QED
      BY <1>2, <2>3, <2>5
  <2> QED
    BY <2>3, <2>6
<1>4. PICK F \in [SUBSET S -> Nat] : Level(Cardinality(S), F)
  <2>1. Cardinality(S) \in Nat
    BY <1>0
  <2> QED
    BY <1>3, <2>1
<1>5. \A s \in SUBSET S : F[s] = Taken(f, F, s)
  <2>1. \A s \in SUBSET S : Cardinality(s) <= Cardinality(S)
    BY FS_Subset
  <2> QED
    BY <1>4, <2>1
<1>6. F = [s \in SUBSET S |-> Taken(f, F, s)]
  BY <1>4, <1>5
<1>7. Folded(f, S) = [s \in SUBSET S |-> Taken(f, Folded(f, S), s)]
  BY <1>6 DEF Folded
<1> DEFINE D == Folded(f, S)
<1>8. DOMAIN D = SUBSET S /\ D = [s \in DOMAIN D |-> D[s]] /\ \A s \in SUBSET S : D[s] = Taken(f, D, s)
  BY <1>7
<1> HIDE DEF D
<1>9. \A s \in SUBSET S : D[s] = F[s]
  <2>1. Obeys(f, S, D) /\ Obeys(f, S, F)
    BY <1>5, <1>8 DEF Obeys
  <2> QED
    BY <2>1, FoldIsUnique
<1>10. D = F
  BY <1>4, <1>8, <1>9
<1>11. Folded(f, S) = F
  BY <1>10 DEF D
<1> QED
  BY <1>4, <1>5, <1>11 DEF Obeys

(* The facts about sums from which all others follow: of no element, of one*)
(* more, and that any element can be taken out.                            *)
LEMMA SumEmpty ==
  ASSUME NEW f
  PROVE  Sum(f, {}) = 0
<1>1. IsFiniteSet({})
  BY FS_EmptySet
<1>2. Obeys(f, {}, Folded(f, {}))
  BY <1>1, FoldIsDefined
<1> QED
  BY <1>2, SumIsFolded DEF Obeys, Taken

(* The sum takes out the element the fold picks.                           *)
LEMMA SumPicks ==
  ASSUME NEW S, IsFiniteSet(S), S # {}, NEW f, \A x \in S : f[x] \in Nat
  PROVE  /\ Pick(S) \in S
         /\ Sum(f, S) \in Nat
         /\ Sum(f, S) = f[Pick(S)] + Sum(f, S \ {Pick(S)})
<1> DEFINE T == S \ {Pick(S)}
<1>1. /\ Pick(S) \in S /\ IsFiniteSet(T) /\ T \in SUBSET S
      /\ \A x \in T : f[x] \in Nat
  BY FS_Subset DEF Pick
<1>2. /\ Obeys(f, S, Folded(f, S)) /\ Folded(f, S)[S] \in Nat
      /\ Obeys(f, T, Folded(f, T))
  <2>1. Folded(f, S) \in [SUBSET S -> Nat] /\ Obeys(f, S, Folded(f, S))
    BY FoldIsDefined
  <2>2. Obeys(f, T, Folded(f, T))
    <3> HIDE DEF T
    <3> QED
      BY <1>1, FoldIsDefined
  <2>3. S \in SUBSET S
    OBVIOUS
  <2> QED
    BY <2>1, <2>2, <2>3
<1>3. Folded(f, S)[T] = Folded(f, T)[T]
  <2>1. Obeys(f, T, Folded(f, S))
    BY <1>1, <1>2 DEF Obeys
  <2> HIDE DEF T
  <2> QED
    BY <1>1, <1>2, <2>1, FoldIsUnique
<1>4. Folded(f, S)[S] = f[Pick(S)] + Folded(f, S)[T]
  BY <1>2 DEF Obeys, Taken
<1> QED
  BY <1>1, <1>2, <1>3, <1>4, SumIsFolded

(* A sum of numbers is a number.                                           *)
LEMMA SumType ==
  ASSUME NEW S, IsFiniteSet(S), NEW f, \A x \in S : f[x] \in Nat
  PROVE  Sum(f, S) \in Nat
<1>1. CASE S = {}
  BY <1>1, SumEmpty
<1>2. CASE S # {}
  BY <1>2, SumPicks
<1> QED
  BY <1>1, <1>2

(* Any element can be taken out: the order a SUM adds in is not part of it. *)
LEMMA SumTakes ==
  ASSUME NEW S, IsFiniteSet(S), NEW f, \A x \in S : f[x] \in Nat, NEW x \in S
  PROVE  Sum(f, S) = f[x] + Sum(f, S \ {x})
<1> DEFINE Holds(A) == \A y \in A : Sum(f, A) = f[y] + Sum(f, A \ {y})
           Wrong == {Cardinality(A) : A \in {B \in SUBSET S : ~Holds(B)}}
<1>1. \A A \in SUBSET S : IsFiniteSet(A) /\ Cardinality(A) \in Nat
  BY FS_Subset, FS_CardinalityType
<1>2. Wrong = {}
  <2> SUFFICES ASSUME Wrong # {} PROVE FALSE
    OBVIOUS
  <2>1. PICK n \in Wrong : \A m \in Wrong : n <= m
    <3>1. Wrong \subseteq Nat
      BY <1>1
    <3> HIDE DEF Wrong
    <3> QED
      BY <3>1, Least
  <2>2. PICK A \in SUBSET S : ~Holds(A) /\ n = Cardinality(A)
    BY <2>1
  <2>3. PICK y \in A : Sum(f, A) # f[y] + Sum(f, A \ {y})
    BY <2>2
  <2>4. PICK p : p = Pick(A)
    OBVIOUS
  <2>5. p \in A /\ Sum(f, A) = f[p] + Sum(f, A \ {p})
    BY <1>1, <2>3, <2>4, SumPicks
  <2>6. p # y
    BY <2>3, <2>5
  <2>7. PICK B \in SUBSET S : B = A \ {p}
    BY <2>2
  <2>8. PICK C \in SUBSET S : C = A \ {y}
    BY <2>2
  <2>9. PICK D \in SUBSET S : D = A \ {p, y}
    BY <2>2
  <2>10. /\ Cardinality(B) \in Nat /\ Cardinality(B) < n
         /\ Cardinality(C) \in Nat /\ Cardinality(C) < n
    <3>1. IsFiniteSet(A) /\ n \in Nat
      BY <1>1, <2>2
    <3>2. Cardinality(A \ {p}) = Cardinality(A) - 1 /\ Cardinality(A \ {y}) = Cardinality(A) - 1
      BY <2>3, <2>5, <3>1, FS_RemoveElement
    <3> QED
      BY <1>1, <2>2, <2>7, <2>8, <3>1, <3>2
  <2>11. Holds(B) /\ Holds(C)
    <3>1. \A E \in SUBSET S : ~Holds(E) => n <= Cardinality(E)
      BY <2>1
    <3>2. n \in Nat
      BY <1>1, <2>2
    <3> HIDE DEF Holds
    <3> QED
      BY <2>10, <3>1, <3>2
  <2>12. y \in B /\ B \ {y} = D /\ p \in C /\ C \ {p} = D
    BY <2>3, <2>5, <2>6, <2>7, <2>8, <2>9
  <2>13. Sum(f, B) = f[y] + Sum(f, D) /\ Sum(f, C) = f[p] + Sum(f, D)
    BY <2>11, <2>12
  <2>14. /\ f[p] \in Nat /\ f[y] \in Nat /\ Sum(f, D) \in Nat
    <3>1. f[p] \in Nat /\ f[y] \in Nat
      BY <2>2, <2>3, <2>5
    <3> QED
      BY <1>1, <2>9, <3>1, SumType
  <2> QED
    BY <2>3, <2>5, <2>7, <2>8, <2>13, <2>14
<1>3. Holds(S)
  BY <1>2
<1> QED
  BY <1>3

(* The same, read from the smaller set.                                    *)
LEMMA SumAdds ==
  ASSUME NEW S, IsFiniteSet(S), NEW f, NEW x, x \notin S, \A y \in S \union {x} : f[y] \in Nat
  PROVE  Sum(f, S \union {x}) = f[x] + Sum(f, S)
<1>1. IsFiniteSet(S \union {x}) /\ (S \union {x}) \ {x} = S
  BY FS_AddElement
<1> QED
  BY <1>1, SumTakes

(* A sum looks at its elements only.                                       *)
LEMMA SumSame ==
  ASSUME NEW S, IsFiniteSet(S), NEW f, NEW g, \A x \in S : f[x] \in Nat /\ f[x] = g[x]
  PROVE  Sum(f, S) = Sum(g, S)
<1> DEFINE P == {A \in SUBSET S : Sum(f, A) = Sum(g, A)}
<1>1. {} \in P
  BY SumEmpty
<1>2. ASSUME NEW A \in SUBSET S, NEW x \in S \ A, A \in P PROVE A \union {x} \in P
  <2>1. IsFiniteSet(A)
    BY FS_Subset
  <2>2. Sum(f, A \union {x}) = f[x] + Sum(f, A)
    BY <2>1, SumAdds
  <2>3. Sum(g, A \union {x}) = g[x] + Sum(g, A)
    BY <2>1, SumAdds
  <2> QED
    BY <1>2, <2>2, <2>3
<1>3. S \in P
  <2> HIDE DEF P
  <2> QED
    BY <1>1, <1>2, ElementByElement
<1> QED
  BY <1>3

(* Sums over sets without a common element add up.                         *)
LEMMA SumJoins ==
  ASSUME NEW S, IsFiniteSet(S), NEW T, IsFiniteSet(T), S \cap T = {},
         NEW f, \A x \in S \union T : f[x] \in Nat
  PROVE  Sum(f, S \union T) = Sum(f, S) + Sum(f, T)
<1> DEFINE P == {A \in SUBSET S : Sum(f, A \union T) = Sum(f, A) + Sum(f, T)}
<1>1. {} \in P
  <2>1. Sum(f, {}) = 0 /\ {} \union T = T /\ Sum(f, T) \in Nat
    BY SumEmpty, SumType
  <2> QED
    BY <2>1
<1>2. ASSUME NEW A \in SUBSET S, NEW x \in S \ A, A \in P PROVE A \union {x} \in P
  <2>1. IsFiniteSet(A) /\ IsFiniteSet(A \union T)
    BY FS_Subset, FS_Union
  <2>2. Sum(f, A \union {x}) = f[x] + Sum(f, A)
    BY <2>1, SumAdds
  <2>3. Sum(f, (A \union T) \union {x}) = f[x] + Sum(f, A \union T)
    <3>1. x \notin A \union T
      OBVIOUS
    <3> QED
      BY <2>1, <3>1, SumAdds
  <2>4. (A \union T) \union {x} = (A \union {x}) \union T
    OBVIOUS
  <2>5. Sum(f, A) \in Nat /\ Sum(f, T) \in Nat /\ f[x] \in Nat
    BY <2>1, SumType
  <2>6. Sum(f, A \union T) = Sum(f, A) + Sum(f, T)
    BY <1>2
  <2>7. Sum(f, (A \union {x}) \union T) = Sum(f, A \union {x}) + Sum(f, T)
    <3>1. Sum(f, A \union {x}) \in Nat /\ Sum(f, A \union T) \in Nat
      BY <2>2, <2>5, <2>6
    <3>2. Sum(f, (A \union {x}) \union T) = f[x] + Sum(f, A \union T)
      BY <2>3, <2>4
    <3> HIDE DEF P
    <3> QED
      BY <2>2, <2>5, <2>6, <3>1, <3>2
  <2> QED
    BY <2>7
<1>3. S \in P
  <2> HIDE DEF P
  <2> QED
    BY <1>1, <1>2, ElementByElement
<1> QED
  BY <1>3

(* A part of a set has no greater sum.                                     *)
LEMMA SumOfPart ==
  ASSUME NEW S, IsFiniteSet(S), NEW T \in SUBSET S, NEW f, \A x \in S : f[x] \in Nat
  PROVE  Sum(f, T) \in Nat /\ Sum(f, T) <= Sum(f, S)
<1>1. IsFiniteSet(T) /\ IsFiniteSet(S \ T) /\ T \cap (S \ T) = {} /\ T \union (S \ T) = S
  BY FS_Subset
<1>2. Sum(f, S) = Sum(f, T) + Sum(f, S \ T)
  <2>1. \A x \in T \union (S \ T) : f[x] \in Nat
    OBVIOUS
  <2> QED
    BY <1>1, <2>1, SumJoins
<1>3. Sum(f, T) \in Nat /\ Sum(f, S \ T) \in Nat
  BY <1>1, SumType
<1> QED
  BY <1>2, <1>3

(* A sum can be taken class by class.                                      *)
At(S, g, t) == {x \in S : g[x] = t}

Into(S, g, T) == {x \in S : g[x] \in T}

(* The sum over T of the sums over the classes is the sum over all that is *)
(* in a class of T.                                                        *)
LEMMA SumOfClasses ==
  ASSUME NEW S, IsFiniteSet(S), NEW f, \A x \in S : f[x] \in Nat,
         NEW T, IsFiniteSet(T), NEW g, NEW h,
         \A t \in T : h[t] = Sum(f, At(S, g, t))
  PROVE  Sum(h, T) = Sum(f, Into(S, g, T))
<1> DEFINE Class(t) == {x \in S : g[x] = t}
           Classes(A) == {x \in S : g[x] \in A}
           P == {A \in SUBSET T : Sum(h, A) = Sum(f, Classes(A))}
<1>1. {} \in P
  <2>1. Classes({}) = {}
    OBVIOUS
  <2> QED
    BY <2>1, SumEmpty
<1>2. \A t \in T : IsFiniteSet(Class(t)) /\ h[t] = Sum(f, Class(t)) /\ h[t] \in Nat
  <2>1. \A t \in T : IsFiniteSet(Class(t)) /\ \A x \in Class(t) : f[x] \in Nat
    BY FS_Subset
  <2> QED
    BY <2>1, SumType DEF At
<1>3. ASSUME NEW A \in SUBSET T, NEW t \in T \ A, A \in P PROVE A \union {t} \in P
  <2>1. IsFiniteSet(A) /\ IsFiniteSet(Classes(A))
    BY FS_Subset
  <2>2. Sum(h, A \union {t}) = h[t] + Sum(h, A)
    BY <1>2, <2>1, SumAdds
  <2>3. Classes(A \union {t}) = Class(t) \union Classes(A) /\ Class(t) \cap Classes(A) = {}
    OBVIOUS
  <2>4. Sum(f, Classes(A \union {t})) = Sum(f, Class(t)) + Sum(f, Classes(A))
    <3>1. IsFiniteSet(Class(t)) /\ \A x \in Class(t) \union Classes(A) : f[x] \in Nat
      BY <1>2
    <3>2. PICK C, D : C = Class(t) /\ D = Classes(A)
      OBVIOUS
    <3>3. Sum(f, C \union D) = Sum(f, C) + Sum(f, D)
      <4> HIDE DEF P, Class, Classes
      <4> QED
        BY <2>1, <2>3, <3>1, <3>2, SumJoins
    <3> QED
      BY <2>3, <3>2, <3>3
  <2> QED
    BY <1>2, <1>3, <2>2, <2>4
<1>4. T \in P
  <2> HIDE DEF P
  <2> QED
    BY <1>1, <1>3, ElementByElement
<1> QED
  BY <1>4 DEF Into

(* One element grows, or joins.                                            *)
LEMMA SumGrows ==
  ASSUME NEW S, IsFiniteSet(S), NEW f, NEW g, NEW x, NEW d \in Nat,
         \A y \in S : f[y] \in Nat,
         \A y \in S \ {x} : g[y] = f[y],
         g[x] = IF x \in S THEN f[x] + d ELSE d
  PROVE  Sum(g, S \union {x}) = Sum(f, S) + d
<1> DEFINE R == S \ {x}
<1>1. IsFiniteSet(R) /\ R \union {x} = S \union {x} /\ x \notin R
  BY FS_RemoveElement
<1>2. g[x] \in Nat /\ \A y \in R : g[y] \in Nat /\ f[y] \in Nat /\ f[y] = g[y]
  OBVIOUS
<1> HIDE DEF R
<1>3. Sum(g, R \union {x}) = g[x] + Sum(g, R)
  BY <1>1, <1>2, SumAdds
<1>4. Sum(g, R) = Sum(f, R) /\ Sum(f, R) \in Nat
  BY <1>1, <1>2, SumSame, SumType
<1>5. Sum(f, S) = IF x \in S THEN f[x] + Sum(f, R) ELSE Sum(f, R)
  <2>1. CASE x \in S
    BY <2>1, SumTakes DEF R
  <2>2. CASE x \notin S
    BY <2>2 DEF R
  <2> QED
    BY <2>1, <2>2
<1> QED
  BY <1>1, <1>3, <1>4, <1>5

(* What a finite set is mapped to is finite.                               *)
LEMMA FiniteImage ==
  ASSUME NEW S, IsFiniteSet(S), NEW g, NEW T, \A t \in T : \E x \in S : g[x] = t
  PROVE  IsFiniteSet(T)
<1> DEFINE U == {x \in S : g[x] \in T}
           h == [x \in U |-> g[x]]
<1>1. IsFiniteSet(U)
  BY FS_Subset
<1>2. h \in Surjection(U, T)
  BY DEF Surjection
<1> HIDE DEF U, h
<1> QED
  BY <1>1, <1>2, FS_Surjection

-----------------------------------------------------------------------------
(* The microseconds of the requests of each kind and day.                  *)
Spent == [s \in DOMAIN served |-> s[2].us * served[s]]

(* The requests that share a row of a table.                               *)
DailyClass(key) == {s \in DOMAIN served : DailyKey(s[2], s[1]) = key}

LatencyClass(key) == {s \in DOMAIN served : LatencyKey(s[2], s[1]) = key}

(* The history is of finitely many kinds and days, each served at least    *)
(* once.                                                                   *)
ServedInv ==
  /\ IsFiniteSet(DOMAIN served) /\ DOMAIN served \subseteq Nat \X Kinds
  /\ \A s \in DOMAIN served : served[s] \in Nat \ {0}

(* usage_daily has a row for exactly the keys of the requests served, and  *)
(* the row's counters are the sums over the requests that share its key.   *)
DailyInv ==
  /\ DOMAIN usage_daily = {DailyKey(s[2], s[1]) : s \in DOMAIN served}
  /\ \A key \in DOMAIN usage_daily :
       /\ usage_daily[key].requests = Sum(served, DailyClass(key))
       /\ usage_daily[key].sum = Sum(Spent, DailyClass(key))

(* The same of usage_latency.                                              *)
LatencyInv ==
  /\ DOMAIN usage_latency = {LatencyKey(s[2], s[1]) : s \in DOMAIN served}
  /\ \A key \in DOMAIN usage_latency : usage_latency[key] = Sum(served, LatencyClass(key))

TablesInv == DayInv /\ ServedInv /\ DailyInv /\ LatencyInv

-----------------------------------------------------------------------------
(* A class that one more request joins, and one that it does not.          *)
LEMMA ClassGrows ==
  ASSUME NEW D, IsFiniteSet(D), NEW f, \A y \in D : f[y] \in Nat, NEW g, NEW x, NEW d \in Nat,
         \A y \in D \ {x} : g[y] = f[y], g[x] = IF x \in D THEN f[x] + d ELSE d,
         NEW C \in SUBSET D
  PROVE  /\ (x \in D => x \in C) => Sum(g, C \union {x}) = Sum(f, C) + d
         /\ x \notin C => Sum(g, C) = Sum(f, C)
<1>1. IsFiniteSet(C) /\ \A y \in C : f[y] \in Nat
  BY FS_Subset
<1>2. ASSUME x \in D => x \in C PROVE Sum(g, C \union {x}) = Sum(f, C) + d
  <2>1. g[x] = IF x \in C THEN f[x] + d ELSE d
    BY <1>2
  <2>2. \A y \in C \ {x} : g[y] = f[y]
    OBVIOUS
  <2> QED
    BY <1>1, <2>1, <2>2, SumGrows
<1>3. ASSUME x \notin C PROVE Sum(g, C) = Sum(f, C)
  <2>1. \A y \in C : f[y] \in Nat /\ f[y] = g[y]
    BY <1>1, <1>3
  <2> QED
    BY <1>1, <2>1, SumSame
<1> QED
  BY <1>2, <1>3

(* Serving one more request of a kind changes the history of that kind on  *)
(* that day and of no other.                                               *)
LEMMA ServedGrows ==
  ASSUME ServedInv, today \in Nat, NEW k \in Kinds,
         served' = Upsert(served, <<today, k>>, Count(served, <<today, k>>) + 1)
  PROVE  /\ ServedInv'
         /\ DOMAIN served' = DOMAIN served \union {<<today, k>>}
         /\ \A y \in DOMAIN served : served[y] \in Nat /\ Spent[y] \in Nat
         /\ \A y \in DOMAIN served \ {<<today, k>>} : served'[y] = served[y] /\ Spent'[y] = Spent[y]
         /\ served'[<<today, k>>] = IF <<today, k>> \in DOMAIN served THEN served[<<today, k>>] + 1 ELSE 1
         /\ Spent'[<<today, k>>] =
              IF <<today, k>> \in DOMAIN served THEN Spent[<<today, k>>] + k.us ELSE k.us
<1>1. PICK x : x = <<today, k>> /\ x[2] = k /\ x \in Nat \X Kinds
  OBVIOUS
<1> DEFINE v == Count(served, x) + 1
<1>0. served' = Upsert(served, x, v)
  BY <1>1
<1>2. /\ DOMAIN served' = DOMAIN served \union {x}
      /\ \A y \in DOMAIN served \ {x} : served'[y] = served[y]
      /\ served'[x] = v
  <2> HIDE DEF v
  <2> QED
    BY <1>0 DEF Upsert
<1>3. k.us \in Nat /\ \A y \in DOMAIN served : served[y] \in Nat \ {0} /\ y[2].us \in Nat
  BY UsageQueryAssumption DEF ServedInv
<1>4. served'[x] = IF x \in DOMAIN served THEN served[x] + 1 ELSE 1
  BY <1>2, <1>3 DEF Count
<1>5. \A y \in DOMAIN served : served[y] \in Nat /\ Spent[y] \in Nat /\ Spent[y] = y[2].us * served[y]
  BY <1>3 DEF Spent
<1>6. \A y \in DOMAIN served' : Spent'[y] = y[2].us * served'[y]
  BY DEF Spent
<1>7. \A y \in DOMAIN served \ {x} : served'[y] = served[y] /\ Spent'[y] = Spent[y]
  BY <1>2, <1>5, <1>6
<1>8. Spent'[x] = IF x \in DOMAIN served THEN Spent[x] + k.us ELSE k.us
  <2>1. Spent'[x] = k.us * served'[x]
    BY <1>1, <1>2, <1>6
  <2>2. CASE x \in DOMAIN served
    BY <1>1, <1>3, <1>4, <1>5, <2>1, <2>2
  <2>3. CASE x \notin DOMAIN served
    BY <1>3, <1>4, <2>1, <2>3
  <2> QED
    BY <2>2, <2>3
<1>9. ServedInv'
  <2>1. IsFiniteSet(DOMAIN served \union {x})
    BY FS_AddElement DEF ServedInv
  <2>2. \A y \in DOMAIN served' : served'[y] \in Nat \ {0}
    BY <1>2, <1>3, <1>4
  <2> QED
    BY <1>1, <1>2, <2>1, <2>2 DEF ServedInv
<1> QED
  BY <1>1, <1>2, <1>4, <1>5, <1>7, <1>8, <1>9

(* flush_usage's upsert of usage_daily: the row of the request's key       *)
(* counts it and its microseconds, every other row keeps its counters.     *)
LEMMA DailyGrows ==
  ASSUME TablesInv, NEW k \in Kinds, Serve(k)
  PROVE  DailyInv'
<1>0. PICK x : x = <<today, k>> /\ x[1] = today /\ x[2] = k
  <2>1. <<today, k>>[1] = today /\ <<today, k>>[2] = k
    OBVIOUS
  <2> QED
    BY <2>1
<1>1. PICK K : x = <<today, k>> /\ K = DailyKey(k, today) /\ K = DailyKey(x[2], x[1])
  BY <1>0
<1>2. today \in Nat /\ ServedInv
  BY UsageQueryAssumption DEF TablesInv, DayInv
<1> DEFINE v == Added(Counters(K), k.us)
<1>3. /\ usage_daily' = Upsert(usage_daily, K, v)
      /\ served' = Upsert(served, x, Count(served, x) + 1)
  BY <1>1 DEF Serve
<1>4. /\ DOMAIN served' = DOMAIN served \union {x}
      /\ \A y \in DOMAIN served : served[y] \in Nat /\ Spent[y] \in Nat
      /\ \A y \in DOMAIN served \ {x} : served'[y] = served[y] /\ Spent'[y] = Spent[y]
      /\ served'[x] = IF x \in DOMAIN served THEN served[x] + 1 ELSE 1
      /\ Spent'[x] = IF x \in DOMAIN served THEN Spent[x] + k.us ELSE k.us
  BY <1>1, <1>2, <1>3, ServedGrows
<1>5. /\ DOMAIN usage_daily' = DOMAIN usage_daily \union {K}
      /\ usage_daily'[K] = v
      /\ \A key \in DOMAIN usage_daily \ {K} : usage_daily'[key] = usage_daily[key]
  <2> HIDE DEF v
  <2> QED
    BY <1>3 DEF Upsert
<1>6. DOMAIN usage_daily' = {DailyKey(s[2], s[1]) : s \in DOMAIN served'}
  BY <1>1, <1>4, <1>5 DEF TablesInv, DailyInv
<1>7. IsFiniteSet(DOMAIN served) /\ k.us \in Nat
  BY <1>2, UsageQueryAssumption DEF ServedInv
<1> DEFINE Grown(f, g, d) == \A C \in SUBSET DOMAIN served :
             /\ (x \in DOMAIN served => x \in C) => Sum(g, C \union {x}) = Sum(f, C) + d
             /\ x \notin C => Sum(g, C) = Sum(f, C)
<1>g. Grown(served, served', 1) /\ Grown(Spent, Spent', k.us)
  <2>1. ASSUME NEW f, NEW g, NEW d \in Nat, \A y \in DOMAIN served : f[y] \in Nat,
               \A y \in DOMAIN served \ {x} : g[y] = f[y],
               g[x] = IF x \in DOMAIN served THEN f[x] + d ELSE d
        PROVE  Grown(f, g, d)
    BY <1>7, <2>1, ClassGrows
  <2>2. Grown(served, served', 1)
    <3> HIDE DEF Grown
    <3> QED
      BY <1>4, <2>1
  <2>3. Grown(Spent, Spent', k.us)
    <3> HIDE DEF Grown
    <3> QED
      BY <1>4, <1>7, <2>1
  <2> QED
    BY <2>2, <2>3
<1>8. ASSUME NEW key
      PROVE  /\ DailyClass(key) \in SUBSET DOMAIN served
             /\ DailyClass(key)' = IF key = K THEN DailyClass(key) \union {x} ELSE DailyClass(key)
             /\ x \in DailyClass(key) <=> x \in DOMAIN served /\ key = K
  BY <1>1, <1>4 DEF DailyClass
<1>9. ASSUME NEW key, key # K
      PROVE  /\ Sum(served, DailyClass(key))' = Sum(served, DailyClass(key))
             /\ Sum(Spent, DailyClass(key))' = Sum(Spent, DailyClass(key))
  <2>1. PICK C \in SUBSET DOMAIN served : C = DailyClass(key) /\ x \notin C /\ DailyClass(key)' = C
    BY <1>8, <1>9
  <2>2. Sum(served', C) = Sum(served, C)
    BY <1>g, <2>1
  <2>3. Sum(Spent', C) = Sum(Spent, C)
    BY <1>g, <2>1
  <2> QED
    BY <2>1, <2>2, <2>3 DEF Sum
<1>10. /\ Sum(served, DailyClass(K))' = Sum(served, DailyClass(K)) + 1
       /\ Sum(Spent, DailyClass(K))' = Sum(Spent, DailyClass(K)) + k.us
  <2>1. PICK C \in SUBSET DOMAIN served :
          C = DailyClass(K) /\ (x \in DOMAIN served => x \in C) /\ DailyClass(K)' = C \union {x}
    BY <1>8
  <2>2. Sum(served', C \union {x}) = Sum(served, C) + 1
    BY <1>g, <2>1
  <2>3. Sum(Spent', C \union {x}) = Sum(Spent, C) + k.us
    BY <1>g, <2>1
  <2> QED
    BY <2>1, <2>2, <2>3 DEF Sum
<1>11. /\ Counters(K).requests = Sum(served, DailyClass(K))
       /\ Counters(K).sum = Sum(Spent, DailyClass(K))
  <2>1. CASE K \in DOMAIN usage_daily
    BY <2>1 DEF Counters, TablesInv, DailyInv
  <2>2. CASE K \notin DOMAIN usage_daily
    <3>1. DailyClass(K) = {}
      BY <2>2 DEF TablesInv, DailyInv, DailyClass
    <3> QED
      BY <2>2, <3>1, SumEmpty DEF Counters
  <2> QED
    BY <2>1, <2>2
<1>12. ASSUME NEW key \in DOMAIN usage_daily'
       PROVE  /\ usage_daily'[key].requests = Sum(served, DailyClass(key))'
              /\ usage_daily'[key].sum = Sum(Spent, DailyClass(key))'
  <2>1. CASE key = K
    BY <1>5, <1>10, <1>11, <2>1 DEF Added
  <2>2. CASE key # K
    BY <1>5, <1>9, <2>2 DEF TablesInv, DailyInv
  <2> QED
    BY <2>1, <2>2
<1> QED
  BY <1>6, <1>12 DEF DailyInv

(* Its upsert of usage_latency: the bucket of the request counts it, every *)
(* other bucket keeps its count.                                           *)
LEMMA LatencyGrows ==
  ASSUME TablesInv, NEW k \in Kinds, Serve(k)
  PROVE  LatencyInv'
<1>0. PICK x : x = <<today, k>> /\ x[1] = today /\ x[2] = k
  <2>1. <<today, k>>[1] = today /\ <<today, k>>[2] = k
    OBVIOUS
  <2> QED
    BY <2>1
<1>1. PICK K : x = <<today, k>> /\ K = LatencyKey(k, today) /\ K = LatencyKey(x[2], x[1])
  BY <1>0
<1>2. today \in Nat /\ ServedInv
  BY UsageQueryAssumption DEF TablesInv, DayInv
<1> DEFINE v == Count(usage_latency, K) + 1
<1>3. /\ usage_latency' = Upsert(usage_latency, K, v)
      /\ served' = Upsert(served, x, Count(served, x) + 1)
  BY <1>1 DEF Serve
<1>4. /\ DOMAIN served' = DOMAIN served \union {x}
      /\ \A y \in DOMAIN served : served[y] \in Nat
      /\ \A y \in DOMAIN served \ {x} : served'[y] = served[y]
      /\ served'[x] = IF x \in DOMAIN served THEN served[x] + 1 ELSE 1
  BY <1>1, <1>2, <1>3, ServedGrows
<1>5. /\ DOMAIN usage_latency' = DOMAIN usage_latency \union {K}
      /\ usage_latency'[K] = v
      /\ \A key \in DOMAIN usage_latency \ {K} : usage_latency'[key] = usage_latency[key]
  <2> HIDE DEF v
  <2> QED
    BY <1>3 DEF Upsert
<1>6. DOMAIN usage_latency' = {LatencyKey(s[2], s[1]) : s \in DOMAIN served'}
  BY <1>1, <1>4, <1>5 DEF TablesInv, LatencyInv
<1>7. IsFiniteSet(DOMAIN served)
  BY <1>2 DEF ServedInv
<1>8. ASSUME NEW C \in SUBSET DOMAIN served
      PROVE  /\ (x \in DOMAIN served => x \in C) => Sum(served', C \union {x}) = Sum(served, C) + 1
             /\ x \notin C => Sum(served', C) = Sum(served, C)
  <2>1. ASSUME NEW f, NEW g, \A y \in DOMAIN served : f[y] \in Nat,
               \A y \in DOMAIN served \ {x} : g[y] = f[y],
               g[x] = IF x \in DOMAIN served THEN f[x] + 1 ELSE 1
        PROVE  /\ (x \in DOMAIN served => x \in C) => Sum(g, C \union {x}) = Sum(f, C) + 1
               /\ x \notin C => Sum(g, C) = Sum(f, C)
    BY <1>7, <2>1, ClassGrows
  <2> QED
    BY <1>4, <2>1
<1>9. ASSUME NEW key
      PROVE  /\ LatencyClass(key) \in SUBSET DOMAIN served
             /\ LatencyClass(key)' = IF key = K THEN LatencyClass(key) \union {x} ELSE LatencyClass(key)
             /\ x \in LatencyClass(key) <=> x \in DOMAIN served /\ key = K
  BY <1>1, <1>4 DEF LatencyClass
<1>10. ASSUME NEW key, key # K PROVE Sum(served, LatencyClass(key))' = Sum(served, LatencyClass(key))
  <2>1. PICK C \in SUBSET DOMAIN served : C = LatencyClass(key) /\ x \notin C /\ LatencyClass(key)' = C
    BY <1>9, <1>10
  <2>2. Sum(served', C) = Sum(served, C)
    BY <1>8, <2>1
  <2> QED
    BY <2>1, <2>2 DEF Sum
<1>11. Sum(served, LatencyClass(K))' = Sum(served, LatencyClass(K)) + 1
  <2>1. PICK C \in SUBSET DOMAIN served :
          C = LatencyClass(K) /\ (x \in DOMAIN served => x \in C) /\ LatencyClass(K)' = C \union {x}
    BY <1>9
  <2>2. Sum(served', C \union {x}) = Sum(served, C) + 1
    BY <1>8, <2>1
  <2> QED
    BY <2>1, <2>2 DEF Sum
<1>12. Count(usage_latency, K) = Sum(served, LatencyClass(K))
  <2>1. CASE K \in DOMAIN usage_latency
    BY <2>1 DEF Count, TablesInv, LatencyInv
  <2>2. CASE K \notin DOMAIN usage_latency
    <3>1. LatencyClass(K) = {}
      BY <2>2 DEF TablesInv, LatencyInv, LatencyClass
    <3> QED
      BY <2>2, <3>1, SumEmpty DEF Count
  <2> QED
    BY <2>1, <2>2
<1>13. ASSUME NEW key \in DOMAIN usage_latency'
       PROVE  usage_latency'[key] = Sum(served, LatencyClass(key))'
  <2>1. CASE key = K
    BY <1>5, <1>11, <1>12, <2>1
  <2>2. CASE key # K
    BY <1>5, <1>10, <2>2 DEF TablesInv, LatencyInv
  <2> QED
    BY <2>1, <2>2
<1> QED
  BY <1>6, <1>13 DEF LatencyInv

(* Every state of the tables is what the requests served make of them.     *)
LEMMA TablesInvariant == Spec => []TablesInv
<1>1. Init => TablesInv
  <2> SUFFICES ASSUME Init PROVE TablesInv
    OBVIOUS
  <2>1. DOMAIN served = {} /\ DOMAIN usage_daily = {} /\ DOMAIN usage_latency = {}
    BY DEF Init
  <2>2. IsFiniteSet(DOMAIN served)
    BY <2>1, FS_EmptySet
  <2> QED
    BY <2>1, <2>2 DEF Init, TablesInv, DayInv, ServedInv, DailyInv, LatencyInv
<1>2. TablesInv /\ [Next]_vars => TablesInv'
  <2> SUFFICES ASSUME TablesInv, [Next]_vars PROVE TablesInv'
    OBVIOUS
  <2>1. ASSUME NEW k \in Kinds, Serve(k) PROVE TablesInv'
    <3>1. DayInv' /\ today \in Nat
      BY <2>1, UsageQueryAssumption DEF Serve, TablesInv, DayInv
    <3>2. ServedInv'
      BY <2>1, <3>1, ServedGrows DEF Serve, TablesInv
    <3> QED
      BY <2>1, <3>1, <3>2, DailyGrows, LatencyGrows DEF TablesInv
  <2>2. CASE UNCHANGED <<usage_daily, usage_latency, served>> /\ today' \in Horizon
    <3>1. DailyInv'
      BY <2>2 DEF TablesInv, DailyInv, DailyClass, Spent, Sum
    <3>2. LatencyInv'
      BY <2>2 DEF TablesInv, LatencyInv, LatencyClass, Sum
    <3> QED
      BY <2>2, <3>1, <3>2 DEF TablesInv, DayInv, ServedInv
  <2>3. CASE \A k \in Kinds : ~Serve(k)
    BY <2>2, <2>3, UsageQueryAssumption
       DEF Next, vars, UsageDaily, UsageErrors, UsageLanguages, UsageLatency, Refuse, Respond,
           Midnight, Asks, TablesInv, DayInv
  <2> QED
    BY <2>1, <2>3
<1> QED
  BY <1>1, <1>2, PTL DEF Spec

-----------------------------------------------------------------------------
(* The requests a query selects.                                           *)
Selected(scope, w) ==
  {s \in DOMAIN served : InScope(scope, s[2].tenant) /\ InWindow(w, format_day(s[1]))}

(* row[s] is the row, among rows, that stands for the request s in Sel.    *)
Rows(rows, Sel, row) ==
  /\ IsFiniteSet(rows)
  /\ \A s \in Sel : row[s] \in rows
  /\ \A r \in rows : /\ \E s \in Sel : row[s] = r
                     /\ r.requests = Sum(served, At(Sel, row, r))

(* SumFunction is the sum over the domain.                                 *)
LEMMA SumIsSum ==
  ASSUME NEW f
  PROVE  SumFunction(f) = Sum(f, DOMAIN f)
  BY DEF SumFunction, Sum

(* Grouping the rows of a table by a column, instead of the requests.      *)
LEMMA Grouping ==
  ASSUME NEW S, IsFiniteSet(S), NEW f, \A x \in S : f[x] \in Nat,
         NEW keys, NEW K, \A t \in keys : \E x \in S : K[x] = t,
         NEW row, NEW h, \A t \in keys : h[t] = Sum(f, At(S, K, t)),
         NEW r
  PROVE  Sum(h, At(keys, row, r)) = Sum(f, At(Into(S, K, keys), [x \in S |-> row[K[x]]], r))
<1> DEFINE T == At(keys, row, r)
<1>1. IsFiniteSet(keys)
  BY FiniteImage
<1>2. IsFiniteSet(T) /\ \A t \in T : h[t] = Sum(f, At(S, K, t))
  <2>1. T \subseteq keys
    BY DEF At
  <2> HIDE DEF T
  <2> QED
    BY <1>1, <2>1, FS_Subset
<1>3. Sum(h, T) = Sum(f, Into(S, K, T))
  <2> HIDE DEF T
  <2> QED
    BY <1>2, SumOfClasses
<1>4. Into(S, K, T) = At(Into(S, K, keys), [x \in S |-> row[K[x]]], r)
  BY DEF At, Into
<1> QED
  BY <1>3, <1>4

(* The sum over some rows is over the requests they stand for.             *)
LEMMA RowSums ==
  ASSUME NEW Sel, IsFiniteSet(Sel), NEW f, \A s \in Sel : f[s] \in Nat,
         NEW rows, IsFiniteSet(rows), NEW row, NEW h, DOMAIN h = rows,
         \A r \in rows : h[r] = Sum(f, At(Sel, row, r))
  PROVE  SumFunction(h) = Sum(f, Into(Sel, row, rows))
<1>1. Sum(h, rows) = Sum(f, Into(Sel, row, rows))
  BY SumOfClasses
<1> QED
  BY <1>1, SumIsSum

(* query_usage_daily returns one row for each day, language, status and    *)
(* slug among the requests it selects, and the row sums those: the keys of *)
(* several tenants fall into one row of the platform's answer.             *)
LEMMA DailyRows ==
  ASSUME TablesInv, NEW scope, NEW w
  PROVE  \E row : LET Sel == Selected(scope, w)
                      rows == query_usage_daily(scope, w) IN
           /\ Rows(rows, Sel, row)
           /\ \A s \in Sel : /\ row[s].day = format_day(s[1]) /\ row[s].language = s[2].language
                             /\ row[s].status = s[2].status /\ row[s].slug = s[2].slug
           /\ \A r \in rows : r.sum = Sum(Spent, At(Sel, row, r))
<1> DEFINE S == DOMAIN served
           Sel == Selected(scope, w)
           keys == {key \in DOMAIN usage_daily : InScope(scope, key.tenant) /\ InWindow(w, key.day)}
           group(key) == {other \in keys : /\ other.day = key.day /\ other.language = key.language
                                           /\ other.status = key.status /\ other.slug = key.slug}
           Row(key) ==
             [day |-> key.day, language |-> key.language, status |-> key.status, slug |-> key.slug,
              requests |-> SumFunction([g \in group(key) |-> usage_daily[g].requests]),
              sum |-> SumFunction([g \in group(key) |-> usage_daily[g].sum])]
           by == [key \in keys |-> Row(key)]
           K == [s \in S |-> DailyKey(s[2], s[1])]
           row == [s \in S |-> by[K[s]]]
           rows == query_usage_daily(scope, w)
<1>1. rows = {Row(key) : key \in keys}
  BY DEF query_usage_daily
<1>2. /\ IsFiniteSet(S) /\ \A s \in S : served[s] \in Nat /\ Spent[s] \in Nat
      /\ \A s \in S : K[s] \in DOMAIN usage_daily
      /\ \A key \in DOMAIN usage_daily : \E s \in S : K[s] = key
  <2>1. \A s \in S : s[2] \in Kinds /\ s[2].us \in Nat /\ served[s] \in Nat
    BY UsageQueryAssumption DEF TablesInv, ServedInv
  <2>2. \A s \in S : Spent[s] \in Nat
    BY <2>1 DEF Spent
  <2> QED
    BY <2>1, <2>2 DEF TablesInv, ServedInv, DailyInv
<1>3. Sel = Into(S, K, keys)
  BY <1>2 DEF Selected, DailyKey, Into
<1>4. \A s \in S : /\ K[s].day = format_day(s[1]) /\ K[s].language = s[2].language
                   /\ K[s].status = s[2].status /\ K[s].slug = s[2].slug
  BY DEF DailyKey
<1>5. \A key \in keys : group(key) = At(keys, by, by[key])
  <2>1. ASSUME NEW key \in keys, NEW t \in keys PROVE t \in group(key) <=> Row(t) = Row(key)
    <3>1. ASSUME t \in group(key) PROVE Row(t) = Row(key)
      <4>1. group(t) = group(key)
        BY <3>1
      <4>2. /\ t.day = key.day /\ t.language = key.language
            /\ t.status = key.status /\ t.slug = key.slug
        BY <3>1
      <4> HIDE DEF group
      <4> QED
        BY <4>1, <4>2
    <3>2. ASSUME Row(t) = Row(key) PROVE t \in group(key)
      <4>1. /\ Row(t).day = t.day /\ Row(t).language = t.language
            /\ Row(t).status = t.status /\ Row(t).slug = t.slug
            /\ Row(key).day = key.day /\ Row(key).language = key.language
            /\ Row(key).status = key.status /\ Row(key).slug = key.slug
        <5> HIDE DEF group
        <5> QED
          OBVIOUS
      <4> HIDE DEF Row
      <4> QED
        BY <3>2, <4>1
    <3> QED
      BY <3>1, <3>2
  <2> HIDE DEF Row, group
  <2> QED
    BY <2>1 DEF group, At
<1>6. /\ \A key \in keys : usage_daily[key].requests = Sum(served, At(S, K, key))
      /\ \A key \in keys : usage_daily[key].sum = Sum(Spent, At(S, K, key))
  <2>1. \A key : DailyClass(key) = At(S, K, key)
    BY DEF DailyClass, At
  <2> QED
    BY <2>1 DEF TablesInv, DailyInv
<1>7. ASSUME NEW f, \A s \in S : f[s] \in Nat, NEW h,
             \A t \in keys : h[t] = Sum(f, At(S, K, t)), NEW key \in keys,
             NEW n, DOMAIN n = group(key), \A t \in group(key) : n[t] = h[t]
      PROVE  SumFunction(n) = Sum(f, At(Sel, row, by[key]))
  <2>1. \A t \in keys : \E s \in S : K[s] = t
    BY <1>2
  <2>2. Sum(h, At(keys, by, by[key])) = Sum(f, At(Sel, row, by[key]))
    <3> HIDE DEF by, K, keys, S
    <3> QED
      BY <1>2, <1>3, <1>7, <2>1, Grouping DEF row
  <2>3. \A t \in group(key) : h[t] \in Nat
    <3>1. \A t \in group(key) : IsFiniteSet(At(S, K, t)) /\ \A s \in At(S, K, t) : f[s] \in Nat
      BY <1>2, <1>7, FS_Subset DEF At
    <3>2. \A t \in group(key) : Sum(f, At(S, K, t)) \in Nat
      <4> HIDE DEF K, S, group
      <4> QED
        BY <3>1, SumType
    <3> QED
      BY <1>7, <3>2
  <2>4. Sum(n, group(key)) = Sum(h, group(key))
    <3>1. IsFiniteSet(keys) /\ group(key) \subseteq keys
      <4>1. IsFiniteSet(keys)
        <5> HIDE DEF K, S, keys
        <5> QED
          BY <1>2, <2>1, FiniteImage
      <4> QED
        BY <4>1
    <3>2. IsFiniteSet(group(key))
      BY <3>1, FS_Subset
    <3> HIDE DEF group, keys
    <3> QED
      BY <1>7, <2>3, <3>2, SumSame
  <2>5. SumFunction(n) = Sum(n, group(key))
    BY <1>7, SumIsSum
  <2> HIDE DEF group, by, K, keys, S, row
  <2> QED
    BY <1>5, <2>2, <2>4, <2>5
<1>8. \A r \in rows : \E key \in keys : r = Row(key) /\ r = by[key]
  BY <1>1
<1>9. \A s \in Sel : s \in S /\ K[s] \in keys /\ row[s] = by[K[s]] /\ row[s] = Row(K[s]) /\ row[s] \in rows
  <2>1. \A s \in Sel : s \in S /\ K[s] \in keys
    BY <1>3 DEF Into
  <2> HIDE DEF Row, keys
  <2> QED
    BY <1>1, <2>1
<1>10. \A s \in Sel : /\ row[s].day = format_day(s[1]) /\ row[s].language = s[2].language
                      /\ row[s].status = s[2].status /\ row[s].slug = s[2].slug
  <2>1. \A key \in keys : /\ Row(key).day = key.day /\ Row(key).language = key.language
                          /\ Row(key).status = key.status /\ Row(key).slug = key.slug
    <3> HIDE DEF group
    <3> QED
      OBVIOUS
  <2> HIDE DEF Row, K, row, by, keys
  <2> QED
    BY <1>4, <1>9, <2>1
<1>11. ASSUME NEW r \in rows
       PROVE  /\ \E s \in Sel : row[s] = r
              /\ r.requests = Sum(served, At(Sel, row, r))
              /\ r.sum = Sum(Spent, At(Sel, row, r))
  <2>1. PICK key \in keys : r = Row(key) /\ r = by[key]
    BY <1>8
  <2> DEFINE q == [t \in keys |-> usage_daily[t].requests]
             u == [t \in keys |-> usage_daily[t].sum]
             nq == [t \in group(key) |-> usage_daily[t].requests]
             nu == [t \in group(key) |-> usage_daily[t].sum]
  <2>2. r.requests = SumFunction(nq) /\ r.sum = SumFunction(nu)
    <3> HIDE DEF group
    <3> QED
      BY <2>1
  <2>3. /\ \A t \in keys : q[t] = Sum(served, At(S, K, t))
        /\ \A t \in keys : u[t] = Sum(Spent, At(S, K, t))
        /\ DOMAIN nq = group(key) /\ \A t \in group(key) : nq[t] = q[t]
        /\ DOMAIN nu = group(key) /\ \A t \in group(key) : nu[t] = u[t]
    BY <1>6
  <2>4. SumFunction(nq) = Sum(served, At(Sel, row, r)) /\ SumFunction(nu) = Sum(Spent, At(Sel, row, r))
    <3> HIDE DEF q, u, nq, nu, S, K, by, keys, group, row, Sel
    <3>1. SumFunction(nq) = Sum(served, At(Sel, row, by[key]))
      BY <1>2, <1>7, <2>3
    <3>2. SumFunction(nu) = Sum(Spent, At(Sel, row, by[key]))
      BY <1>2, <1>7, <2>3
    <3> QED
      BY <2>1, <3>1, <3>2
  <2>5. \E s \in Sel : row[s] = r
    <3>1. PICK s \in S : K[s] = key
      BY <1>2
    <3>2. s \in Sel
      BY <1>3, <3>1 DEF Into
    <3> HIDE DEF K, row, by, keys
    <3> QED
      BY <1>9, <2>1, <3>1, <3>2
  <2> QED
    BY <2>2, <2>4, <2>5
<1>12. IsFiniteSet(rows)
  <2>1. IsFiniteSet(Sel)
    BY <1>2, FS_Subset DEF Selected
  <2> HIDE DEF row, Sel, rows
  <2> QED
    BY <1>11, <2>1, FiniteImage
<1>13. Rows(rows, Sel, row)
  <2> HIDE DEF row, rows, Sel
  <2> QED
    BY <1>9, <1>11, <1>12 DEF Rows
<1> HIDE DEF row, rows, Sel
<1>14. /\ Rows(rows, Sel, row)
       /\ \A s \in Sel : /\ row[s].day = format_day(s[1]) /\ row[s].language = s[2].language
                         /\ row[s].status = s[2].status /\ row[s].slug = s[2].slug
       /\ \A r \in rows : r.sum = Sum(Spent, At(Sel, row, r))
  BY <1>10, <1>11, <1>13
<1> QED
  BY <1>14 DEF rows, Sel

(* query_usage_latency returns one row for each day and bucket among them. *)
LEMMA LatencyRows ==
  ASSUME TablesInv, NEW scope, NEW w
  PROVE  \E row : LET Sel == Selected(scope, w)
                      rows == query_usage_latency(scope, w) IN
           /\ Rows(rows, Sel, row)
           /\ \A s \in Sel : row[s].day = format_day(s[1]) /\ row[s].bucket = bucket_for(s[2].us)
<1> DEFINE S == DOMAIN served
           Sel == Selected(scope, w)
           keys == {key \in DOMAIN usage_latency : InScope(scope, key.tenant) /\ InWindow(w, key.day)}
           group(key) == {other \in keys : other.day = key.day /\ other.bucket = key.bucket}
           Row(key) == [day |-> key.day, bucket |-> key.bucket,
                        requests |-> SumFunctionOnSet(usage_latency, group(key))]
           by == [key \in keys |-> Row(key)]
           K == [s \in S |-> LatencyKey(s[2], s[1])]
           row == [s \in S |-> by[K[s]]]
           rows == query_usage_latency(scope, w)
<1>1. rows = {Row(key) : key \in keys}
  BY DEF query_usage_latency
<1>2. /\ IsFiniteSet(S) /\ \A s \in S : served[s] \in Nat
      /\ \A s \in S : K[s] \in DOMAIN usage_latency
      /\ \A key \in DOMAIN usage_latency : \E s \in S : K[s] = key
  BY DEF TablesInv, ServedInv, LatencyInv
<1>4. \A s \in S : /\ K[s].day = format_day(s[1]) /\ K[s].bucket = bucket_for(s[2].us)
                   /\ K[s].tenant = s[2].tenant
  BY DEF LatencyKey
<1>3. Sel = Into(S, K, keys)
  <2> HIDE DEF K
  <2> QED
    BY <1>2, <1>4 DEF Selected, Into
<1>5. \A key \in keys : group(key) = At(keys, by, by[key])
  <2>1. ASSUME NEW key \in keys, NEW t \in keys PROVE t \in group(key) <=> Row(t) = Row(key)
    <3>1. ASSUME t \in group(key) PROVE Row(t) = Row(key)
      <4>1. group(t) = group(key)
        BY <3>1
      <4>2. t.day = key.day /\ t.bucket = key.bucket
        BY <3>1
      <4> HIDE DEF group
      <4> QED
        BY <4>1, <4>2
    <3>2. ASSUME Row(t) = Row(key) PROVE t \in group(key)
      <4>1. /\ Row(t).day = t.day /\ Row(t).bucket = t.bucket
            /\ Row(key).day = key.day /\ Row(key).bucket = key.bucket
        <5> HIDE DEF group
        <5> QED
          OBVIOUS
      <4> HIDE DEF Row
      <4> QED
        BY <3>2, <4>1
    <3> QED
      BY <3>1, <3>2
  <2> HIDE DEF Row, group
  <2> QED
    BY <2>1 DEF group, At
<1>6. \A key \in keys : usage_latency[key] = Sum(served, At(S, K, key))
  <2>1. \A key : LatencyClass(key) = At(S, K, key)
    BY DEF LatencyClass, At
  <2> QED
    BY <2>1 DEF TablesInv, LatencyInv
<1>8. \A r \in rows : \E key \in keys : r = Row(key) /\ r = by[key]
  BY <1>1
<1>9. \A s \in Sel : s \in S /\ K[s] \in keys /\ row[s] = by[K[s]] /\ row[s] = Row(K[s]) /\ row[s] \in rows
  <2>1. \A s \in Sel : s \in S /\ K[s] \in keys
    BY <1>3 DEF Into
  <2> HIDE DEF Row, keys
  <2> QED
    BY <1>1, <2>1
<1>10. \A s \in Sel : row[s].day = format_day(s[1]) /\ row[s].bucket = bucket_for(s[2].us)
  <2>1. \A key \in keys : Row(key).day = key.day /\ Row(key).bucket = key.bucket
    <3> HIDE DEF group
    <3> QED
      OBVIOUS
  <2> HIDE DEF Row, K, row, by, keys
  <2> QED
    BY <1>4, <1>9, <2>1
<1>11. ASSUME NEW r \in rows
       PROVE  (\E s \in Sel : row[s] = r) /\ r.requests = Sum(served, At(Sel, row, r))
  <2>1. PICK key \in keys : r = Row(key) /\ r = by[key]
    BY <1>8
  <2>2. r.requests = Sum(usage_latency, group(key))
    <3> HIDE DEF group
    <3> QED
      BY <2>1 DEF Sum
  <2>3. \A t \in keys : \E s \in S : K[s] = t
    BY <1>2
  <2>4. Sum(usage_latency, At(keys, by, by[key])) = Sum(served, At(Sel, row, by[key]))
    <3> HIDE DEF by, K, keys, S
    <3> QED
      BY <1>2, <1>3, <1>6, <2>3, Grouping DEF row
  <2>5. \E s \in Sel : row[s] = r
    <3>1. PICK s \in S : K[s] = key
      BY <1>2
    <3>2. s \in Sel
      BY <1>3, <3>1 DEF Into
    <3> HIDE DEF K, row, by, keys
    <3> QED
      BY <1>9, <2>1, <3>1, <3>2
  <2> HIDE DEF by, K, keys, group, row, Sel
  <2> QED
    BY <1>5, <2>1, <2>2, <2>4, <2>5
<1>12. IsFiniteSet(rows)
  <2>1. IsFiniteSet(Sel)
    BY <1>2, FS_Subset DEF Selected
  <2> HIDE DEF row, Sel, rows
  <2> QED
    BY <1>11, <2>1, FiniteImage
<1>13. Rows(rows, Sel, row)
  <2> HIDE DEF row, rows, Sel
  <2> QED
    BY <1>9, <1>11, <1>12 DEF Rows
<1> HIDE DEF row, rows, Sel
<1> QED
  BY <1>10, <1>13 DEF rows, Sel

-----------------------------------------------------------------------------
(* What the last query found, and what it answered: the rows of the tables *)
(* have not changed since, nor has the day.                                *)
FoundDaily == query_usage_daily(Asked.scope, usage_window(Asked))

FoundLatency == query_usage_latency(Asked.scope, usage_window(Asked))

Chosen == Selected(Asked.scope, usage_window(Asked))

(* The rows of an answer are the aggregate of what the query found, and    *)
(* the query was not refused.                                              *)
AnswerInv ==
  /\ answer.route \in {"none", "refused", "daily", "errors", "languages", "latency"}
  /\ answer.route \in {"daily", "errors", "languages", "latency"} => Asked \in Queries /\ ~Refused(Asked)
  /\ answer.route = "daily" => answer.rows = aggregate_daily(FoundDaily)
  /\ answer.route = "errors" => answer.rows = aggregate_errors(FoundDaily, usage_window(Asked).dated)
  /\ answer.route = "languages" =>
       answer.rows = aggregate_languages(FoundDaily, usage_window(Asked).dated)
  /\ answer.route = "latency" =>
       \E order \in Orders(FoundLatency, usage_window(Asked).dated) :
         answer.rows = aggregate_latency(order, FoundLatency, usage_window(Asked).dated)

(* An answer is what the tables had when it was made.                      *)
LEMMA AnswerInvariant == Spec => []AnswerInv
<1>1. ASSUME answer.route = "none" PROVE AnswerInv
  BY <1>1 DEF AnswerInv
<1>2. Init => AnswerInv
  BY <1>1 DEF Init, Silent
<1>3. AnswerInv /\ [Next]_vars => AnswerInv'
  <2> SUFFICES ASSUME AnswerInv, [Next]_vars PROVE AnswerInv'
    OBVIOUS
  <2>1. CASE answer' = Silent
    BY <2>1 DEF AnswerInv, Silent
  <2>2. ASSUME NEW route, NEW c \in Queries, NEW rows, Asks(c), Answered(route, c, rows)
        PROVE  /\ answer.route' = route /\ answer.rows' = rows /\ Asked' = c
               /\ usage_window(Asked)' = usage_window(c) /\ (Refused(Asked)' <=> Refused(c))
               /\ FoundDaily' = query_usage_daily(c.scope, usage_window(c))
               /\ FoundLatency' = query_usage_latency(c.scope, usage_window(c))
    <3>1. answer.route' = route /\ answer.rows' = rows /\ answer.query' = c
      BY <2>2 DEF Answered
    <3>2. today' = today /\ usage_daily' = usage_daily /\ usage_latency' = usage_latency
      BY <2>2 DEF Asks
    <3>3. Asked' = c
      BY <3>1 DEF Asked
    <3>4. usage_window(Asked)' = usage_window(c)
      BY <3>2, <3>3 DEF usage_window, resolve_window, DefaultWindow
    <3>5. Refused(Asked)' <=> Refused(c)
      BY <3>4 DEF Refused
    <3>6. FoundDaily' = query_usage_daily(c.scope, usage_window(c))
      BY <3>2, <3>3, <3>4 DEF FoundDaily, query_usage_daily
    <3>7. FoundLatency' = query_usage_latency(c.scope, usage_window(c))
      BY <3>2, <3>3, <3>4 DEF FoundLatency, query_usage_latency
    <3> QED
      BY <3>1, <3>3, <3>4, <3>5, <3>6, <3>7
  <2>3. ASSUME NEW c \in Queries, UsageDaily(c) PROVE AnswerInv'
    BY <2>2, <2>3 DEF UsageDaily, AnswerInv
  <2>4. ASSUME NEW c \in Queries, UsageErrors(c) PROVE AnswerInv'
    BY <2>2, <2>4 DEF UsageErrors, AnswerInv
  <2>5. ASSUME NEW c \in Queries, UsageLanguages(c) PROVE AnswerInv'
    BY <2>2, <2>5 DEF UsageLanguages, AnswerInv
  <2>6. ASSUME NEW c \in Queries, UsageLatency(c) PROVE AnswerInv'
    BY <2>2, <2>6 DEF UsageLatency, AnswerInv
  <2>7. ASSUME NEW c \in Queries, Refuse(c) PROVE AnswerInv'
    BY <2>2, <2>7 DEF Refuse, AnswerInv
  <2>8. CASE UNCHANGED vars
    <3>1. today' = today /\ usage_daily' = usage_daily /\ usage_latency' = usage_latency /\ answer' = answer
      BY <2>8 DEF vars
    <3>2. Asked' = Asked
      BY <3>1 DEF Asked
    <3>3. usage_window(Asked)' = usage_window(Asked)
      BY <3>1, <3>2 DEF usage_window, resolve_window, DefaultWindow
    <3>4. Refused(Asked)' <=> Refused(Asked)
      BY <3>3 DEF Refused
    <3>5. FoundDaily' = FoundDaily /\ FoundLatency' = FoundLatency
      BY <3>1, <3>2, <3>3 DEF FoundDaily, FoundLatency, query_usage_daily, query_usage_latency
    <3> QED
      BY <3>1, <3>2, <3>3, <3>4, <3>5 DEF AnswerInv
  <2>9. CASE Respond \/ Midnight \/ \E k \in Kinds : Serve(k)
    BY <2>1, <2>9 DEF Respond, Midnight, Serve
  <2> QED
    BY <2>3, <2>4, <2>5, <2>6, <2>7, <2>8, <2>9 DEF Next
<1> QED
  BY <1>2, <1>3, PTL DEF Spec

(* No day has the date that stands for none.                               *)
LEMMA DatesAreNamed ==
  ASSUME NEW day \in Int
  PROVE  format_day(day) # Omitted
<1>1. \A a, b, c : <<a, b, c>> # <<>>
  OBVIOUS
<1>2. PICK e \in Int, y, m, d \in Nat : Position(e, y, m, d) /\ day = DayAt(e, y, m, d)
  BY DayHasPosition
<1>3. format_day(day) = DateAt(e, y, m, d)
  BY <1>2, FormatOfPosition
<1> QED
  BY <1>1, <1>3 DEF DateAt, Omitted

(* What the property takes from the requests is what the query selected.   *)
LEMMA OwnIsSelected ==
  ASSUME TablesInv, Asked \in Queries, ~Refused(Asked), NEW date
  PROVE  /\ Own(date) = {s \in Chosen : date # Omitted => format_day(s[1]) = date}
         /\ IsFiniteSet(Chosen)
         /\ \A s \in Chosen : /\ s \in DOMAIN served /\ s[1] \in Int /\ s[2] \in Kinds /\ s[2].us \in Nat
                              /\ served[s] \in Nat \ {0} /\ Spent[s] = s[2].us * served[s]
<1>1. /\ IsFiniteSet(DOMAIN served)
      /\ \A s \in DOMAIN served : /\ s[1] \in Int /\ s[2] \in Kinds /\ s[2].us \in Nat
                                  /\ served[s] \in Nat \ {0}
  BY UsageQueryAssumption DEF TablesInv, ServedInv
<1>2. \A s \in DOMAIN served : InWindow(usage_window(Asked), format_day(s[1])) <=> Covered(s[1])
  BY <1>1, WindowCovers DEF Covered, TablesInv
<1>3. Own(date) = {s \in Chosen : date # Omitted => format_day(s[1]) = date}
  BY <1>2 DEF Own, Chosen, Selected, InScope
<1>4. IsFiniteSet(Chosen)
  BY <1>1, FS_Subset DEF Chosen, Selected
<1>5. \A s \in Chosen : s \in DOMAIN served /\ Spent[s] = s[2].us * served[s]
  BY DEF Chosen, Selected, Spent
<1> QED
  BY <1>1, <1>3, <1>4, <1>5

-----------------------------------------------------------------------------
(* What a division of numbers leaves.                                      *)
LEMMA Divided ==
  ASSUME NEW a \in Nat, NEW n \in Nat \ {0}
  PROVE  a \div n \in Nat /\ n * (a \div n) <= a /\ a < n * ((a \div n) + 1)
  OBVIOUS

(* aggregate_daily divides twice, by the requests and by 1000: the average *)
(* is still the whole milliseconds of the exact one.                       *)
LEMMA Average ==
  ASSUME NEW us \in Nat, NEW n \in Nat \ {0}, NEW a, a = (us \div n) \div 1000
  PROVE  1000 * a * n <= us /\ us < 1000 * (a + 1) * n
<1>1. PICK q \in Nat : q = us \div n /\ n * q <= us /\ us < n * (q + 1)
  BY Divided
<1>2. a \in Nat /\ 1000 * a <= q /\ q < 1000 * (a + 1)
  BY <1>1
<1>3. n * (1000 * a) <= n * q
  BY <1>2
<1>4. n * (q + 1) <= n * (1000 * (a + 1))
  BY <1>2
<1> QED
  BY <1>1, <1>2, <1>3, <1>4

(* aggregate_languages rounds to the nearest tenth of a percent.           *)
LEMMA Nearest ==
  ASSUME NEW c \in Nat, NEW t \in Nat \ {0}, NEW m, m = (2000 * c + t) \div (2 * t)
  PROVE  2 * (m * t - 1000 * c) \in -t .. t
<1>1. m \in Nat /\ (2 * t) * m <= 2000 * c + t /\ 2000 * c + t < (2 * t) * (m + 1)
  <2>1. PICK w \in Nat \ {0}, v \in Nat : w = 2 * t /\ v = 2000 * c + t
    OBVIOUS
  <2>2. v \div w \in Nat /\ w * (v \div w) <= v /\ v < w * ((v \div w) + 1)
    BY Divided
  <2> QED
    BY <2>1, <2>2
<1>2. PICK p \in Nat : p = m * t
  BY <1>1
<1>3. (2 * t) * m = 2 * p /\ (2 * t) * (m + 1) = 2 * p + 2 * t
  BY <1>1, <1>2
<1> QED
  BY <1>1, <1>2, <1>3

(* The requests of some of the rows a query found.                         *)
LEMMA RequestsOf ==
  ASSUME NEW Sel, IsFiniteSet(Sel), \A s \in Sel : served[s] \in Nat \ {0},
         NEW rows, NEW row, Rows(rows, Sel, row), NEW R \in SUBSET rows
  PROVE  /\ Requests(R) = Sum(served, Into(Sel, row, R))
         /\ Requests(R) \in Nat
         /\ R # {} => Requests(R) # 0
<1> DEFINE h == [r \in R |-> r.requests]
<1>1. /\ IsFiniteSet(R) /\ DOMAIN h = R
      /\ \A r \in R : h[r] = Sum(served, At(Sel, row, r))
  BY FS_Subset DEF Rows
<1>2. SumFunction(h) = Sum(served, Into(Sel, row, R))
  <2> HIDE DEF h
  <2> QED
    BY <1>1, RowSums
<1>3. IsFiniteSet(Into(Sel, row, R)) /\ \A s \in Into(Sel, row, R) : served[s] \in Nat \ {0}
  BY FS_Subset DEF Into
<1>4. Sum(served, Into(Sel, row, R)) \in Nat
  BY <1>3, SumType
<1>5. ASSUME R # {} PROVE Sum(served, Into(Sel, row, R)) # 0
  <2>1. PICK s : s \in Into(Sel, row, R)
    BY <1>5 DEF Rows, Into
  <2>2. PICK I : I = Into(Sel, row, R)
    OBVIOUS
  <2>3. Sum(served, I) = served[s] + Sum(served, I \ {s})
    BY <1>3, <2>1, <2>2, SumTakes
  <2>4. IsFiniteSet(I \ {s}) /\ \A x \in I \ {s} : served[x] \in Nat
    BY <1>3, <2>2, FS_Subset
  <2>5. Sum(served, I \ {s}) \in Nat
    BY <2>4, SumType
  <2> QED
    BY <1>3, <2>1, <2>2, <2>3, <2>5
<1> QED
  BY <1>2, <1>4, <1>5 DEF Requests

(* The lines of an answer, each the sum over the requests it stands for.   *)
Onto(line, Sel, lines) ==
  (\A s \in Sel : line[s] \in lines) /\ \A l \in lines : \E s \in Sel : line[s] = l

(* If each request is in exactly one line, the lines add up to the         *)
(* requests.                                                               *)
LEMMA LinesSum ==
  ASSUME NEW Sel, IsFiniteSet(Sel), NEW f, \A s \in Sel : f[s] \in Nat,
         NEW lines, NEW line, Onto(line, Sel, lines),
         NEW h, DOMAIN h = lines, \A l \in lines : h[l] = Sum(f, At(Sel, line, l))
  PROVE  SumFunction(h) = Sum(f, Sel)
<1>1. IsFiniteSet(lines)
  BY FiniteImage DEF Onto
<1>2. SumFunction(h) = Sum(f, Into(Sel, line, lines))
  BY <1>1, RowSums
<1>3. Into(Sel, line, lines) = Sel
  BY DEF Into, Onto
<1> QED
  BY <1>2, <1>3

(* The average of a line, cut to whole milliseconds.                       *)
Averaged(l, us) ==
  1000 * l.average * l.requests <= us /\ us < 1000 * (l.average + 1) * l.requests

(* aggregate_daily: each date's line counts the requests of its day, those *)
(* that failed, and their average.                                         *)
LEMMA DailyIsRight ==
  ASSUME TablesInv, AnswerInv, answer.route = "daily"
  PROVE  DailyMatches
<1> DEFINE rows == FoundDaily
           Sel == Chosen
           own(day) == {r \in rows : r.day = day}
           Line(day) ==
             [date |-> day, requests |-> Requests(own(day)), errors |-> Requests(Failed(own(day))),
              average |-> (SumFunction([r \in own(day) |-> r.sum]) \div Requests(own(day))) \div 1000]
           lines == answer.rows
<1>1. Asked \in Queries /\ ~Refused(Asked) /\ lines = aggregate_daily(rows)
  BY DEF AnswerInv
<1>2. PICK row : /\ Rows(rows, Sel, row)
                 /\ \A s \in Sel : row[s].day = format_day(s[1]) /\ row[s].status = s[2].status
                 /\ \A r \in rows : r.sum = Sum(Spent, At(Sel, row, r))
  BY DailyRows DEF FoundDaily, Chosen
<1>3. /\ IsFiniteSet(Sel)
      /\ \A s \in Sel : /\ s \in DOMAIN served /\ s[1] \in Int /\ s[2] \in Kinds /\ s[2].us \in Nat
                        /\ served[s] \in Nat \ {0} /\ Spent[s] = s[2].us * served[s]
  BY <1>1, OwnIsSelected
<1>4. \A date : Own(date) = {s \in Sel : date # Omitted => format_day(s[1]) = date}
  BY <1>1, OwnIsSelected
<1>5. lines = {Line(day) : day \in {r.day : r \in rows}}
  BY <1>1 DEF aggregate_daily
<1>6. \A day : Line(day).date = day /\ Line(day).requests = Requests(own(day))
  <2> HIDE DEF own
  <2> QED
    OBVIOUS
<1>7. \A s \in Sel : row[s] \in rows /\ format_day(s[1]) # Omitted
  BY <1>2, <1>3, DatesAreNamed DEF Rows
<1>8. \A l \in lines : \E s \in Sel : l = Line(format_day(s[1])) /\ l.date = format_day(s[1])
  <2>1. \A r \in rows : \E s \in Sel : row[s] = r
    BY <1>2 DEF Rows
  <2> HIDE DEF Line, rows, Sel
  <2> QED
    BY <1>2, <1>5, <1>6, <2>1
<1>9. ASSUME NEW s \in Sel, NEW day, day = format_day(s[1])
      PROVE  /\ Line(day) \in lines /\ own(day) # {} /\ own(day) \in SUBSET rows
             /\ Into(Sel, row, own(day)) = Own(day)
             /\ Into(Sel, row, Failed(own(day))) = {x \in Own(day) : x[2].status >= 400}
  <2>1. row[s] \in own(day)
    BY <1>2, <1>7, <1>9
  <2>2. Line(day) \in lines
    <3> HIDE DEF Line
    <3> QED
      BY <1>5, <2>1
  <2>3. Into(Sel, row, own(day)) = Own(day)
    BY <1>2, <1>4, <1>7, <1>9 DEF Into
  <2>4. Into(Sel, row, Failed(own(day))) = {x \in Own(day) : x[2].status >= 400}
    BY <1>2, <1>4, <1>7, <1>9 DEF Into, Failed
  <2> QED
    BY <2>1, <2>2, <2>3, <2>4
<1>10. ASSUME NEW R \in SUBSET rows
       PROVE  /\ Requests(R) = Sum(served, Into(Sel, row, R)) /\ Requests(R) \in Nat
              /\ R # {} => Requests(R) # 0
              /\ SumFunction([r \in R |-> r.sum]) = Sum(Spent, Into(Sel, row, R))
  <2> DEFINE h == [r \in R |-> r.sum]
  <2>1. /\ IsFiniteSet(R) /\ DOMAIN h = R
        /\ \A r \in R : h[r] = Sum(Spent, At(Sel, row, r))
    BY <1>2, FS_Subset DEF Rows
  <2>2. \A s \in Sel : Spent[s] \in Nat
    BY <1>3
  <2>3. SumFunction(h) = Sum(Spent, Into(Sel, row, R))
    <3> HIDE DEF h, Sel
    <3> QED
      BY <1>3, <2>1, <2>2, RowSums
  <2>4. /\ Requests(R) = Sum(served, Into(Sel, row, R)) /\ Requests(R) \in Nat
        /\ R # {} => Requests(R) # 0
    <3> HIDE DEF rows, Sel
    <3> QED
      BY <1>2, <1>3, RequestsOf
  <2> QED
    BY <2>3, <2>4
<1>11. ASSUME NEW l \in lines
       PROVE  LET us == SumFunction([s \in Own(l.date) |-> s[2].us * served[s]]) IN
              /\ l.requests = Total(Own(l.date))
              /\ l.errors = Total({s \in Own(l.date) : s[2].status >= 400})
              /\ Averaged(l, us)
  <2>1. PICK s \in Sel : l = Line(format_day(s[1])) /\ l.date = format_day(s[1])
    BY <1>8
  <2>2. PICK day : day = format_day(s[1])
    OBVIOUS
  <2>3. /\ l.requests = Requests(own(day)) /\ l.errors = Requests(Failed(own(day)))
        /\ l.average = (SumFunction([r \in own(day) |-> r.sum]) \div Requests(own(day))) \div 1000
        /\ l.date = day
    <3> HIDE DEF own
    <3> QED
      BY <2>1, <2>2
  <2>4. /\ own(day) # {} /\ own(day) \in SUBSET rows /\ Failed(own(day)) \in SUBSET rows
        /\ Into(Sel, row, own(day)) = Own(day)
        /\ Into(Sel, row, Failed(own(day))) = {x \in Own(day) : x[2].status >= 400}
    <3>1. Failed(own(day)) \in SUBSET rows
      BY DEF Failed
    <3> HIDE DEF own, rows, Sel, Line, lines
    <3> QED
      BY <1>9, <2>2, <3>1
  <2>5. l.requests = Total(Own(day)) /\ l.requests \in Nat \ {0}
    <3> HIDE DEF own, rows, Sel
    <3> QED
      BY <1>10, <2>3, <2>4 DEF Total, Sum
  <2>6. l.errors = Total({x \in Own(day) : x[2].status >= 400})
    <3>1. PICK R : R = Failed(own(day))
      OBVIOUS
    <3> HIDE DEF own, rows, Sel, lines
    <3>2. Requests(R) = Sum(served, Into(Sel, row, R))
      BY <1>10, <2>4, <3>1
    <3>3. Requests(R) = Sum(served, {x \in Own(day) : x[2].status >= 400})
      BY <2>4, <3>1, <3>2
    <3> QED
      BY <2>3, <3>1, <3>3 DEF Total, Sum
  <2> DEFINE spent == [x \in Own(day) |-> x[2].us * served[x]]
  <2>7. SumFunction(spent) = SumFunction([r \in own(day) |-> r.sum]) /\ SumFunction(spent) \in Nat
    <3>1. IsFiniteSet(Own(day)) /\ \A x \in Own(day) : spent[x] \in Nat /\ spent[x] = Spent[x]
      <4>1. Own(day) \subseteq Sel
        BY <1>4
      <4>2. IsFiniteSet(Own(day))
        BY <1>3, <4>1, FS_Subset
      <4>3. \A x \in Sel : x[2].us * served[x] \in Nat
        BY <1>3
      <4> QED
        BY <1>3, <4>1, <4>2, <4>3
    <3>2. DOMAIN spent = Own(day)
      OBVIOUS
    <3> HIDE DEF spent, own, rows, Sel
    <3>3. Sum(spent, Own(day)) = Sum(Spent, Own(day)) /\ Sum(spent, Own(day)) \in Nat
      BY <3>1, SumSame, SumType
    <3>4. SumFunction([r \in own(day) |-> r.sum]) = Sum(Spent, Own(day))
      BY <1>10, <2>4
    <3> QED
      BY <3>2, <3>3, <3>4, SumIsSum
  <2>8. 1000 * l.average * l.requests <= SumFunction(spent) /\ SumFunction(spent) < 1000 * (l.average + 1) * l.requests
    <3>1. PICK us, n, a : us = SumFunction(spent) /\ n = l.requests /\ a = l.average
      OBVIOUS
    <3>2. us \in Nat /\ n \in Nat \ {0} /\ a = (us \div n) \div 1000
      <4> HIDE DEF spent, own, rows, Sel
      <4>1. SumFunction([r \in own(day) |-> r.sum]) = us /\ Requests(own(day)) = n
        BY <2>3, <2>7, <3>1
      <4>2. PICK u : u = SumFunction([r \in own(day) |-> r.sum])
        OBVIOUS
      <4>3. l.average = (u \div Requests(own(day))) \div 1000
        BY <2>3, <4>2
      <4>4. a = (us \div n) \div 1000
        BY <3>1, <4>1, <4>2, <4>3
      <4> QED
        BY <2>5, <2>7, <3>1, <4>4
    <3>3. 1000 * a * n <= us /\ us < 1000 * (a + 1) * n
      BY <3>2, Average
    <3> HIDE DEF spent
    <3> QED
      BY <3>1, <3>3
  <2> HIDE DEF spent
  <2> QED
    BY <2>3, <2>5, <2>6, <2>8 DEF spent, Averaged
<1>12. Requests(lines) = Total(Own(Omitted))
  <2> DEFINE line == [s \in Sel |-> Line(format_day(s[1]))]
             h == [l \in lines |-> l.requests]
  <2>1. Own(Omitted) = Sel
    BY <1>4
  <2>2. \A s \in Sel : line[s] \in lines
    <3> HIDE DEF Line, lines
    <3> QED
      BY <1>9
  <2>3. \A l \in lines : \E s \in Sel : line[s] = l
    <3> HIDE DEF Line, lines
    <3> QED
      BY <1>8
  <2>4. ASSUME NEW l \in lines PROVE h[l] = Sum(served, At(Sel, line, l))
    <3>1. PICK s \in Sel : l = Line(format_day(s[1])) /\ l.date = format_day(s[1])
      BY <1>8
    <3>2. \A x \in Sel : line[x] = l <=> format_day(x[1]) = l.date
      <4> HIDE DEF Line
      <4> QED
        BY <1>6, <3>1
    <3>3. Own(l.date) = At(Sel, line, l)
      <4> HIDE DEF line
      <4> QED
        BY <1>4, <1>7, <3>1, <3>2 DEF At
    <3>4. h[l] = l.requests
      OBVIOUS
    <3> HIDE DEF line, h, lines, Sel, own, Line, rows
    <3>5. l.requests = Total(Own(l.date))
      BY <1>11
    <3> QED
      BY <3>3, <3>4, <3>5 DEF Total, Sum
  <2>5. DOMAIN h = lines
    OBVIOUS
  <2>7. IsFiniteSet(Sel) /\ \A s \in Sel : served[s] \in Nat
    BY <1>3
  <2> HIDE DEF line, h, Sel, lines
  <2>8. Onto(line, Sel, lines)
    BY <2>2, <2>3 DEF Onto
  <2>6. SumFunction(h) = Sum(served, Sel)
    BY <2>4, <2>5, <2>7, <2>8, LinesSum
  <2> QED
    BY <2>1, <2>6 DEF Requests, Total, Sum, h
<1> QED
  BY <1>11, <1>12 DEF DailyMatches, Averaged

(* The date a line has for a request, and the requests of one line's date. *)
DateOf(dated, s) == IF dated THEN format_day(s[1]) ELSE Omitted

(* The requests of a line's date are those with its date, whether or not   *)
(* the answer is dated.                                                    *)
LEMMA OwnByDate ==
  ASSUME TablesInv, Asked \in Queries, ~Refused(Asked), NEW dated, NEW x \in Chosen
  PROVE  Own(DateOf(dated, x)) = {s \in Chosen : DateOf(dated, s) = DateOf(dated, x)}
<1>1. PICK date : date = DateOf(dated, x)
  OBVIOUS
<1>2. \A s \in Chosen : format_day(s[1]) # Omitted
  BY OwnIsSelected, DatesAreNamed
<1>3. Own(date) = {s \in Chosen : date # Omitted => format_day(s[1]) = date}
  BY OwnIsSelected
<1>4. CASE dated
  BY <1>1, <1>2, <1>3, <1>4 DEF DateOf
<1>5. CASE ~dated
  BY <1>1, <1>3, <1>5 DEF DateOf
<1> QED
  BY <1>4, <1>5

(* aggregate_errors: each failed request is in one line, with its status   *)
(* and slug.                                                               *)
LEMMA ErrorsAreRight ==
  ASSUME TablesInv, AnswerInv, answer.route = "errors"
  PROVE  ErrorsMatch
<1> DEFINE rows == FoundDaily
           dated == usage_window(Asked).dated
           like(e) == {r \in Failed(rows) : /\ Dated(dated, r) = Dated(dated, e)
                                            /\ r.status = e.status /\ r.slug = e.slug}
           Line(e) == [date |-> Dated(dated, e), status |-> e.status, slug |-> e.slug,
                       count |-> Requests(like(e))]
           lines == answer.rows
           Sel == {s \in Chosen : s[2].status >= 400}
           same(l) == {s \in Own(l.date) : s[2].status = l.status /\ s[2].slug = l.slug}
<1>1. Asked \in Queries /\ ~Refused(Asked) /\ lines = {Line(e) : e \in Failed(rows)}
  BY DEF AnswerInv, aggregate_errors
<1>2. PICK row : /\ Rows(rows, Chosen, row)
                 /\ \A s \in Chosen : /\ row[s].day = format_day(s[1]) /\ row[s].status = s[2].status
                                      /\ row[s].slug = s[2].slug
  BY DailyRows DEF FoundDaily, Chosen
<1>3. IsFiniteSet(Chosen) /\ \A s \in Chosen : s[1] \in Int /\ served[s] \in Nat \ {0}
  BY <1>1, OwnIsSelected
<1>4. Own(Omitted) = Chosen
  BY <1>1, OwnIsSelected
<1>5. \A x \in Chosen : Own(DateOf(dated, x)) = {s \in Chosen : DateOf(dated, s) = DateOf(dated, x)}
  <2> HIDE DEF dated
  <2> QED
    BY <1>1, OwnByDate
<1>6. \A s \in Chosen : row[s] \in rows /\ Dated(dated, row[s]) = DateOf(dated, s)
  <2> HIDE DEF dated
  <2> QED
    BY <1>2 DEF Rows, Dated, DateOf
<1>7. \A s \in Chosen : row[s] \in Failed(rows) <=> s \in Sel
  BY <1>2, <1>6 DEF Failed
<1>8. \A e \in Failed(rows) : \E s \in Sel : row[s] = e
  <2>1. \A e \in rows : \E s \in Chosen : row[s] = e
    BY <1>2 DEF Rows
  <2> QED
    BY <1>7, <2>1 DEF Failed
<1> HIDE DEF dated
<1>9. \A e : /\ Line(e).date = Dated(dated, e) /\ Line(e).status = e.status /\ Line(e).slug = e.slug
             /\ Line(e).count = Requests(like(e))
  <2> HIDE DEF like
  <2> QED
    OBVIOUS
<1>10. ASSUME NEW e \in Failed(rows), NEW f \in Failed(rows)
       PROVE  Line(e) = Line(f) <=> f \in like(e)
  <2>1. ASSUME f \in like(e) PROVE Line(e) = Line(f)
    <3>1. like(e) = like(f)
      BY <2>1
    <3>2. Dated(dated, f) = Dated(dated, e) /\ f.status = e.status /\ f.slug = e.slug
      BY <2>1
    <3> HIDE DEF like
    <3> QED
      BY <3>1, <3>2
  <2>2. ASSUME Line(e) = Line(f) PROVE f \in like(e)
    <3>1. Dated(dated, f) = Dated(dated, e) /\ f.status = e.status /\ f.slug = e.slug
      <4> HIDE DEF Line
      <4> QED
        BY <1>9, <2>2
    <3> QED
      BY <3>1
  <2> QED
    BY <2>1, <2>2
<1>11. ASSUME NEW x \in Sel, NEW l, l = Line(row[x])
       PROVE  /\ l.count = Sum(served, same(l))
              /\ same(l) = {s \in Sel : Line(row[s]) = l}
  <2>1. PICK e \in Failed(rows) : e = row[x]
    BY <1>7
  <2>2. like(e) \in SUBSET rows
    BY DEF Failed
  <2>3. Into(Chosen, row, like(e)) = same(l)
    <3>1. l.date = DateOf(dated, x) /\ l.status = x[2].status /\ l.slug = x[2].slug /\ x[2].status >= 400
      <4> HIDE DEF Line
      <4> QED
        BY <1>2, <1>6, <1>9, <1>11
    <3>2. \A s \in Chosen : s \in same(l) <=> /\ DateOf(dated, s) = DateOf(dated, x)
                                              /\ s[2].status = x[2].status /\ s[2].slug = x[2].slug
      BY <1>5, <3>1
    <3>3. \A s \in Chosen : row[s] \in like(e) <=>
            /\ DateOf(dated, s) = DateOf(dated, x)
            /\ s[2].status = x[2].status /\ s[2].slug = x[2].slug
      BY <1>2, <1>6, <2>1, <3>1 DEF Failed
    <3>4. same(l) \subseteq Chosen
      BY <1>5, <3>1
    <3> HIDE DEF same, like
    <3> QED
      BY <3>2, <3>3, <3>4 DEF Into
  <2>4. Requests(like(e)) = Sum(served, Into(Chosen, row, like(e)))
    <3> HIDE DEF like, rows
    <3> QED
      BY <1>2, <1>3, <2>2, RequestsOf
  <2>5. l.count = Requests(like(e))
    <3> HIDE DEF Line
    <3> QED
      BY <1>9, <1>11, <2>1
  <2>6. Into(Chosen, row, like(e)) = {s \in Sel : Line(row[s]) = l}
    <3>1. \A s \in Chosen : row[s] \in like(e) => s \in Sel
      BY <1>7
    <3> HIDE DEF like, Line, Sel
    <3>2. \A s \in Sel : row[s] \in like(e) <=> Line(row[s]) = l
      BY <1>7, <1>10, <1>11, <2>1 DEF Sel
    <3> QED
      BY <3>1, <3>2 DEF Into, Sel
  <2> HIDE DEF like, Line, Sel, same
  <2> QED
    BY <2>3, <2>4, <2>5, <2>6
<1>12. \A l \in lines : \E x \in Sel : l = Line(row[x])
  <2> HIDE DEF Line, Sel, lines, rows
  <2> QED
    BY <1>1, <1>8
<1>13. \A l \in lines : l.count = Total(same(l))
  <2> HIDE DEF Line, Sel, lines, rows, same
  <2> QED
    BY <1>11, <1>12 DEF Total, Sum
<1>14. SumFunction([r \in lines |-> r.count]) = Total({s \in Own(Omitted) : s[2].status >= 400})
  <2> DEFINE line == [s \in Sel |-> Line(row[s])]
             h == [l \in lines |-> l.count]
  <2>1. Onto(line, Sel, lines)
    <3>1. \A s \in Sel : Line(row[s]) \in lines
      <4> HIDE DEF Line, lines, rows
      <4> QED
        BY <1>1, <1>7
    <3> HIDE DEF Line, Sel, lines
    <3> QED
      BY <1>12, <3>1 DEF Onto
  <2>2. DOMAIN h = lines
    OBVIOUS
  <2>3. ASSUME NEW l \in lines PROVE h[l] = Sum(served, At(Sel, line, l))
    <3>1. PICK x \in Sel : l = Line(row[x])
      BY <1>12
    <3>2. At(Sel, line, l) = {s \in Sel : Line(row[s]) = l}
      <4> HIDE DEF Line, Sel
      <4> QED
        BY DEF At
    <3> HIDE DEF Line, Sel, same, line
    <3> QED
      BY <1>11, <3>1, <3>2
  <2>4. IsFiniteSet(Sel) /\ \A s \in Sel : served[s] \in Nat
    BY <1>3, FS_Subset
  <2> HIDE DEF line, h, Sel, lines
  <2>5. SumFunction(h) = Sum(served, Sel)
    BY <2>1, <2>2, <2>3, <2>4, LinesSum
  <2> QED
    BY <1>4, <2>5 DEF Total, Sum, Sel, h
<1> QED
  BY <1>13, <1>14 DEF ErrorsMatch

(* aggregate_languages: each request is in the line of its language, and   *)
(* the share is of the requests of the line's date.                        *)
LEMMA LanguagesAreRight ==
  ASSUME TablesInv, AnswerInv, answer.route = "languages"
  PROVE  LanguagesMatch
<1> DEFINE rows == FoundDaily
           dated == usage_window(Asked).dated
           total(e) == {r \in rows : Dated(dated, r) = Dated(dated, e)}
           own(e) == {r \in total(e) : r.language = e.language}
           Line(e) == [date |-> Dated(dated, e), language |-> e.language,
                       count |-> Requests(own(e)),
                       permille |-> Permille(Requests(total(e)), Requests(own(e)))]
           lines == answer.rows
           Sel == Chosen
           same(l) == {s \in Own(l.date) : s[2].language = l.language}
<1>1. Asked \in Queries /\ ~Refused(Asked) /\ lines = {Line(e) : e \in rows}
  BY DEF AnswerInv, aggregate_languages
<1>2. PICK row : /\ Rows(rows, Sel, row)
                 /\ \A s \in Sel : row[s].day = format_day(s[1]) /\ row[s].language = s[2].language
  BY DailyRows DEF FoundDaily, Chosen
<1>3. IsFiniteSet(Sel) /\ \A s \in Sel : s[1] \in Int /\ served[s] \in Nat \ {0}
  BY <1>1, OwnIsSelected
<1>4. Own(Omitted) = Sel
  BY <1>1, OwnIsSelected
<1>5. \A x \in Sel : Own(DateOf(dated, x)) = {s \in Sel : DateOf(dated, s) = DateOf(dated, x)}
  <2> HIDE DEF dated
  <2> QED
    BY <1>1, OwnByDate
<1>6. \A s \in Sel : row[s] \in rows /\ Dated(dated, row[s]) = DateOf(dated, s)
  <2> HIDE DEF dated
  <2> QED
    BY <1>2 DEF Rows, Dated, DateOf
<1>7. \A e \in rows : \E s \in Sel : row[s] = e
  BY <1>2 DEF Rows
<1> HIDE DEF dated
<1>8. \A e : /\ Line(e).date = Dated(dated, e) /\ Line(e).language = e.language
             /\ Line(e).count = Requests(own(e))
             /\ Line(e).permille = Permille(Requests(total(e)), Requests(own(e)))
  <2> HIDE DEF own, total
  <2> QED
    OBVIOUS
<1>9. ASSUME NEW e \in rows, NEW f \in rows
      PROVE  Line(e) = Line(f) <=> f \in own(e)
  <2>1. ASSUME f \in own(e) PROVE Line(e) = Line(f)
    <3>1. total(e) = total(f) /\ own(e) = own(f)
      BY <2>1
    <3>2. Dated(dated, f) = Dated(dated, e) /\ f.language = e.language
      BY <2>1
    <3> HIDE DEF own, total
    <3> QED
      BY <3>1, <3>2
  <2>2. ASSUME Line(e) = Line(f) PROVE f \in own(e)
    <3>1. Dated(dated, f) = Dated(dated, e) /\ f.language = e.language
      <4> HIDE DEF Line
      <4> QED
        BY <1>8, <2>2
    <3> QED
      BY <3>1
  <2> QED
    BY <2>1, <2>2
<1>10. ASSUME NEW R \in SUBSET rows
       PROVE  /\ Requests(R) = Sum(served, Into(Sel, row, R)) /\ Requests(R) \in Nat
              /\ R # {} => Requests(R) # 0
  <2> HIDE DEF rows, Sel
  <2> QED
    BY <1>2, <1>3, RequestsOf
<1>11. ASSUME NEW x \in Sel, NEW l, l = Line(row[x])
       PROVE  /\ l.count = Sum(served, same(l))
              /\ same(l) = {s \in Sel : Line(row[s]) = l}
              /\ 2 * (l.permille * Total(Own(l.date)) - 1000 * l.count) \in -Total(Own(l.date)) .. Total(Own(l.date))
  <2>1. PICK e \in rows : e = row[x]
    BY <1>6
  <2>2. own(e) \in SUBSET rows /\ total(e) \in SUBSET rows /\ total(e) # {}
    BY DEF Failed
  <2>3. l.date = DateOf(dated, x) /\ l.language = x[2].language
    <3> HIDE DEF Line
    <3> QED
      BY <1>2, <1>6, <1>8, <1>11
  <2>4. Into(Sel, row, own(e)) = same(l)
    <3>2. \A s \in Sel : s \in same(l) <=> DateOf(dated, s) = DateOf(dated, x) /\ s[2].language = x[2].language
      BY <1>5, <2>3
    <3>3. \A s \in Sel : row[s] \in own(e) <=> DateOf(dated, s) = DateOf(dated, x) /\ s[2].language = x[2].language
      BY <1>2, <1>6, <2>1, <2>3
    <3>4. same(l) \subseteq Sel
      BY <1>5, <2>3
    <3> HIDE DEF same, own
    <3> QED
      BY <3>2, <3>3, <3>4 DEF Into
  <2>5. Into(Sel, row, total(e)) = Own(l.date)
    <3>1. \A s \in Sel : row[s] \in total(e) <=> DateOf(dated, s) = DateOf(dated, x)
      BY <1>6, <2>1
    <3> QED
      BY <1>5, <2>3, <3>1 DEF Into
  <2>6. /\ l.count = Requests(own(e))
        /\ l.permille = Permille(Requests(total(e)), Requests(own(e)))
    <3> HIDE DEF Line
    <3> QED
      BY <1>8, <1>11, <2>1
  <2>7. Into(Sel, row, own(e)) = {s \in Sel : Line(row[s]) = l}
    <3> HIDE DEF own, Line, Sel
    <3>2. \A s \in Sel : row[s] \in own(e) <=> Line(row[s]) = l
      BY <1>6, <1>9, <1>11, <2>1
    <3> QED
      BY <3>2 DEF Into
  <2>8. PICK c, t : c = Requests(own(e)) /\ t = Requests(total(e))
    OBVIOUS
  <2>9. c \in Nat /\ t \in Nat \ {0} /\ t = Total(Own(l.date)) /\ c = Sum(served, same(l))
    <3> HIDE DEF own, total, same, rows, Sel
    <3> QED
      BY <1>10, <2>2, <2>4, <2>5, <2>8 DEF Total, Sum
  <2>10. l.count = c /\ l.permille = Permille(t, c)
    <3> HIDE DEF own, total
    <3> QED
      BY <2>6, <2>8
  <2>11. 2 * (l.permille * t - 1000 * c) \in -t .. t
    BY <2>9, <2>10, Nearest DEF Permille
  <2> HIDE DEF own, total, same, Line, rows, Sel
  <2>12. same(l) = {s \in Sel : Line(row[s]) = l}
    BY <2>4, <2>7
  <2>13. l.count = Sum(served, same(l))
    BY <2>9, <2>10
  <2>14. 2 * (l.permille * Total(Own(l.date)) - 1000 * l.count) \in -Total(Own(l.date)) .. Total(Own(l.date))
    BY <2>9, <2>10, <2>11
  <2> QED
    BY <2>12, <2>13, <2>14
<1>12. \A l \in lines : \E x \in Sel : l = Line(row[x])
  <2> HIDE DEF Line, Sel, lines, rows
  <2> QED
    BY <1>1, <1>7
<1>13. ASSUME NEW l \in lines
       PROVE  /\ l.count = Total(same(l))
              /\ 2 * (l.permille * Total(Own(l.date)) - 1000 * l.count) \in -Total(Own(l.date)) .. Total(Own(l.date))
  <2> HIDE DEF Line, Sel, lines, rows, same
  <2>1. l.count = Sum(served, same(l))
    BY <1>11, <1>12
  <2> QED
    BY <1>11, <1>12, <2>1 DEF Total, Sum
<1>14. SumFunction([r \in lines |-> r.count]) = Total(Own(Omitted))
  <2> DEFINE line == [s \in Sel |-> Line(row[s])]
             h == [l \in lines |-> l.count]
  <2>1. Onto(line, Sel, lines)
    <3>1. \A s \in Sel : Line(row[s]) \in lines
      <4> HIDE DEF Line, lines, rows
      <4> QED
        BY <1>1, <1>6
    <3> HIDE DEF Line, Sel, lines
    <3> QED
      BY <1>12, <3>1 DEF Onto
  <2>2. DOMAIN h = lines
    OBVIOUS
  <2>3. ASSUME NEW l \in lines PROVE h[l] = Sum(served, At(Sel, line, l))
    <3>1. PICK x \in Sel : l = Line(row[x])
      BY <1>12
    <3>2. At(Sel, line, l) = {s \in Sel : Line(row[s]) = l}
      <4> HIDE DEF Line, Sel
      <4> QED
        BY DEF At
    <3> HIDE DEF Line, Sel, same, line, lines
    <3>3. l.count = Sum(served, same(l))
      BY <1>11, <3>1
    <3>4. same(l) = {s \in Sel : Line(row[s]) = l}
      BY <1>11, <3>1
    <3>5. h[l] = l.count
      OBVIOUS
    <3> QED
      BY <3>2, <3>3, <3>4, <3>5
  <2>4. IsFiniteSet(Sel) /\ \A s \in Sel : served[s] \in Nat
    BY <1>3
  <2> HIDE DEF line, h, Sel, lines
  <2>5. SumFunction(h) = Sum(served, Sel)
    BY <2>1, <2>2, <2>3, <2>4, LinesSum
  <2> QED
    BY <1>4, <2>5 DEF Total, Sum, h
<1> QED
  BY <1>13, <1>14 DEF LanguagesMatch

(* The answers of /usage/daily, /usage/errors and /usage/languages count   *)
(* exactly the requests of their scope and window, each in one line, dated *)
(* or not, with the averages and shares of those requests: for every set   *)
(* of tenants, kinds of request, periods and dates, and however many       *)
(* requests were served.                                                   *)
THEOREM AnswersAreRight == Spec => []AnswersMatchServed
<1>1. TablesInv /\ AnswerInv => AnswersMatchServed
  BY DailyIsRight, ErrorsAreRight, LanguagesAreRight DEF AnswersMatchServed
<1> QED
  BY <1>1, TablesInvariant, AnswerInvariant, PTL

-----------------------------------------------------------------------------
(* The greatest of a set of numbers that has a bound.                      *)
LEMMA Greatest ==
  ASSUME NEW N, N \subseteq Nat, N # {}, NEW u \in Nat, \A n \in N : n <= u
  PROVE  Max(N) \in N /\ \A n \in N : n <= Max(N)
<1> DEFINE D == {u - n : n \in N}
<1>1. D \subseteq Nat /\ D # {}
  <2>1. \A n \in N : u - n \in Nat
    OBVIOUS
  <2> QED
    BY <2>1
<1>2. PICK d \in D : \A x \in D : d <= x
  <2> HIDE DEF D
  <2> QED
    BY <1>1, Least
<1>3. PICK m \in N : d = u - m
  OBVIOUS
<1>4. \A n \in N : n <= m
  BY <1>2, <1>3
<1> QED
  BY <1>4 DEF Max

(* And the least of one.                                                   *)
LEMMA Smallest ==
  ASSUME NEW N, N \subseteq Nat, N # {}
  PROVE  Min(N) \in N /\ \A n \in N : Min(N) <= n
<1>1. PICK n \in N : \A m \in N : n <= m
  BY Least
<1> QED
  BY <1>1 DEF Min

(* Finite buckets in order, as percentile has them.                        *)
Ladder(rows, n) ==
  /\ n \in Nat /\ DOMAIN rows = 1 .. n /\ Len(rows) = n
  /\ \A i \in 1 .. n : rows[i].requests \in Nat \ {0} /\ rows[i].bucket \in LATENCY_BUCKETS_MS
  /\ \A i \in 2 .. n : rows[i - 1].bucket <= rows[i].bucket

(* The bounds of the ladder are numbers from 1 to 1000.                    *)
LEMMA LadderBounds ==
  /\ \A b \in LATENCY_BUCKETS_MS : b \in Nat /\ 1 <= b /\ b <= 1000
  /\ Max(LATENCY_BUCKETS_MS) = 1000
<1>1. \A b \in LATENCY_BUCKETS_MS : b \in Nat /\ 1 <= b /\ b <= 1000
  BY DEF LATENCY_BUCKETS_MS
<1>2. 1000 \in LATENCY_BUCKETS_MS
  BY DEF LATENCY_BUCKETS_MS
<1>3. LATENCY_BUCKETS_MS \subseteq Nat
  BY <1>1
<1>4. /\ Max(LATENCY_BUCKETS_MS) \in LATENCY_BUCKETS_MS
      /\ \A b \in LATENCY_BUCKETS_MS : b <= Max(LATENCY_BUCKETS_MS)
  <2>1. PICK L : L = LATENCY_BUCKETS_MS
    OBVIOUS
  <2>4. PICK u \in Nat : u = 1000
    OBVIOUS
  <2>2. L \subseteq Nat /\ L # {} /\ \A b \in L : b <= u
    BY <1>1, <1>2, <1>3, <2>1, <2>4
  <2>3. Max(L) \in L /\ \A b \in L : b <= Max(L)
    BY <2>2, Greatest
  <2> QED
    BY <2>1, <2>3
<1> QED
  BY <1>1, <1>2, <1>4

(* The running count grows by each row's requests.                         *)
LEMMA RunningSteps ==
  ASSUME NEW rows, NEW n, Ladder(rows, n)
  PROVE  /\ \A i \in 0 .. n : Running(rows, i) \in Nat
         /\ \A i \in 1 .. n : Running(rows, i) = Running(rows, i - 1) + rows[i].requests
         /\ \A i, j \in 0 .. n : i <= j => Running(rows, i) <= Running(rows, j)
<1> DEFINE f == [j \in DOMAIN rows |-> rows[j].requests]
<1>1. n \in Nat /\ \A j \in 1 .. n : f[j] \in Nat /\ f[j] = rows[j].requests
  BY DEF Ladder
<1>2. \A i : Running(rows, i) = Sum(f, 1 .. i)
  BY DEF Running, Sum
<1> HIDE DEF f
<1>3. ASSUME NEW i \in 0 .. n PROVE IsFiniteSet(1 .. i) /\ \A j \in 1 .. i : f[j] \in Nat
  <2>1. i \in Int /\ \A j \in 1 .. i : j \in 1 .. n
    BY <1>1
  <2> QED
    BY <1>1, <2>1, FS_Interval
<1>4. \A i \in 0 .. n : Sum(f, 1 .. i) \in Nat
  BY <1>3, SumType
<1>5. ASSUME NEW i \in 1 .. n PROVE Sum(f, 1 .. i) = f[i] + Sum(f, 1 .. (i - 1))
  <2>1. i - 1 \in 0 .. n /\ i \in 0 .. n /\ (1 .. (i - 1)) \union {i} = 1 .. i /\ i \notin 1 .. (i - 1)
    BY <1>1
  <2>2. PICK S : S = 1 .. (i - 1)
    OBVIOUS
  <2>3. IsFiniteSet(S) /\ i \notin S /\ S \union {i} = 1 .. i
    BY <1>3, <2>1, <2>2
  <2>4. \A y \in S \union {i} : f[y] \in Nat
    BY <1>3, <2>1, <2>3
  <2>5. Sum(f, S \union {i}) = f[i] + Sum(f, S)
    BY <2>3, <2>4, SumAdds
  <2> QED
    BY <2>2, <2>3, <2>5
<1>6. ASSUME NEW i \in 0 .. n, NEW j \in 0 .. n, i <= j PROVE Sum(f, 1 .. i) <= Sum(f, 1 .. j)
  <2>1. 1 .. i \in SUBSET (1 .. j)
    BY <1>1, <1>6
  <2>2. PICK S, T : S = 1 .. j /\ T = 1 .. i
    OBVIOUS
  <2>3. IsFiniteSet(S) /\ T \in SUBSET S /\ \A x \in S : f[x] \in Nat
    BY <1>3, <2>1, <2>2
  <2>4. Sum(f, T) <= Sum(f, S)
    BY <2>3, SumOfPart
  <2> QED
    BY <2>2, <2>4
<1> QED
  <2>1. \A i \in 0 .. n : Running(rows, i) \in Nat
    BY <1>2, <1>4
  <2>2. ASSUME NEW i \in 1 .. n PROVE Running(rows, i) = Running(rows, i - 1) + rows[i].requests
    <3>1. Running(rows, i) = f[i] + Running(rows, i - 1)
      BY <1>2, <1>5
    <3>2. i - 1 \in 0 .. n /\ f[i] \in Nat /\ f[i] = rows[i].requests
      BY <1>1
    <3>3. Running(rows, i - 1) \in Nat
      BY <2>1, <3>2
    <3> QED
      BY <3>1, <3>2, <3>3
  <2>3. \A i, j \in 0 .. n : i <= j => Running(rows, i) <= Running(rows, j)
    BY <1>2, <1>6
  <2> QED
    BY <2>1, <2>2, <2>3

(* A later row has no smaller bucket.                                      *)
LEMMA LadderAscends ==
  ASSUME NEW rows, NEW n, Ladder(rows, n)
  PROVE  \A i, j \in 1 .. n : i <= j => rows[i].bucket <= rows[j].bucket
<1>1. n \in Nat /\ \A i \in 1 .. n : rows[i].bucket \in Nat
  BY LadderBounds DEF Ladder
<1>2. ASSUME NEW i \in 1 .. n PROVE \A j \in 1 .. n : i <= j => rows[i].bucket <= rows[j].bucket
  <2> DEFINE Wrong == {j \in 1 .. n : i <= j /\ ~(rows[i].bucket <= rows[j].bucket)}
  <2>1. Wrong = {}
    <3> SUFFICES ASSUME Wrong # {} PROVE FALSE
      OBVIOUS
    <3>1. Wrong \subseteq Nat
      OBVIOUS
    <3>2. PICK j \in Wrong : \A k \in Wrong : j <= k
      <4> HIDE DEF Wrong
      <4> QED
        BY <3>1, Least
    <3>3. j \in 2 .. n /\ j - 1 \in 1 .. n /\ i <= j - 1 /\ j - 1 \notin Wrong
      BY <1>1, <3>2
    <3>4. rows[i].bucket <= rows[j - 1].bucket /\ rows[j - 1].bucket <= rows[j].bucket
      BY <3>3 DEF Ladder
    <3>5. rows[i].bucket \in Nat /\ rows[j - 1].bucket \in Nat /\ rows[j].bucket \in Nat
      BY <1>1, <3>3
    <3> QED
      BY <3>4, <3>5
  <2> QED
    BY <2>1
<1> QED
  BY <1>2

(* The rows up to a bucket are the first ones.                             *)
LEMMA LadderPrefix ==
  ASSUME NEW rows, NEW n, Ladder(rows, n), NEW b \in Nat
  PROVE  \E k \in 0 .. n : {j \in 1 .. n : rows[j].bucket <= b} = 1 .. k
<1>1. n \in Nat /\ \A i \in 1 .. n : rows[i].bucket \in Nat
  BY LadderBounds DEF Ladder
<1>2. \A i, j \in 1 .. n : i <= j => rows[i].bucket <= rows[j].bucket
  BY LadderAscends
<1> DEFINE U == {j \in 1 .. n : rows[j].bucket <= b}
<1>3. CASE U = {}
  BY <1>1, <1>3
<1>4. CASE U # {}
  <2>1. U \subseteq Nat /\ \A j \in U : j <= n
    BY <1>1
  <2>2. PICK k \in U : \A j \in U : j <= k
    <3> HIDE DEF U
    <3> QED
      BY <1>1, <1>4, <2>1, Greatest
  <2>3. ASSUME NEW j \in 1 .. k PROVE j \in U
    <3>1. j \in 1 .. n /\ j <= k /\ k \in 1 .. n
      BY <1>1, <2>2
    <3>2. rows[j].bucket <= rows[k].bucket /\ rows[k].bucket <= b
      BY <1>2, <2>2, <3>1
    <3>3. rows[j].bucket \in Nat /\ rows[k].bucket \in Nat
      BY <1>1, <3>1
    <3> QED
      BY <3>1, <3>2, <3>3
  <2>4. k \in 0 .. n /\ U = 1 .. k
    BY <1>1, <2>1, <2>2, <2>3
  <2> QED
    BY <2>4
<1> QED
  BY <1>3, <1>4

(* Division keeps the order.                                               *)
LEMMA DividedInOrder ==
  ASSUME NEW a \in Nat, NEW b \in Nat, a <= b, NEW n \in Nat \ {0}
  PROVE  a \div n <= b \div n
<1>1. PICK p, q \in Nat : p = a \div n /\ n * p <= a /\ q = b \div n /\ b < n * (q + 1)
  BY Divided
<1>2. ASSUME ~(p <= q) PROVE FALSE
  <2>1. q + 1 <= p
    BY <1>2
  <2>2. n * (q + 1) <= n * p
    BY <2>1
  <2> QED
    BY <1>1, <2>2
<1> QED
  BY <1>1, <1>2

(* saturating_sub, as Interpolated has it.                                 *)
LEMMA MaxWithZero ==
  ASSUME NEW x \in Int
  PROVE  Max({0, x}) = IF x > 0 THEN x ELSE 0
<1>1. \E y \in {0, x} : \A z \in {0, x} : y >= z
  OBVIOUS
<1>2. PICK y : y = Max({0, x})
  OBVIOUS
<1>3. y \in {0, x} /\ \A z \in {0, x} : y >= z
  BY <1>1, <1>2 DEF Max
<1> QED
  BY <1>2, <1>3

(* Interpolation stays between the bound below and the bucket's own, and a *)
(* higher rank gives no lower value.                                       *)
LEMMA Interpolation ==
  ASSUME NEW rows, NEW n, Ladder(rows, n), NEW i \in 1 .. n,
         NEW rank \in Nat, rank <= 100 * Running(rows, i)
  PROVE  /\ Lower(rows, i) \in Nat
         /\ Interpolated(rows, i, rank) \in Nat
         /\ Lower(rows, i) <= Interpolated(rows, i, rank)
         /\ Interpolated(rows, i, rank) <= rows[i].bucket
         /\ \A less \in Nat : less <= rank => Interpolated(rows, i, less) <= Interpolated(rows, i, rank)
<1>1. n \in Nat /\ rows[i].requests \in Nat \ {0} /\ rows[i].bucket \in Nat
  BY LadderBounds DEF Ladder
<1>2. Lower(rows, i) \in Nat /\ Lower(rows, i) <= rows[i].bucket
  <2>1. CASE i = 1
    BY <1>1, <2>1 DEF Lower
  <2>2. CASE i # 1
    <3>1. i \in 2 .. n /\ i - 1 \in 1 .. n
      BY <1>1, <2>2
    <3>2. rows[i - 1].bucket \in Nat /\ rows[i - 1].bucket <= rows[i].bucket
      BY <3>1, LadderBounds DEF Ladder
    <3> QED
      BY <2>2, <3>2 DEF Lower
  <2> QED
    BY <2>1, <2>2
<1>3. PICK low \in Nat, width \in Nat : low = Lower(rows, i) /\ width = rows[i].bucket - low
  BY <1>1, <1>2
<1>4. PICK whole \in Nat \ {0} : whole = 100 * rows[i].requests
  BY <1>1
<1>5. PICK before \in Nat : before = Running(rows, i - 1) /\ 100 * Running(rows, i) = 100 * before + whole
  <2>1. i - 1 \in 0 .. n
    BY <1>1
  <2>2. Running(rows, i - 1) \in Nat /\ Running(rows, i) = Running(rows, i - 1) + rows[i].requests
    BY <2>1, RunningSteps
  <2> QED
    BY <1>1, <1>4, <2>2
<1> DEFINE Into100(x) == IF x - 100 * before > 0 THEN x - 100 * before ELSE 0
           Part(x) == (2 * width * Into100(x) + whole) \div (2 * whole)
<1>6. ASSUME NEW x \in Nat PROVE Interpolated(rows, i, x) = low + Part(x)
  <2>1. x - 100 * before \in Int
    OBVIOUS
  <2>2. Max({0, x - 100 * before}) = Into100(x)
    BY <2>1, MaxWithZero
  <2> HIDE DEF Into100
  <2> QED
    BY <1>3, <1>4, <1>5, <2>2 DEF Interpolated
<1>7. ASSUME NEW x \in Nat, x <= rank
      PROVE  /\ Into100(x) \in Nat /\ Into100(x) <= whole /\ Into100(x) <= Into100(rank)
             /\ Part(x) \in Nat /\ Part(x) <= width /\ Part(x) <= Part(rank)
  <2>1. Into100(x) \in Nat /\ Into100(rank) \in Nat /\ Into100(x) <= Into100(rank) /\ Into100(rank) <= whole
    BY <1>5, <1>7
  <2> HIDE DEF Into100
  <2>2. PICK g, h \in Nat : g = Into100(x) /\ h = Into100(rank) /\ g <= h /\ h <= whole
    BY <2>1
  <2>3. PICK a, b \in Nat : a = 2 * width * g + whole /\ b = 2 * width * h + whole
    OBVIOUS
  <2>4. PICK v \in Nat \ {0} : v = 2 * whole
    OBVIOUS
  <2>5. Part(x) = a \div v /\ Part(rank) = b \div v
    BY <2>2, <2>3, <2>4
  <2>6. a <= b
    <3>1. width * g <= width * h
      BY <2>2
    <3> QED
      BY <2>3, <3>1
  <2>7. PICK p, q \in Nat : p = a \div v /\ q = b \div v /\ v * q <= b
    BY Divided
  <2>8. p <= q
    BY <2>6, <2>7, DividedInOrder
  <2>9. q <= width
    <3>1. ASSUME ~(q <= width) PROVE FALSE
      <4>1. v * (width + 1) <= v * q
        <5>1. width + 1 <= q
          BY <3>1
        <5> QED
          BY <5>1
      <4>2. width * h <= width * whole
        BY <2>2
      <4>3. PICK c, d \in Nat : c = width * h /\ d = width * whole
        OBVIOUS
      <4>4. v * (width + 1) = 2 * d + 2 * whole /\ b = 2 * c + whole
        BY <2>3, <2>4, <4>3
      <4> QED
        BY <2>7, <4>1, <4>2, <4>3, <4>4
    <3> QED
      BY <3>1
  <2> HIDE DEF Part
  <2> QED
    BY <2>1, <2>2, <2>5, <2>7, <2>8, <2>9
<1>8. \A x \in Nat : x <= rank => Part(x) \in Nat /\ Part(x) <= width /\ Part(x) <= Part(rank)
  BY <1>7
<1> HIDE DEF Part
<1>9. Part(rank) \in Nat /\ Part(rank) <= width
  BY <1>8
<1>10. /\ Interpolated(rows, i, rank) = low + Part(rank)
       /\ \A x \in Nat : Interpolated(rows, i, x) = low + Part(x)
  BY <1>6
<1> QED
  BY <1>1, <1>2, <1>3, <1>8, <1>9, <1>10

(* The rows that cross a rank.                                             *)
Crossing(rows, n, rank) == {i \in 1 .. n : 100 * Running(rows, i) >= rank}

(* The requests up to a bucket.                                            *)
Reached(rows, n, b) == Sum([j \in DOMAIN rows |-> rows[j].requests], {j \in 1 .. n : rows[j].bucket <= b})

(* The buckets that have a row.                                            *)
BucketsOf(rows, n) == {rows[i].bucket : i \in 1 .. n}

(* What percentile does with the rows that cross its rank.                 *)
Crosses(rows, n, over, q, rank, found) ==
  /\ rank \in Nat
  /\ found \subseteq 1 .. n
  /\ found = {} => percentile(rows, over, q) = 1000
  /\ found # {} => /\ Min(found) \in found /\ \A i \in found : Min(found) <= i
                   /\ percentile(rows, over, q) = Interpolated(rows, Min(found), rank)
                   /\ rank <= 100 * Running(rows, Min(found))

(* percentile interpolates in the first row that crosses, and is the last  *)
(* bound when none does.                                                   *)
LEMMA PercentileIs ==
  ASSUME NEW rows, NEW n, Ladder(rows, n), NEW over \in Nat, NEW q \in Nat,
         NEW rank, rank = q * (Running(rows, n) + over),
         NEW found, found = Crossing(rows, n, rank)
  PROVE  Crosses(rows, n, over, q, rank, found)
<1>1. n \in Nat /\ DOMAIN rows = 1 .. n /\ Len(rows) = n
  BY DEF Ladder
<1>3. rank \in Nat
  <2>1. n \in 0 .. n
    BY <1>1
  <2>2. Running(rows, n) \in Nat
    BY <2>1, RunningSteps
  <2> QED
    BY <2>2
<1>4. Rank(q, Running(rows, Len(rows)), over) = rank
  BY <1>1 DEF Rank
<1>5. percentile(rows, over, q) =
        IF Crossing(rows, n, rank) = {} THEN 1000
        ELSE Interpolated(rows, Min(Crossing(rows, n, rank)), rank)
  BY <1>1, <1>4, LadderBounds DEF percentile, Crossing
<1>6. ASSUME Crossing(rows, n, rank) # {}
      PROVE  /\ Min(Crossing(rows, n, rank)) \in Crossing(rows, n, rank)
             /\ \A i \in Crossing(rows, n, rank) : Min(Crossing(rows, n, rank)) <= i
  <2>1. Crossing(rows, n, rank) \subseteq Nat
    BY DEF Crossing
  <2> QED
    BY <1>6, <2>1, Smallest
<1>7. \A i \in Crossing(rows, n, rank) : i \in 1 .. n /\ 100 * Running(rows, i) >= rank
  BY DEF Crossing
<1>8. ASSUME Crossing(rows, n, rank) # {} PROVE rank <= 100 * Running(rows, Min(Crossing(rows, n, rank)))
  <2>1. PICK m : m = Min(Crossing(rows, n, rank))
    OBVIOUS
  <2>2. m \in 1 .. n /\ 100 * Running(rows, m) >= rank
    BY <1>6, <1>7, <1>8, <2>1
  <2>3. m \in 0 .. n
    BY <1>1, <2>2
  <2>4. Running(rows, m) \in Nat
    BY <2>3, RunningSteps
  <2> QED
    BY <1>3, <2>1, <2>2, <2>4
<1>9. Crossing(rows, n, rank) \subseteq 1 .. n
  BY <1>7
<1> QED
  BY <1>3, <1>5, <1>6, <1>8, <1>9 DEF Crosses

(* Of one histogram, a higher percentile is never the lower value.         *)
LEMMA PercentilesInOrder ==
  ASSUME NEW rows, NEW n, Ladder(rows, n), NEW over \in Nat, NEW p \in Nat, NEW q \in Nat, p <= q
  PROVE  percentile(rows, over, p) <= percentile(rows, over, q)
<1>1. n \in Nat /\ \A i \in 1 .. n : rows[i].bucket \in Nat /\ rows[i].bucket <= 1000
  BY LadderBounds DEF Ladder
<1>2. PICK t \in Nat : t = Running(rows, n) + over
  <2>1. n \in 0 .. n
    BY <1>1
  <2>2. Running(rows, n) \in Nat
    BY <2>1, RunningSteps
  <2> QED
    BY <2>2
<1>3. PICK r1, r2 \in Nat : r1 = p * t /\ r2 = q * t
  OBVIOUS
<1>11. r1 = p * (Running(rows, n) + over) /\ r2 = q * (Running(rows, n) + over)
  BY <1>2, <1>3
<1>4. r1 <= r2
  BY <1>3
<1>5. PICK P, Q : P = Crossing(rows, n, r1) /\ Q = Crossing(rows, n, r2)
  OBVIOUS
<1>12. Crosses(rows, n, over, p, r1, P) /\ Crosses(rows, n, over, q, r2, Q)
  BY <1>5, <1>11, PercentileIs
<1>6. /\ P \subseteq 1 .. n /\ (P = {} => percentile(rows, over, p) = 1000)
      /\ P # {} => /\ Min(P) \in P /\ \A i \in P : Min(P) <= i
                   /\ percentile(rows, over, p) = Interpolated(rows, Min(P), r1)
                   /\ r1 <= 100 * Running(rows, Min(P))
  BY <1>12 DEF Crosses
<1>7. /\ Q \subseteq 1 .. n /\ (Q = {} => percentile(rows, over, q) = 1000)
      /\ Q # {} => /\ Min(Q) \in Q /\ \A i \in Q : Min(Q) <= i
                   /\ percentile(rows, over, q) = Interpolated(rows, Min(Q), r2)
                   /\ r2 <= 100 * Running(rows, Min(Q))
  BY <1>12 DEF Crosses
<1>8. Q \subseteq P
  <2>1. ASSUME NEW i \in Q PROVE i \in P
    <3>1. i \in 0 .. n
      BY <1>1, <1>7, <2>1
    <3>2. Running(rows, i) \in Nat
      BY <3>1, RunningSteps
    <3> QED
      BY <1>4, <1>5, <2>1, <3>2 DEF Crossing
  <2> QED
    BY <2>1
<1>9. CASE P = {}
  BY <1>6, <1>7, <1>8, <1>9
<1>10. CASE P # {}
  <2>1. PICK m \in 1 .. n : m = Min(P)
    BY <1>6, <1>10
  <2>2. /\ Interpolated(rows, m, r1) \in Nat
        /\ Interpolated(rows, m, r1) <= rows[m].bucket
    BY <1>6, <1>10, <2>1, Interpolation
  <2>3. CASE Q = {}
    BY <1>1, <1>6, <1>7, <1>10, <2>1, <2>2, <2>3
  <2>4. CASE Q # {}
    <3>1. PICK k \in 1 .. n : k = Min(Q)
      BY <1>7, <2>4
    <3>2. m <= k
      BY <1>6, <1>7, <1>8, <1>10, <2>1, <2>4, <3>1
    <3>3. /\ Lower(rows, k) \in Nat /\ Interpolated(rows, k, r2) \in Nat
          /\ Lower(rows, k) <= Interpolated(rows, k, r2)
          /\ Interpolated(rows, k, r1) <= Interpolated(rows, k, r2)
      BY <1>4, <1>7, <2>4, <3>1, Interpolation
    <3>4. CASE m = k
      BY <1>6, <1>7, <1>10, <2>1, <2>4, <3>1, <3>3, <3>4
    <3>5. CASE m < k
      <4>1. k # 1 /\ k - 1 \in 1 .. n /\ m <= k - 1
        BY <1>1, <2>1, <3>1, <3>5
      <4>2. Lower(rows, k) = rows[k - 1].bucket
        BY <4>1 DEF Lower
      <4>3. rows[m].bucket <= rows[k - 1].bucket
        BY <4>1, LadderAscends
      <4>4. rows[m].bucket \in Nat /\ rows[k - 1].bucket \in Nat
        BY <1>1, <4>1
      <4> QED
        BY <1>6, <1>7, <1>10, <2>1, <2>2, <2>4, <3>1, <3>3, <4>2, <4>3, <4>4
    <3> QED
      BY <3>2, <3>4, <3>5
  <2> QED
    BY <2>3, <2>4
<1> QED
  BY <1>9, <1>10

(* Where a percentile is, given the buckets used and those that reach it.  *)
IsIn(value, used, reaching) ==
  IF reaching = {} THEN value = 1000
  ELSE Max({0} \union {b \in used : b < Min(reaching)}) <= value /\ value <= Min(reaching)

ReachingBuckets(rows, n, used, rank) == {b \in used : 100 * Reached(rows, n, b) >= rank}

(* A percentile is in the first bucket that is reached, no lower than the  *)
(* one used below it.                                                      *)
LEMMA PercentileInItsBucket ==
  ASSUME NEW rows, NEW n, Ladder(rows, n), NEW over \in Nat, NEW q \in Nat,
         NEW used, used = BucketsOf(rows, n), NEW reaching,
         reaching = ReachingBuckets(rows, n, used, q * (Running(rows, n) + over))
  PROVE  IsIn(percentile(rows, over, q), used, reaching)
<1>1. n \in Nat /\ \A i \in 1 .. n : rows[i].bucket \in Nat /\ rows[i].bucket <= 1000
  BY LadderBounds DEF Ladder
<1>2. PICK rank : rank = q * (Running(rows, n) + over)
  OBVIOUS
<1>4. reaching = {b \in used : 100 * Reached(rows, n, b) >= rank}
  BY <1>2 DEF ReachingBuckets
<1>5. PICK found : found = Crossing(rows, n, rank)
  OBVIOUS
<1>6. /\ rank \in Nat /\ found \subseteq 1 .. n
      /\ found = {} => percentile(rows, over, q) = 1000
      /\ found # {} => /\ Min(found) \in found /\ \A i \in found : Min(found) <= i
                       /\ percentile(rows, over, q) = Interpolated(rows, Min(found), rank)
                       /\ rank <= 100 * Running(rows, Min(found))
  <2>1. Crosses(rows, n, over, q, rank, found)
    BY <1>2, <1>5, PercentileIs
  <2> QED
    BY <2>1 DEF Crosses
<1>15. \A i \in found : i \in 1 .. n
  BY <1>6
<1>7. used \subseteq Nat /\ reaching \subseteq used
      /\ (\A b \in used : \E i \in 1 .. n : b = rows[i].bucket) /\ \A i \in 1 .. n : rows[i].bucket \in used
  BY <1>1, <1>4 DEF BucketsOf
<1>8. \A i, j \in 1 .. n : i <= j => rows[i].bucket <= rows[j].bucket
  BY LadderAscends
<1>9. /\ \A i \in 0 .. n : Running(rows, i) \in Nat
      /\ \A i, j \in 0 .. n : i <= j => Running(rows, i) <= Running(rows, j)
  BY RunningSteps
<1>10. ASSUME NEW b \in used
       PROVE  \E k \in 0 .. n : /\ Reached(rows, n, b) = Running(rows, k)
                                /\ \A j \in 1 .. n : rows[j].bucket <= b <=> j <= k
  <2>1. b \in Nat
    BY <1>7
  <2>2. PICK k \in 0 .. n : {j \in 1 .. n : rows[j].bucket <= b} = 1 .. k
    BY <2>1, LadderPrefix
  <2>3. Reached(rows, n, b) = Running(rows, k)
    BY <2>2 DEF Reached, Running, Sum
  <2>4. \A j \in 1 .. n : rows[j].bucket <= b <=> j \in 1 .. k
    BY <2>2
  <2> QED
    BY <1>1, <2>3, <2>4
(* A bucket that is reached has a crossing row at or below it.             *)
<1>11. ASSUME NEW b \in reaching PROVE \E i \in found : rows[i].bucket <= b
  <2>1. PICK k \in 0 .. n : /\ Reached(rows, n, b) = Running(rows, k)
                            /\ \A j \in 1 .. n : rows[j].bucket <= b <=> j <= k
    BY <1>7, <1>10
  <2>2. 100 * Running(rows, k) >= rank
    BY <1>4, <2>1
  <2>3. PICK j \in 1 .. n : b = rows[j].bucket
    BY <1>7
  <2>4. j <= k
    BY <1>1, <2>1, <2>3
  <2>5. k \in 1 .. n
    BY <1>1, <2>3, <2>4
  <2>6. k \in found /\ rows[k].bucket <= b
    BY <1>1, <1>5, <2>1, <2>2, <2>5 DEF Crossing
  <2> QED
    BY <2>6
(* The bucket of a crossing row is reached.                                *)
<1>12. ASSUME NEW i \in found PROVE rows[i].bucket \in reaching
  <2>1. i \in 1 .. n /\ 100 * Running(rows, i) >= rank
    BY <1>5 DEF Crossing
  <2>2. PICK b \in used : b = rows[i].bucket
    BY <1>7, <2>1
  <2>3. PICK k \in 0 .. n : /\ Reached(rows, n, b) = Running(rows, k)
                            /\ \A j \in 1 .. n : rows[j].bucket <= b <=> j <= k
    BY <1>10
  <2>4. i <= k /\ i \in 0 .. n
    BY <1>1, <2>1, <2>2, <2>3
  <2>5. Running(rows, i) <= Running(rows, k) /\ Running(rows, i) \in Nat /\ Running(rows, k) \in Nat
    BY <1>9, <2>4
  <2>6. 100 * Reached(rows, n, b) >= rank
    BY <1>6, <2>1, <2>3, <2>5
  <2> QED
    BY <1>4, <2>2, <2>6
<1>13. CASE found = {}
  <2>1. reaching = {}
    BY <1>11, <1>13
  <2> QED
    BY <1>6, <1>13, <2>1 DEF IsIn
<1>14. CASE found # {}
  <2>1. PICK m \in 1 .. n : m = Min(found) /\ m \in found
    BY <1>6, <1>14
  <2>2. PICK v : v = percentile(rows, over, q)
    OBVIOUS
  <2>3. /\ Lower(rows, m) \in Nat /\ v \in Nat
        /\ Lower(rows, m) <= v /\ v <= rows[m].bucket
    BY <1>6, <1>14, <2>1, <2>2, Interpolation
  <2>4. reaching # {} /\ reaching \subseteq Nat
    BY <1>7, <1>12, <2>1
  <2>5. Min(reaching) \in reaching /\ \A b \in reaching : Min(reaching) <= b
    BY <2>4, Smallest
  <2>6. Min(reaching) = rows[m].bucket
    <3>1. PICK i \in found : rows[i].bucket <= Min(reaching)
      BY <1>11, <2>5
    <3>2. rows[m].bucket <= rows[i].bucket
      BY <1>6, <1>8, <1>14, <2>1, <3>1
    <3>3. Min(reaching) <= rows[m].bucket
      BY <1>12, <2>1, <2>5
    <3>4. Min(reaching) \in Nat /\ rows[m].bucket \in Nat /\ rows[i].bucket \in Nat
      BY <1>1, <1>15, <2>4, <2>5, <3>1
    <3> QED
      BY <3>1, <3>2, <3>3, <3>4
  <2>7. PICK below : below = {0} \union {b \in used : b < Min(reaching)}
    OBVIOUS
  <2>8. \A b \in below : b \in Nat /\ b <= Lower(rows, m)
    <3>1. ASSUME NEW b \in used, b < rows[m].bucket PROVE b <= Lower(rows, m)
      <4>1. PICK j \in 1 .. n : b = rows[j].bucket
        BY <1>7
      <4>2. ~(m <= j)
        BY <1>1, <1>8, <3>1, <4>1
      <4>3. m # 1 /\ m - 1 \in 1 .. n /\ j <= m - 1
        BY <1>1, <4>1, <4>2
      <4>4. rows[j].bucket <= rows[m - 1].bucket
        BY <1>8, <4>3
      <4> QED
        BY <4>1, <4>3, <4>4 DEF Lower
    <3>2. \A b \in used : b < Min(reaching) => b \in Nat /\ b <= Lower(rows, m)
      BY <1>7, <2>6, <3>1
    <3> QED
      BY <2>3, <2>7, <3>2
  <2>9. Max(below) \in below
    <3>1. PICK u \in Nat : u = Lower(rows, m)
      BY <2>3
    <3>2. below \subseteq Nat /\ below # {} /\ \A b \in below : b <= u
      BY <2>7, <2>8, <3>1
    <3> QED
      BY <3>2, Greatest
  <2>10. Max(below) <= v /\ v <= Min(reaching)
    BY <2>3, <2>6, <2>8, <2>9
  <2> QED
    BY <2>2, <2>4, <2>7, <2>10 DEF IsIn
<1> QED
  BY <1>13, <1>14

(* The sum of one element.                                                 *)
LEMMA SumOfOne ==
  ASSUME NEW f, NEW x, f[x] \in Nat
  PROVE  Sum(f, {x}) = f[x]
<1>1. IsFiniteSet({}) /\ {} \union {x} = {x} /\ x \notin {}
  BY FS_EmptySet
<1>2. Sum(f, {} \union {x}) = f[x] + Sum(f, {})
  BY <1>1, SumAdds
<1> QED
  BY <1>1, <1>2, SumEmpty

(* The length of a sequence of rows.                                       *)
LEMMA LengthOfRows ==
  ASSUME NEW F, NEW n \in Nat, NEW rows \in [1 .. n -> F]
  PROVE  DOMAIN rows = 1 .. n /\ Len(rows) = n
  OBVIOUS

(* bucket_for gives one of the bounds, or the overflow.                    *)
LEMMA BucketFor ==
  ASSUME NEW us
  PROVE  /\ bucket_for(us) \in LATENCY_BUCKETS_MS \union {BUCKET_OVERFLOW}
         /\ BUCKET_OVERFLOW \notin LATENCY_BUCKETS_MS
<1> DEFINE above == {b \in LATENCY_BUCKETS_MS : us \div 1000 <= b}
<1>1. above \subseteq LATENCY_BUCKETS_MS /\ above \subseteq Nat
  BY LadderBounds
<1>2. above # {} => Min(above) \in above
  <2> HIDE DEF above
  <2> QED
    BY <1>1, Smallest
<1>3. bucket_for(us) \in LATENCY_BUCKETS_MS \union {BUCKET_OVERFLOW}
  BY <1>1, <1>2 DEF bucket_for
<1> QED
  BY <1>3, LadderBounds DEF BUCKET_OVERFLOW

(* The tables hold buckets of the ladder or the overflow, and no row that  *)
(* stands for no request; an answer is one of the four, or a refusal.      *)
THEOREM TypeCorrect == Spec => []TypeOK
<1>1. ASSUME TablesInv, NEW C \in SUBSET DOMAIN served, C # {}
      PROVE  Sum(served, C) \in Nat \ {0}
  <2>1. IsFiniteSet(C) /\ \A s \in C : served[s] \in Nat \ {0}
    BY <1>1, FS_Subset DEF TablesInv, ServedInv
  <2>2. PICK s : s \in C
    BY <1>1
  <2>3. Sum(served, C) = served[s] + Sum(served, C \ {s})
    BY <2>1, <2>2, SumTakes
  <2>4. IsFiniteSet(C \ {s}) /\ \A y \in C \ {s} : served[y] \in Nat
    BY <2>1, FS_Subset
  <2>5. Sum(served, C \ {s}) \in Nat
    BY <2>4, SumType
  <2> QED
    BY <2>1, <2>2, <2>3, <2>5
<1>2. TablesInv => \A key \in DOMAIN usage_daily : usage_daily[key].requests \in Nat \ {0}
  <2> SUFFICES ASSUME TablesInv, NEW key \in DOMAIN usage_daily
               PROVE  usage_daily[key].requests \in Nat \ {0}
    OBVIOUS
  <2>1. DailyClass(key) \in SUBSET DOMAIN served /\ DailyClass(key) # {}
    BY DEF TablesInv, DailyInv, DailyClass
  <2> QED
    BY <1>1, <2>1 DEF TablesInv, DailyInv
<1>3. TablesInv => \A key \in DOMAIN usage_latency :
                     /\ key.bucket \in LATENCY_BUCKETS_MS \union {BUCKET_OVERFLOW}
                     /\ usage_latency[key] \in Nat \ {0}
  <2> SUFFICES ASSUME TablesInv, NEW key \in DOMAIN usage_latency
               PROVE  /\ key.bucket \in LATENCY_BUCKETS_MS \union {BUCKET_OVERFLOW}
                      /\ usage_latency[key] \in Nat \ {0}
    OBVIOUS
  <2>1. PICK s \in DOMAIN served : key = LatencyKey(s[2], s[1])
    BY DEF TablesInv, LatencyInv
  <2>2. key.bucket = bucket_for(s[2].us)
    BY <2>1 DEF LatencyKey
  <2>3. LatencyClass(key) \in SUBSET DOMAIN served /\ LatencyClass(key) # {}
    BY <2>1 DEF LatencyClass
  <2> QED
    BY <1>1, <2>2, <2>3, BucketFor DEF TablesInv, LatencyInv
<1>4. TablesInv /\ AnswerInv => TypeOK
  BY <1>2, <1>3 DEF TypeOK, TablesInv, DayInv, AnswerInv
<1> QED
  BY <1>4, TablesInvariant, AnswerInvariant, PTL

(* In whichever order the rows of several days come, they are a ladder, and*)
(* the running count over it is the count of the rows up to a bucket.      *)
LEMMA LadderOfRows ==
  ASSUME NEW F, IsFiniteSet(F),
         \A r \in F : r.requests \in Nat \ {0} /\ r.bucket \in LATENCY_BUCKETS_MS,
         NEW rows \in Sorted(F), NEW n, n = Cardinality(F)
  PROVE  /\ Ladder(rows, n)
         /\ \A b : Reached(rows, n, b) = Requests({r \in F : r.bucket <= b})
         /\ Running(rows, n) = Requests(F)
         /\ \A r \in F : r.bucket \in BucketsOf(rows, n)
         /\ \A b \in BucketsOf(rows, n) : \E r \in F : b = r.bucket
<1>1. n \in Nat
  BY FS_CardinalityType
<1>2. rows \in [1 .. n -> F] /\ Range(rows) = F /\ \A i \in 2 .. Len(rows) : rows[i - 1].bucket <= rows[i].bucket
  BY DEF Sorted
<1>3. DOMAIN rows = 1 .. n /\ Len(rows) = n
  BY <1>1, <1>2, LengthOfRows
<1>4. Ladder(rows, n)
  <2>1. \A i \in 1 .. n : rows[i] \in F
    BY <1>2
  <2> QED
    BY <1>1, <1>2, <1>3, <2>1 DEF Ladder
<1>5. \A r \in F : \E i \in 1 .. n : rows[i] = r
  BY <1>2, <1>3 DEF Range
<1>6. \A i, j \in 1 .. n : rows[i] = rows[j] => i = j
  <2>1. rows \in Surjection(1 .. n, F)
    BY <1>2, <1>5 DEF Surjection
  <2>2. IsFiniteSet(1 .. n) /\ Cardinality(1 .. n) = n
    BY <1>1, FS_Interval
  <2>3. rows \in Injection(1 .. n, F)
    BY <2>1, <2>2, FS_Surjection
  <2> QED
    BY <2>3 DEF Injection, IsInjective
<1> DEFINE f == [j \in DOMAIN rows |-> rows[j].requests]
<1>7. \A j \in 1 .. n : f[j] \in Nat /\ f[j] = rows[j].requests
  BY <1>2, <1>3
<1>8. ASSUME NEW R \in SUBSET F PROVE Requests(R) = Sum(f, Into(1 .. n, rows, R))
  <2> DEFINE h == [r \in R |-> r.requests]
  <2>1. ASSUME NEW r \in R PROVE h[r] = Sum(f, At(1 .. n, rows, r))
    <3>1. PICK i \in 1 .. n : rows[i] = r
      BY <1>5
    <3>2. At(1 .. n, rows, r) = {i}
      BY <1>6, <3>1 DEF At
    <3>3. f[i] \in Nat /\ f[i] = h[r]
      BY <1>7, <3>1
    <3> HIDE DEF f, h
    <3> QED
      BY <3>2, <3>3, SumOfOne
  <2>2. IsFiniteSet(R) /\ IsFiniteSet(1 .. n) /\ DOMAIN h = R
    BY <1>1, FS_Subset, FS_Interval
  <2> HIDE DEF f, h
  <2>3. SumFunction(h) = Sum(f, Into(1 .. n, rows, R))
    <3>1. PICK S : S = 1 .. n
      OBVIOUS
    <3>2. IsFiniteSet(S) /\ (\A j \in S : f[j] \in Nat) /\ \A r \in R : h[r] = Sum(f, At(S, rows, r))
      BY <1>7, <2>1, <2>2, <3>1
    <3>3. SumFunction(h) = Sum(f, Into(S, rows, R))
      BY <2>2, <3>2, RowSums
    <3> QED
      BY <3>1, <3>3
  <2> QED
    BY <2>3 DEF Requests, h
<1>9. ASSUME NEW b PROVE Reached(rows, n, b) = Requests({r \in F : r.bucket <= b})
  <2>1. PICK R \in SUBSET F : R = {r \in F : r.bucket <= b}
    OBVIOUS
  <2>2. Into(1 .. n, rows, R) = {j \in 1 .. n : rows[j].bucket <= b}
    BY <1>2, <2>1 DEF Into
  <2> QED
    BY <1>8, <2>1, <2>2 DEF Reached
<1>10. Running(rows, n) = Requests(F)
  <2>1. Into(1 .. n, rows, F) = 1 .. n
    BY <1>2 DEF Into
  <2> QED
    BY <1>8, <2>1 DEF Running, Sum
<1>11. /\ \A r \in F : r.bucket \in BucketsOf(rows, n)
       /\ \A b \in BucketsOf(rows, n) : \E r \in F : b = r.bucket
  BY <1>2, <1>5 DEF BucketsOf
<1> QED
  BY <1>4, <1>9, <1>10, <1>11

(* The rows of one date of the answer, and the requests they stand for.    *)
LatencyOf(date, G, F) ==
  /\ IsFiniteSet(F)
  /\ \A r \in F : r.requests \in Nat \ {0} /\ r.bucket \in LATENCY_BUCKETS_MS
  /\ Requests(G \ F) \in Nat
  /\ Requests(F) + Requests(G \ F) = Total(Own(date))
  /\ \A b : Requests({r \in F : r.bucket <= b}) = Total(Within(date, b))
  /\ \A r \in F : \E s \in Own(date) : bucket_for(s[2].us) = r.bucket
  /\ \A s \in Own(date) : bucket_for(s[2].us) \in LATENCY_BUCKETS_MS =>
       \E r \in F : r.bucket = bucket_for(s[2].us)

(* They are what the requests of the date, bucket by bucket, make them.    *)
LEMMA LatencyOfDate ==
  ASSUME TablesInv, Asked \in Queries, ~Refused(Asked), NEW dated,
         NEW row, Rows(FoundLatency, Chosen, row),
         \A s \in Chosen : row[s].day = format_day(s[1]) /\ row[s].bucket = bucket_for(s[2].us),
         NEW x \in Chosen, NEW date, date = DateOf(dated, x),
         NEW G, G = Grouped(FoundLatency, dated, date), NEW F, F = Finite(G)
  PROVE  LatencyOf(date, G, F)
<1>1. IsFiniteSet(Chosen) /\ \A s \in Chosen : s[1] \in Int /\ served[s] \in Nat \ {0}
  BY OwnIsSelected
<1>2. Own(date) = {s \in Chosen : DateOf(dated, s) = date}
  BY OwnByDate
<1>3. \A s \in Chosen : row[s] \in FoundLatency /\ Dated(dated, row[s]) = DateOf(dated, s)
  BY DEF Rows, Dated, DateOf
<1>4. \A r \in FoundLatency : \E s \in Chosen : row[s] = r
  BY DEF Rows
<1>5. \A s \in Chosen : row[s] \in G <=> s \in Own(date)
  BY <1>2, <1>3 DEF Grouped
<1>6. \A s \in Chosen : row[s] \in F <=> s \in Own(date) /\ bucket_for(s[2].us) \in LATENCY_BUCKETS_MS
  BY <1>5, BucketFor DEF Finite
<1>7. ASSUME NEW R \in SUBSET FoundLatency
      PROVE  /\ Requests(R) = Sum(served, Into(Chosen, row, R)) /\ Requests(R) \in Nat
             /\ R # {} => Requests(R) # 0
  BY <1>1, RequestsOf
<1>8. G \in SUBSET FoundLatency /\ F \in SUBSET G /\ IsFiniteSet(F)
  <2>1. G \in SUBSET FoundLatency /\ F \in SUBSET G /\ F \in SUBSET FoundLatency /\ IsFiniteSet(FoundLatency)
    BY DEF Grouped, Finite, Rows
  <2> QED
    BY <2>1, FS_Subset
<1>9. \A r \in F : \E s \in Own(date) : row[s] = r /\ bucket_for(s[2].us) = r.bucket
  BY <1>4, <1>5, <1>8
<1>10. ASSUME NEW r \in F PROVE r.requests \in Nat \ {0} /\ r.bucket \in LATENCY_BUCKETS_MS
  <2>1. r \in FoundLatency
    BY <1>8
  <2>2. r.requests = Sum(served, At(Chosen, row, r))
    BY <2>1 DEF Rows
  <2>3. At(Chosen, row, r) = Into(Chosen, row, {r})
    BY DEF At, Into
  <2>4. {r} \in SUBSET FoundLatency /\ {r} # {}
    BY <2>1
  <2>5. r.requests \in Nat \ {0}
    BY <1>7, <2>2, <2>3, <2>4
  <2>6. r.bucket \in LATENCY_BUCKETS_MS
    <3>1. PICK s \in Own(date) : row[s] = r /\ bucket_for(s[2].us) = r.bucket
      BY <1>9
    <3>2. s \in Chosen
      BY <1>2, <3>1
    <3> QED
      BY <1>6, <3>1, <3>2
  <2> QED
    BY <2>5, <2>6
<1>11. Requests(F) + Requests(G \ F) = Total(Own(date)) /\ Requests(G \ F) \in Nat
  <2>1. F \in SUBSET FoundLatency /\ (G \ F) \in SUBSET FoundLatency
    BY <1>8
  <2>2. PICK A, B : A = Into(Chosen, row, F) /\ B = Into(Chosen, row, G \ F)
    OBVIOUS
  <2>3. A \union B = Own(date) /\ A \cap B = {} /\ A \subseteq Chosen /\ B \subseteq Chosen
    BY <1>2, <1>5, <1>8, <2>2 DEF Into
  <2>4. IsFiniteSet(A) /\ IsFiniteSet(B) /\ \A s \in A \union B : served[s] \in Nat
    BY <1>1, <2>3, FS_Subset
  <2>5. Sum(served, A \union B) = Sum(served, A) + Sum(served, B)
    BY <2>3, <2>4, SumJoins
  <2>6. Requests(F) = Sum(served, A) /\ Requests(G \ F) = Sum(served, B) /\ Requests(G \ F) \in Nat
    BY <1>7, <2>1, <2>2
  <2> QED
    BY <2>3, <2>5, <2>6 DEF Total, Sum
<1>12. ASSUME NEW b PROVE Requests({r \in F : r.bucket <= b}) = Total(Within(date, b))
  <2>1. PICK R \in SUBSET FoundLatency : R = {r \in F : r.bucket <= b}
    BY <1>8
  <2>2. Into(Chosen, row, R) = Within(date, b)
    <3>1. \A s \in Chosen : row[s] \in R <=> s \in Within(date, b)
      BY <1>6, <2>1 DEF Within
    <3>2. Within(date, b) \subseteq Chosen
      BY <1>2 DEF Within
    <3> QED
      BY <3>1, <3>2 DEF Into
  <2> QED
    BY <1>7, <2>1, <2>2 DEF Total, Sum
<1>13. ASSUME NEW s \in Own(date), bucket_for(s[2].us) \in LATENCY_BUCKETS_MS
       PROVE  \E r \in F : r.bucket = bucket_for(s[2].us)
  <2>1. s \in Chosen
    BY <1>2
  <2> QED
    BY <1>6, <1>13, <2>1
<1> QED
  BY <1>8, <1>9, <1>10, <1>11, <1>12, <1>13 DEF LatencyOf

(* aggregate_latency: each line has the percentile of the ladder of its    *)
(* date.                                                                   *)
LEMMA PercentilesAreRight ==
  ASSUME TablesInv, AnswerInv, answer.route = "latency"
  PROVE  PercentilesInBucket
<1> DEFINE rows == FoundLatency
           dated == usage_window(Asked).dated
           group(date) == Grouped(rows, dated, date)
           finite(date) == Finite(group(date))
           over(date) == Requests(group(date) \ finite(date))
<1>1. /\ Asked \in Queries /\ ~Refused(Asked)
      /\ \E order \in Orders(rows, dated) : answer.rows = aggregate_latency(order, rows, dated)
  BY DEF AnswerInv
<1>2. PICK order \in Orders(rows, dated) : answer.rows = aggregate_latency(order, rows, dated)
  BY <1>1
<1>3. PICK row : /\ Rows(rows, Chosen, row)
                 /\ \A s \in Chosen : row[s].day = format_day(s[1]) /\ row[s].bucket = bucket_for(s[2].us)
  BY LatencyRows DEF FoundLatency, Chosen
<1> HIDE DEF rows, dated
<1>4. \A r \in rows : \E x \in Chosen : Dated(dated, r) = DateOf(dated, x)
  BY <1>3 DEF Rows, Dated, DateOf
<1>5. \A r \in rows : order[Dated(dated, r)] \in Sorted(finite(Dated(dated, r)))
  BY DEF Orders

(* What a line of the answer has is the percentile over its date's ladder. *)
<1>6. ASSUME NEW l \in answer.rows
      PROVE  \E x \in Chosen : /\ l.date = DateOf(dated, x) /\ l.percentile \in Nat
                               /\ order[l.date] \in Sorted(finite(l.date))
                               /\ l.value_ms = percentile(order[l.date], over(l.date), l.percentile)
  <2>1. PICK r \in rows, q \in Quantiles :
          l = [date |-> Dated(dated, r), percentile |-> q,
               value_ms |-> percentile(order[Dated(dated, r)], over(Dated(dated, r)), q)]
    BY <1>2 DEF aggregate_latency
  <2>2. /\ l.date = Dated(dated, r) /\ l.percentile = q
        /\ l.value_ms = percentile(order[Dated(dated, r)], over(Dated(dated, r)), q)
    <3> HIDE DEF over
    <3> QED
      BY <2>1
  <2>3. q \in Nat
    BY DEF Quantiles
  <2> HIDE DEF over, finite
  <2> QED
    BY <1>4, <1>5, <2>2, <2>3
<1>7. ASSUME NEW l \in answer.rows
      PROVE  \E n : /\ Ladder(order[l.date], n) /\ over(l.date) \in Nat /\ l.percentile \in Nat
                    /\ l.value_ms = percentile(order[l.date], over(l.date), l.percentile)
                    /\ InItsBucket(l)
  <2>1. PICK x \in Chosen : /\ l.date = DateOf(dated, x) /\ l.percentile \in Nat
                            /\ order[l.date] \in Sorted(finite(l.date))
                            /\ l.value_ms = percentile(order[l.date], over(l.date), l.percentile)
    BY <1>6
  <2>2. PICK date, G, F : date = DateOf(dated, x) /\ G = Grouped(FoundLatency, dated, date) /\ F = Finite(G)
    OBVIOUS
  <2>3. /\ IsFiniteSet(F)
        /\ \A r \in F : r.requests \in Nat \ {0} /\ r.bucket \in LATENCY_BUCKETS_MS
        /\ Requests(G \ F) \in Nat
        /\ Requests(F) + Requests(G \ F) = Total(Own(date))
        /\ \A b : Requests({r \in F : r.bucket <= b}) = Total(Within(date, b))
        /\ \A r \in F : \E s \in Own(date) : bucket_for(s[2].us) = r.bucket
        /\ \A s \in Own(date) : bucket_for(s[2].us) \in LATENCY_BUCKETS_MS =>
             \E r \in F : r.bucket = bucket_for(s[2].us)
    <3>1. LatencyOf(date, G, F)
      BY <1>1, <1>3, <2>1, <2>2, LatencyOfDate DEF rows
    <3> QED
      BY <3>1 DEF LatencyOf
  <2>4. PICK seq, n : seq = order[date] /\ n = Cardinality(F) /\ seq \in Sorted(F)
    BY <2>1, <2>2 DEF rows
  <2>5. /\ Ladder(seq, n) /\ Running(seq, n) = Requests(F)
        /\ \A b : Reached(seq, n, b) = Requests({r \in F : r.bucket <= b})
        /\ \A r \in F : r.bucket \in BucketsOf(seq, n)
        /\ \A b \in BucketsOf(seq, n) : \E r \in F : b = r.bucket
    BY <2>3, <2>4, LadderOfRows
  <2>6. over(date) = Requests(G \ F)
    BY <2>2 DEF rows
  <2>7. PICK q, o, total : /\ q = l.percentile /\ o = Requests(G \ F) /\ total = Total(Own(date))
                           /\ q \in Nat /\ o \in Nat
    BY <2>1, <2>3
  <2>8. PICK used : used = {b \in LATENCY_BUCKETS_MS : \E s \in Own(date) : bucket_for(s[2].us) = b}
    OBVIOUS
  <2>9. used = BucketsOf(seq, n)
    BY <2>3, <2>5, <2>8
  <2>10. PICK reaching : reaching = {b \in used : 100 * Total(Within(date, b)) >= q * total}
    OBVIOUS
  <2>11. \A b : Reached(seq, n, b) = Total(Within(date, b))
    BY <2>3, <2>5
  <2>12. Running(seq, n) + o = total
    BY <2>3, <2>5, <2>7
  <2>13. reaching = ReachingBuckets(seq, n, used, q * (Running(seq, n) + o))
    BY <2>10, <2>11, <2>12 DEF ReachingBuckets
  <2>14. IsIn(percentile(seq, o, q), used, reaching)
    BY <2>5, <2>7, <2>9, <2>13, PercentileInItsBucket
  <2>15. l.value_ms = percentile(seq, o, q) /\ l.date = date
    BY <2>1, <2>2, <2>4, <2>6, <2>7
  <2>16. IsIn(l.value_ms, used, reaching)
    BY <2>14, <2>15
  <2>17. InItsBucket(l)
    <3> DEFINE used0 == {b \in LATENCY_BUCKETS_MS : \E s \in Own(l.date) : bucket_for(s[2].us) = b}
               reaching0 == {b \in used0 : 100 * Total(Within(l.date, b)) >= l.percentile * Total(Own(l.date))}
               below0 == {0} \union {b \in used0 : b < Min(reaching0)}
    <3>1. InItsBucket(l) <=> IF reaching0 = {} THEN l.value_ms = Max(LATENCY_BUCKETS_MS)
                             ELSE Max(below0) <= l.value_ms /\ l.value_ms <= Min(reaching0)
      BY DEF InItsBucket
    <3>2. used0 = used
      BY <2>8, <2>15
    <3> HIDE DEF used0
    <3>3. reaching0 = reaching
      BY <2>7, <2>10, <2>15, <3>2
    <3> HIDE DEF reaching0
    <3>4. below0 = {0} \union {b \in used : b < Min(reaching)}
      BY <3>2, <3>3
    <3> HIDE DEF below0
    <3> QED
      BY <2>16, <3>1, <3>3, <3>4, LadderBounds DEF IsIn
  <2> HIDE DEF over
  <2> QED
    BY <2>1, <2>2, <2>4, <2>5, <2>6, <2>7, <2>17
<1>8. ASSUME NEW l1 \in answer.rows, NEW l2 \in answer.rows,
             l1.date = l2.date, l1.percentile <= l2.percentile
      PROVE  l1.value_ms <= l2.value_ms
  <2>1. PICK n : /\ Ladder(order[l1.date], n) /\ over(l1.date) \in Nat /\ l1.percentile \in Nat
                 /\ l1.value_ms = percentile(order[l1.date], over(l1.date), l1.percentile)
    BY <1>7
  <2>2. l2.percentile \in Nat /\ l2.value_ms = percentile(order[l2.date], over(l2.date), l2.percentile)
    BY <1>7
  <2>3. PICK seq, o, p, q : seq = order[l1.date] /\ o = over(l1.date) /\ p = l1.percentile /\ q = l2.percentile
    OBVIOUS
  <2>4. percentile(seq, o, p) <= percentile(seq, o, q)
    <3> HIDE DEF over
    <3>1. Ladder(seq, n) /\ o \in Nat /\ p \in Nat /\ q \in Nat /\ p <= q
      BY <1>8, <2>1, <2>2, <2>3
    <3> QED
      BY <3>1, PercentilesInOrder
  <2> HIDE DEF over
  <2> QED
    BY <1>8, <2>1, <2>2, <2>3, <2>4
<1>9. \A l \in answer.rows : InItsBucket(l)
  BY <1>7
<1> QED
  BY <1>8, <1>9 DEF PercentilesInBucket

(* F55, F60: in every answer of /usage/latency a percentile lies in the    *)
(* bucket in which the requests of its date and scope reach it, as the     *)
(* comment over percentile has it, and a higher percentile is never the    *)
(* lower value, in whichever order the database returns the rows of        *)
(* several days.                                                           *)
THEOREM PercentilesAreInBucket == Spec => []PercentilesInBucket
<1>1. TablesInv /\ AnswerInv => PercentilesInBucket
  <2>1. CASE answer.route = "latency"
    BY <2>1, PercentilesAreRight
  <2>2. CASE answer.route # "latency"
    BY <2>2 DEF PercentilesInBucket
  <2> QED
    BY <2>1, <2>2
<1> QED
  BY <1>1, TablesInvariant, AnswerInvariant, PTL
=============================================================================
