------------------------------- MODULE EcuMProofs -------------------------------
(***************************************************************************)
(* Theorems about EcuM.tla, with the wall clock, the tasks and their       *)
(* supervision, for every value of the constants.                          *)
(***************************************************************************)
EXTENDS EcuM, FiniteSetTheorems, WellFoundedInduction, TLAPS

-----------------------------------------------------------------------------
(* The calendar.  The days before a year as a formula: every fourth year   *)
(* is a leap year from 1970 to 2099.                                       *)

Century == {y \in Int : 1970 <= y /\ y <= 2099}

LEMMA YearsAre ==
    /\ \A y : y \in Years <=> y \in Int /\ 1970 <= y /\ y <= 2100
    /\ \A y : y \in Century <=> y \in Int /\ 1970 <= y /\ y <= 2099
  BY DEF Years, Century

YearStart(y) == 365 * (y - 1970) + (y - 1) \div 4 - 492

LEMMA LeastOK ==
    ASSUME NEW S \in SUBSET Nat, S # {}
    PROVE  \E x \in S : \A y \in S : x <= y
  <1>. DEFINE R == {ss \in Nat \X Nat : ss[1] < ss[2]}
  <1>1. IsWellFoundedOn(R, Nat)
    BY NatLessThanWellFounded DEF OpToRel
  <1>. HIDE DEF R
  <1>2. PICK x \in S : \A y \in S : ~(<<y, x>> \in R)
    BY <1>1, WFMin
  <1>3. \A y \in S : x <= y
    <2>1. ASSUME NEW y \in S PROVE x <= y
      <3>1. <<y, x>> \notin R
        BY <1>2
      <3>2. x \in Nat /\ y \in Nat
        OBVIOUS
      <3>. QED  BY <3>1, <3>2 DEF R
    <2>. QED  BY <2>1
  <1>. QED  BY <1>3

LEMMA LeapYears ==
    ASSUME NEW y \in Century
    PROVE  /\ DaysInMonth(y, 2) = IF y % 4 = 0 THEN 29 ELSE 28
           /\ DaysInYear(y) = IF y % 4 = 0 THEN 366 ELSE 365
           /\ YearStart(y + 1) = YearStart(y) + DaysInYear(y)
           /\ YearStart(y) \in Nat
  <1>0. y \in Int /\ 1970 <= y /\ y <= 2099
    BY YearsAre
  <1>1. IsLeapYear(y) <=> y % 4 = 0
    BY <1>0 DEF IsLeapYear
  <1>2. (y - 1) \div 4 + (IF y % 4 = 0 THEN 1 ELSE 0) = y \div 4
    BY <1>0
  <1>3. DaysInYear(y) = IF y % 4 = 0 THEN 366 ELSE 365
    BY <1>1 DEF DaysInYear
  <1>4. YearStart(y + 1) = 365 * (y - 1969) + y \div 4 - 492
    BY <1>0 DEF YearStart
  <1>5. YearStart(y + 1) = YearStart(y) + DaysInYear(y)
    BY <1>0, <1>2, <1>3, <1>4 DEF YearStart
  <1>6. YearStart(y) \in Nat
    <2>1. (y - 1) \div 4 >= 492
      BY <1>0
    <2>. QED  BY <1>0, <2>1 DEF YearStart
  <1>7. DaysInMonth(y, 2) = IF y % 4 = 0 THEN 29 ELSE 28
    BY <1>1 DEF DaysInMonth, MonthDays
  <1>. QED  BY <1>3, <1>5, <1>6, <1>7

LEMMA DaysBeforeDef ==
    DaysBefore = [y \in Years |-> IF y = 1970 THEN 0 ELSE DaysBefore[y - 1] + DaysInYear(y - 1)]
  <1>. DEFINE P(f) == f = [y \in Years |-> IF y = 1970 THEN 0 ELSE f[y - 1] + DaysInYear(y - 1)]
              g == [y \in Years |-> YearStart(y)]
  <1>1. P(g)
    <2>1. ASSUME NEW y \in Years
          PROVE  g[y] = IF y = 1970 THEN 0 ELSE g[y - 1] + DaysInYear(y - 1)
      <3>1. CASE y = 1970
        BY <3>1 DEF YearStart
      <3>2. CASE y # 1970
        <4>1. PICK z \in Century : y = z + 1 /\ y - 1 = z /\ z \in Years
          <5>1. y - 1 \in Century /\ y - 1 \in Years /\ y = (y - 1) + 1
            BY <3>2, YearsAre
          <5>. QED  BY <5>1
        <4>2. YearStart(z + 1) = YearStart(z) + DaysInYear(z)
          BY LeapYears
        <4>. QED  BY <3>2, <4>1, <4>2
      <3>. QED  BY <3>1, <3>2
    <2>. QED  BY <2>1
  <1>2. DaysBefore = CHOOSE f : P(f)
    BY DEF DaysBefore
  <1>. HIDE DEF P, g
  <1>3. P(DaysBefore)
    BY <1>1, <1>2
  <1>. QED  BY <1>3 DEF P

(* The loop over the years computes the formula. *)
LEMMA DaysBeforeIs == \A y \in Years : DaysBefore[y] = YearStart(y)
  <1>. DEFINE S == {y \in Years : DaysBefore[y] # YearStart(y)}
  <1>. SUFFICES ASSUME S # {} PROVE FALSE
    OBVIOUS
  <1>0. S \in SUBSET Nat
    BY YearsAre
  <1>1. PICK y \in S : \A z \in S : y <= z
    BY <1>0, LeastOK
  <1>2. CASE y = 1970
    <2>1. DaysBefore[y] = 0
      BY <1>2, DaysBeforeDef, YearsAre
    <2>. QED  BY <1>2, <2>1 DEF YearStart
  <1>3. CASE y # 1970
    <2>1. PICK z \in Century : y = z + 1 /\ y - 1 = z /\ z \in Years
      <3>1. y - 1 \in Century /\ y - 1 \in Years /\ y = (y - 1) + 1
        BY <1>3, YearsAre
      <3>. QED  BY <3>1
    <2>2. DaysBefore[z] = YearStart(z)
      <3>1. z \notin S
        BY <1>1, <2>1
      <3>. QED  BY <2>1, <3>1
    <2>3. DaysBefore[y] = DaysBefore[z] + DaysInYear(z)
      BY <1>3, <2>1, DaysBeforeDef
    <2>. QED  BY <2>1, <2>2, <2>3, LeapYears
  <1>. QED  BY <1>2, <1>3

(* The days before a month of a year. *)
Cumulated == <<0, 31, 59, 90, 120, 151, 181, 212, 243, 273, 304, 334>>
MonthStart(y, m) == Cumulated[m] + (IF m > 2 /\ IsLeapYear(y) THEN 1 ELSE 0)

LEMMA MonthLengths ==
    \A y : \A m \in 1 .. 12 :
       /\ DaysInMonth(y, m) \in 28 .. 31
       /\ MonthStart(y, m) \in Nat
       /\ m = 1 => MonthStart(y, m) = 0
       /\ m < 12 => MonthStart(y, m + 1) = MonthStart(y, m) + DaysInMonth(y, m)
       /\ m = 12 => MonthStart(y, m) + DaysInMonth(y, m) = DaysInYear(y)
  <1>. SUFFICES ASSUME NEW y, NEW m \in 1 .. 12
       PROVE /\ DaysInMonth(y, m) \in 28 .. 31
             /\ MonthStart(y, m) \in Nat
             /\ m = 1 => MonthStart(y, m) = 0
             /\ m < 12 => MonthStart(y, m + 1) = MonthStart(y, m) + DaysInMonth(y, m)
             /\ m = 12 => MonthStart(y, m) + DaysInMonth(y, m) = DaysInYear(y)
    OBVIOUS
  <1>1. m \in {1, 2, 3, 4, 5, 6, 7, 8, 9, 10, 11, 12}
    OBVIOUS
  <1>. QED  BY <1>1 DEF MonthStart, Cumulated, DaysInMonth, MonthDays, DaysInYear

LEMMA DaysBeforeMonthIs ==
    \A y : \A m \in 1 .. 12 : DaysBeforeMonth(y, m) = MonthStart(y, m)
  <1>. SUFFICES ASSUME NEW y, NEW m \in 1 .. 12
                PROVE  DaysBeforeMonth(y, m) = MonthStart(y, m)
    OBVIOUS
  <1>. DEFINE Q(f) == f = [k \in 1 .. 12 |-> IF k = 1 THEN 0
                                            ELSE f[k - 1] + DaysInMonth(y, k - 1)]
              g == [k \in 1 .. 12 |-> MonthStart(y, k)]
              before == CHOOSE f : Q(f)
  <1>1. Q(g)
    <2>1. ASSUME NEW k \in 1 .. 12
          PROVE  g[k] = IF k = 1 THEN 0 ELSE g[k - 1] + DaysInMonth(y, k - 1)
      <3>1. CASE k = 1
        BY <3>1, MonthLengths
      <3>2. CASE k # 1
        <4>1. PICK j \in 1 .. 12 : j < 12 /\ k = j + 1 /\ k - 1 = j
          <5>1. k - 1 \in 1 .. 12 /\ k - 1 < 12 /\ k = (k - 1) + 1
            BY <3>2
          <5>. QED  BY <5>1
        <4>. QED  BY <3>2, <4>1, MonthLengths
      <3>. QED  BY <3>1, <3>2
    <2>. QED  BY <2>1
  <1>2. DaysBeforeMonth(y, m) = before[m]
    BY DEF DaysBeforeMonth
  <1>. HIDE DEF Q, g
  <1>3. Q(before)
    BY <1>1
  <1>. HIDE DEF before
  <1>4. \A k \in 1 .. 12 : before[k] = IF k = 1 THEN 0
                                       ELSE before[k - 1] + DaysInMonth(y, k - 1)
    BY <1>3 DEF Q
  <1>. DEFINE S == {k \in 1 .. 12 : before[k] # MonthStart(y, k)}
  <1>5. S = {}
    <2>. SUFFICES ASSUME S # {} PROVE FALSE
      OBVIOUS
    <2>1. PICK k \in S : \A j \in S : k <= j
      <3>1. S \in SUBSET Nat
        OBVIOUS
      <3>. QED  BY <3>1, LeastOK
    <2>2. k # 1
      BY <1>4, MonthLengths
    <2>3. PICK j \in 1 .. 12 : j < 12 /\ k = j + 1 /\ k - 1 = j
      <3>1. k - 1 \in 1 .. 12 /\ k - 1 < 12 /\ k = (k - 1) + 1
        BY <2>2
      <3>. QED  BY <3>1
    <2>4. before[j] = MonthStart(y, j)
      <3>1. j \notin S
        BY <2>1, <2>3
      <3>. QED  BY <3>1
    <2>5. before[k] = before[j] + DaysInMonth(y, j)
      BY <1>4, <2>2, <2>3
    <2>. QED  BY <2>3, <2>4, <2>5, MonthLengths
  <1>. QED  BY <1>2, <1>5

LEMMA YearsApart ==
    ASSUME NEW y \in Century, NEW z \in Years, y < z
    PROVE  YearStart(y) + DaysInYear(y) <= YearStart(z)
  <1>1. YearStart(y) + DaysInYear(y) = YearStart(y + 1)
    BY LeapYears
  <1>0. y \in Int /\ 1970 <= y /\ z \in Int
    BY YearsAre
  <1>2. y \div 4 <= (z - 1) \div 4
    BY <1>0
  <1>3. YearStart(y + 1) = 365 * (y - 1969) + y \div 4 - 492
    BY <1>0 DEF YearStart
  <1>. QED  BY <1>0, <1>1, <1>2, <1>3 DEF YearStart

LEMMA MonthsApart ==
    ASSUME NEW y, NEW m \in 1 .. 12, NEW n \in 1 .. 12, m < n
    PROVE  MonthStart(y, m) + DaysInMonth(y, m) <= MonthStart(y, n)
  <1>1. MonthStart(y, m) + DaysInMonth(y, m) = MonthStart(y, m + 1)
    BY MonthLengths
  <1>2. MonthStart(y, m + 1) <= MonthStart(y, n)
    <2>1. m \in {1, 2, 3, 4, 5, 6, 7, 8, 9, 10, 11} /\ n \in {2, 3, 4, 5, 6, 7, 8, 9, 10, 11, 12}
      OBVIOUS
    <2>2. Cumulated[m + 1] <= Cumulated[n]
      BY <2>1 DEF Cumulated
    <2>3. Cumulated[m + 1] \in Int /\ Cumulated[n] \in Int
      BY <2>1 DEF Cumulated
    <2>. HIDE DEF Cumulated
    <2>. QED  BY <2>2, <2>3 DEF MonthStart
  <1>. QED  BY <1>1, <1>2

(* A day has one date, from 1970 to 2099. *)
DatedAs(d, y, m, k) ==
    /\ y \in Century /\ m \in 1 .. 12 /\ k \in 1 .. DaysInMonth(y, m)
    /\ d = YearStart(y) + MonthStart(y, m) + k - 1

LEMMA MonthFits ==
    ASSUME NEW y \in Century, NEW m \in 1 .. 12
    PROVE  /\ DaysInMonth(y, m) \in 28 .. 31 /\ MonthStart(y, m) \in Nat
           /\ DaysInYear(y) \in Nat /\ YearStart(y) \in Nat
           /\ MonthStart(y, m) + DaysInMonth(y, m) <= DaysInYear(y)
  <1>1. /\ DaysInMonth(y, m) \in 28 .. 31 /\ MonthStart(y, m) \in Nat
        /\ DaysInYear(y) \in Nat /\ YearStart(y) \in Nat
    BY MonthLengths, LeapYears
  <1>2. CASE m = 12
    BY <1>1, <1>2, MonthLengths
  <1>3. CASE m # 12
    <2>1. MonthStart(y, m) + DaysInMonth(y, m) <= MonthStart(y, 12)
      BY <1>3, MonthsApart
    <2>2. MonthStart(y, 12) + DaysInMonth(y, 12) = DaysInYear(y) /\ DaysInMonth(y, 12) \in 28 .. 31
      BY MonthLengths
    <2>3. MonthStart(y, 12) \in Nat
      BY MonthLengths
    <2>. QED  BY <1>1, <2>1, <2>2, <2>3
  <1>. QED  BY <1>1, <1>2, <1>3

LEMMA ToDateIs ==
    ASSUME NEW d, NEW y, NEW m, NEW k, DatedAs(d, y, m, k)
    PROVE  ToDate(d) = [year |-> y, month |-> m, day |-> k]
  <1>1. /\ y \in Century /\ m \in 1 .. 12 /\ k \in 1 .. DaysInMonth(y, m)
        /\ d = YearStart(y) + MonthStart(y, m) + k - 1
        /\ y \in Years
    BY YearsAre DEF DatedAs
  <1>2. /\ DaysInMonth(y, m) \in 28 .. 31 /\ MonthStart(y, m) \in Nat
        /\ DaysInYear(y) \in Nat /\ YearStart(y) \in Nat
        /\ MonthStart(y, m) + DaysInMonth(y, m) <= DaysInYear(y)
    BY <1>1, MonthFits
  <1>3. k \in Nat /\ d \in Nat
    BY <1>1, <1>2
  <1>4. YearStart(y) <= d /\ d < YearStart(y) + DaysInYear(y)
    BY <1>1, <1>2, <1>3
  <1>. DEFINE InYear(z) == DaysBefore[z] <= d /\ d < DaysBefore[z] + DaysInYear(z)
              year == CHOOSE z \in Years : InYear(z)
              InMonth(n) == DaysBeforeMonth(y, n) <= d - DaysBefore[y]
                            /\ d - DaysBefore[y] < DaysBeforeMonth(y, n) + DaysInMonth(y, n)
              month == CHOOSE n \in 1 .. 12 : InMonth(n)
  <1>5. InYear(y)
    BY <1>1, <1>4, DaysBeforeIs
  <1>6. ASSUME NEW z \in Years, InYear(z)
        PROVE  z = y
    <2>1. YearStart(z) <= d
      BY <1>6, DaysBeforeIs
    <2>2. YearStart(z) \in Int /\ z \in Int
      BY YearsAre DEF YearStart
    <2>3. ~(y < z)
      <3>1. SUFFICES ASSUME y < z PROVE FALSE
        OBVIOUS
      <3>2. YearStart(y) + DaysInYear(y) <= YearStart(z)
        BY <1>1, <3>1, YearsApart
      <3>. QED  BY <3>2, <2>1, <2>2, <1>2, <1>3, <1>4
    <2>4. ~(z < y)
      <3>1. SUFFICES ASSUME z < y PROVE FALSE
        OBVIOUS
      <3>2. z \in Century
        BY <1>1, <3>1, YearsAre
      <3>3. YearStart(z) + DaysInYear(z) <= YearStart(y) /\ DaysInYear(z) \in Nat
        BY <1>1, <3>1, <3>2, YearsApart, LeapYears
      <3>4. d < YearStart(z) + DaysInYear(z)
        BY <1>6, DaysBeforeIs
      <3>. QED  BY <3>3, <3>4, <2>2, <1>2, <1>3, <1>4
    <2>. QED  BY <1>1, <2>2, <2>3, <2>4
  <1>7. year = y
    <2>. HIDE DEF InYear
    <2>. QED  BY <1>1, <1>5, <1>6
  <1>8. d - DaysBefore[y] = MonthStart(y, m) + k - 1 /\ DaysBefore[y] = YearStart(y)
    BY <1>1, <1>2, <1>3, DaysBeforeIs
  <1>9. InMonth(m)
    BY <1>1, <1>2, <1>3, <1>8, DaysBeforeMonthIs
  <1>10. ASSUME NEW n \in 1 .. 12, InMonth(n)
         PROVE  n = m
    <2>. DEFINE r == d - DaysBefore[y]
    <2>1. r = MonthStart(y, m) + k - 1
      BY <1>8
    <2>2. MonthStart(y, n) <= r /\ r < MonthStart(y, n) + DaysInMonth(y, n)
      BY <1>10, DaysBeforeMonthIs
    <2>. HIDE DEF r
    <2>3. DaysInMonth(y, n) \in 28 .. 31 /\ MonthStart(y, n) \in Nat
      BY MonthLengths
    <2>4. ~(m < n)
      <3>1. SUFFICES ASSUME m < n PROVE FALSE
        OBVIOUS
      <3>2. MonthStart(y, m) + DaysInMonth(y, m) <= MonthStart(y, n)
        BY <1>1, <3>1, MonthsApart
      <3>. QED  BY <1>1, <1>2, <1>3, <2>1, <2>2, <2>3, <3>2
    <2>5. ~(n < m)
      <3>1. SUFFICES ASSUME n < m PROVE FALSE
        OBVIOUS
      <3>2. MonthStart(y, n) + DaysInMonth(y, n) <= MonthStart(y, m)
        BY <1>1, <3>1, MonthsApart
      <3>. QED  BY <1>1, <1>2, <1>3, <2>1, <2>2, <2>3, <3>2
    <2>. QED  BY <1>1, <2>4, <2>5
  <1>11. month = m
    <2>. HIDE DEF InMonth
    <2>. QED  BY <1>1, <1>9, <1>10
  <1>12. ToDate(d) = [year |-> year, month |-> month,
                      day |-> d - DaysBefore[y] - DaysBeforeMonth(y, month) + 1]
    BY <1>7 DEF ToDate
  <1>. HIDE DEF year, month
  <1>13. DaysBeforeMonth(y, month) = MonthStart(y, m)
    BY <1>1, <1>11, DaysBeforeMonthIs
  <1>14. d - DaysBefore[y] - DaysBeforeMonth(y, month) + 1 = k
    BY <1>2, <1>3, <1>8, <1>13
  <1>. QED  BY <1>7, <1>11, <1>12, <1>14

LEMMA HasDate ==
    ASSUME NEW d \in Int, 0 <= d, d <= 47481
    PROVE  \E y, m, k : DatedAs(d, y, m, k)
  <1>1. PICK y \in Century : YearStart(y) <= d /\ d < YearStart(y) + DaysInYear(y)
    <2>. DEFINE S == {z \in Years : d < YearStart(z)}
    <2>1. YearStart(2100) = 47482 /\ YearStart(1970) = 0
      BY DEF YearStart
    <2>2. S \in SUBSET Nat /\ 2100 \in S
      BY <2>1, YearsAre
    <2>3. PICK z \in S : \A x \in S : z <= x
      <3>. HIDE DEF S
      <3>1. S # {}
        BY <2>2
      <3>. QED  BY <2>2, <3>1, LeastOK
    <2>4. z # 1970
      BY <2>1
    <2>5. PICK y \in Century : z = y + 1
      <3>1. z - 1 \in Century /\ z = (z - 1) + 1
        BY <2>4, YearsAre
      <3>. QED  BY <3>1
    <2>6. y \notin S
      BY <2>3, <2>5, YearsAre
    <2>7. YearStart(z) = YearStart(y) + DaysInYear(y) /\ YearStart(y) \in Nat
      BY <2>5, LeapYears
    <2>. QED  BY <2>5, <2>6, <2>7, YearsAre
  <1>. DEFINE r == d - YearStart(y)
  <1>2. YearStart(y) \in Nat /\ DaysInYear(y) \in Nat
    BY LeapYears
  <1>3. r \in Nat /\ r < DaysInYear(y) /\ d = YearStart(y) + r
    BY <1>1, <1>2
  <1>. HIDE DEF r
  <1>4. PICK m \in 1 .. 12 : MonthStart(y, m) <= r /\ r < MonthStart(y, m) + DaysInMonth(y, m)
    <2>. DEFINE S == {n \in 1 .. 12 : r < MonthStart(y, n) + DaysInMonth(y, n)}
    <2>1. 12 \in S /\ S \in SUBSET Nat
      BY <1>3, MonthLengths
    <2>2. PICK m \in S : \A x \in S : m <= x
      BY <2>1, LeastOK
    <2>3. CASE m = 1
      <3>1. MonthStart(y, m) = 0
        BY <2>3, MonthLengths
      <3>. QED  BY <1>3, <3>1
    <2>4. CASE m # 1
      <3>1. PICK n \in 1 .. 12 : n < 12 /\ m = n + 1
        <4>1. m - 1 \in 1 .. 12 /\ m - 1 < 12 /\ m = (m - 1) + 1
          BY <2>4
        <4>. QED  BY <4>1
      <3>2. n \notin S
        BY <2>2, <3>1
      <3>3. MonthStart(y, m) = MonthStart(y, n) + DaysInMonth(y, n)
        BY <3>1, MonthLengths
      <3>4. MonthStart(y, m) \in Nat
        BY MonthLengths
      <3>. QED  BY <1>3, <3>2, <3>3, <3>4
    <2>. QED  BY <2>3, <2>4
  <1>5. MonthStart(y, m) \in Nat /\ DaysInMonth(y, m) \in 28 .. 31
    BY MonthLengths
  <1>. DEFINE k == r - MonthStart(y, m) + 1
  <1>6. k \in 1 .. DaysInMonth(y, m) /\ d = YearStart(y) + MonthStart(y, m) + k - 1
    BY <1>2, <1>3, <1>4, <1>5
  <1>. HIDE DEF k
  <1>7. DatedAs(d, y, m, k)
    BY <1>6 DEF DatedAs
  <1>. QED  BY <1>7

(* The two conversions are inverse. *)
LEMMA RoundTrip ==
    ASSUME NEW d \in Int, 0 <= d, d <= 47481
    PROVE  FromDate(ToDate(d)) = d
  <1>1. PICK y, m, k : DatedAs(d, y, m, k)
    BY HasDate
  <1>2. ToDate(d) = [year |-> y, month |-> m, day |-> k]
    BY <1>1, ToDateIs
  <1>3. y \in Years /\ y \in Century /\ m \in 1 .. 12 /\ d = YearStart(y) + MonthStart(y, m) + k - 1
    BY <1>1, YearsAre DEF DatedAs
  <1>4. DaysBefore[y] = YearStart(y) /\ DaysBeforeMonth(y, m) = MonthStart(y, m)
    BY <1>3, DaysBeforeIs, DaysBeforeMonthIs
  <1>. QED  BY <1>2, <1>3, <1>4 DEF FromDate

(* The chip's calendar agrees with the one of the code. *)
LEMMA NextDayIs ==
    ASSUME NEW d \in Int, 0 <= d, d <= 47480
    PROVE  ToDate(d + 1) = NextDay(ToDate(d))
  <1>1. PICK y, m, k : DatedAs(d, y, m, k)
    BY HasDate
  <1>2. ToDate(d) = [year |-> y, month |-> m, day |-> k]
    BY <1>1, ToDateIs
  <1>3. /\ y \in Century /\ m \in 1 .. 12 /\ k \in 1 .. DaysInMonth(y, m)
        /\ d = YearStart(y) + MonthStart(y, m) + k - 1
    BY <1>1 DEF DatedAs
  <1>4. /\ DaysInMonth(y, m) \in 28 .. 31 /\ MonthStart(y, m) \in Nat
        /\ YearStart(y) \in Nat /\ k \in Nat
    BY <1>3, MonthFits
  <1>5. ChipMonth(ToDate(d)) = DaysInMonth(y, m)
    <2>1. CASE m = 2
      BY <1>2, <1>3, <2>1, LeapYears DEF ChipMonth
    <2>2. CASE m # 2
      <3>1. m \in {1, 3, 4, 5, 6, 7, 8, 9, 10, 11, 12}
        BY <1>3, <2>2
      <3>. QED  BY <1>2, <2>2, <3>1 DEF ChipMonth, DaysInMonth, MonthDays
    <2>. QED  BY <2>1, <2>2
  <1>6. CASE k < DaysInMonth(y, m)
    <2>1. k + 1 \in 1 .. DaysInMonth(y, m) /\ d + 1 = YearStart(y) + MonthStart(y, m) + (k + 1) - 1
      BY <1>3, <1>4, <1>6
    <2>2. DatedAs(d + 1, y, m, k + 1)
      BY <1>3, <2>1 DEF DatedAs
    <2>3. ToDate(d + 1) = [year |-> y, month |-> m, day |-> k + 1]
      BY <2>2, ToDateIs
    <2>. QED  BY <1>2, <1>5, <1>6, <2>3 DEF NextDay
  <1>7. CASE ~(k < DaysInMonth(y, m)) /\ m < 12
    <2>1. k = DaysInMonth(y, m)
      BY <1>3, <1>4, <1>7
    <2>2. MonthStart(y, m + 1) = MonthStart(y, m) + DaysInMonth(y, m)
      BY <1>3, <1>7, MonthLengths
    <2>3. m + 1 \in 1 .. 12
      BY <1>3, <1>7
    <2>4. DaysInMonth(y, m + 1) \in 28 .. 31
      BY <2>3, MonthLengths
    <2>5. DatedAs(d + 1, y, m + 1, 1)
      BY <1>3, <1>4, <2>1, <2>2, <2>3, <2>4 DEF DatedAs
    <2>6. ToDate(d + 1) = [year |-> y, month |-> m + 1, day |-> 1]
      BY <2>5, ToDateIs
    <2>7. NextDay(ToDate(d)) = [ToDate(d) EXCEPT !.month = @ + 1, !.day = 1]
      BY <1>2, <1>5, <1>7 DEF NextDay
    <2>. DEFINE next == [ToDate(d) EXCEPT !.month = @ + 1]
    <2>8. next = [year |-> y, month |-> m + 1, day |-> k]
      BY <1>2
    <2>9. NextDay(ToDate(d)) = [next EXCEPT !.day = 1]
      BY <2>7
    <2>. HIDE DEF next
    <2>10. NextDay(ToDate(d)) = [year |-> y, month |-> m + 1, day |-> 1]
      BY <2>8, <2>9
    <2>. QED  BY <2>6, <2>10
  <1>8. CASE ~(k < DaysInMonth(y, m)) /\ ~(m < 12)
    <2>1. k = DaysInMonth(y, m) /\ m = 12
      BY <1>3, <1>4, <1>8
    <2>2. YearStart(y) + DaysInYear(y) = d + 1 /\ YearStart(y + 1) = d + 1
      <3>1. MonthStart(y, m) + DaysInMonth(y, m) = DaysInYear(y)
        BY <1>3, <2>1, MonthLengths
      <3>. QED  BY <1>3, <1>4, <2>1, <3>1, LeapYears
    <2>3. y + 1 \in Century
      <3>1. YearStart(2100) = 47482
        BY DEF YearStart
      <3>2. y # 2099
        BY <2>2, <3>1
      <3>. QED  BY <1>3, <3>2, YearsAre
    <2>4. MonthStart(y + 1, 1) = 0 /\ DaysInMonth(y + 1, 1) \in 28 .. 31
      BY MonthLengths
    <2>5. DatedAs(d + 1, y + 1, 1, 1)
      BY <2>2, <2>3, <2>4 DEF DatedAs
    <2>6. ToDate(d + 1) = [year |-> y + 1, month |-> 1, day |-> 1]
      BY <2>5, ToDateIs
    <2>. QED  BY <1>2, <1>5, <1>8, <2>6 DEF NextDay
  <1>. QED  BY <1>6, <1>7, <1>8

-----------------------------------------------------------------------------
(* The counter that wraps.                                                 *)

LEMMA Division ==
    ASSUME NEW a \in Nat, NEW w \in Nat, w > 0
    PROVE  a \div w \in Nat /\ (a % w) \in Nat /\ (a % w) < w /\ a = w * (a \div w) + (a % w)
  OBVIOUS

LEMMA DivisionUnique ==
    ASSUME NEW w \in Nat, w > 0, NEW q \in Nat, NEW p \in Nat, NEW r \in Nat, NEW s \in Nat,
           r < w, s < w, w * q + r = w * p + s
    PROVE  q = p /\ r = s
  <1>1. ~(q < p)
    <2>1. SUFFICES ASSUME q + 1 <= p PROVE FALSE
      OBVIOUS
    <2>2. w * (q + 1) <= w * p
      BY <2>1
    <2>. QED  BY <2>2
  <1>2. ~(p < q)
    <2>1. SUFFICES ASSUME p + 1 <= q PROVE FALSE
      OBVIOUS
    <2>2. w * (p + 1) <= w * q
      BY <2>1
    <2>. QED  BY <2>2
  <1>. QED  BY <1>1, <1>2

LEMMA OneMore ==
    ASSUME NEW a \in Nat, NEW w \in Nat, w > 0
    PROVE  \/ (a + 1) \div w = a \div w /\ (a + 1) % w = (a % w) + 1
           \/ (a + 1) \div w = (a \div w) + 1 /\ (a + 1) % w = 0
  <1>1. a \div w \in Nat /\ (a % w) \in Nat /\ (a % w) < w /\ a = w * (a \div w) + (a % w)
    BY Division
  <1>2. /\ (a + 1) \div w \in Nat /\ ((a + 1) % w) \in Nat /\ ((a + 1) % w) < w
        /\ a + 1 = w * ((a + 1) \div w) + ((a + 1) % w)
    BY Division
  <1>3. CASE (a % w) + 1 < w
    <2>1. w * (a \div w) + ((a % w) + 1) = w * ((a + 1) \div w) + ((a + 1) % w)
      BY <1>1, <1>2
    <2>. QED  BY <1>1, <1>2, <1>3, <2>1, DivisionUnique
  <1>4. CASE (a % w) + 1 = w
    <2>1. w * ((a \div w) + 1) + 0 = w * ((a + 1) \div w) + ((a + 1) % w)
      BY <1>1, <1>2, <1>4
    <2>. QED  BY <1>1, <1>2, <1>4, <2>1, DivisionUnique
  <1>. QED  BY <1>1, <1>3, <1>4

LEMMA DivisionMonotone ==
    ASSUME NEW a \in Nat, NEW b \in Nat, NEW w \in Nat, w > 0, b <= a
    PROVE  b \div w <= a \div w
  <1>1. /\ a \div w \in Nat /\ (a % w) < w /\ (a % w) \in Nat /\ a = w * (a \div w) + (a % w)
        /\ b \div w \in Nat /\ (b % w) < w /\ (b % w) \in Nat /\ b = w * (b \div w) + (b % w)
    BY Division
  <1>. SUFFICES ASSUME (a \div w) + 1 <= b \div w PROVE FALSE
    BY <1>1
  <1>2. w * ((a \div w) + 1) <= w * (b \div w)
    BY <1>1
  <1>. QED  BY <1>1, <1>2

-----------------------------------------------------------------------------
(* The clock.  What the chip shows is a day that has been, or its epoch;   *)
(* what the clock shows is not in the future.                              *)

PastDates == {ToDate(d) : d \in FirstDay .. today} \cup {Epoch2000}

TimeInv ==
    /\ today \in FirstDay .. LastDay /\ uptime \in Nat /\ setAt \in 0 .. uptime
    /\ rtc \in [date : PastDates, stopped : BOOLEAN]
    /\ clock \in [valid : BOOLEAN, present : BOOLEAN, offset : Int]
    /\ stale \in BOOLEAN
    /\ ~stale => rtc.date = ToDate(today)
    /\ clock.valid => clock.offset >= 0 /\ Reading <= today
    /\ ClockTrue

LEMMA DaysOfRun ==
    ASSUME NEW d \in Int, FirstDay <= d, d <= LastDay
    PROVE  d \in Nat /\ 10957 < d /\ d <= 47481 /\ Wrap < d + 1
  BY TimeAbsAssumption

LEMMA EpochIs ==
    FromDate(Epoch2000) = 10957
  <1>1. 2000 \in Years
    BY YearsAre
  <1>2. DaysBefore[2000] = 10957 /\ DaysBeforeMonth(2000, 1) = 0
    BY <1>1, DaysBeforeIs, DaysBeforeMonthIs, MonthLengths DEF YearStart
  <1>. QED  BY <1>2 DEF FromDate, Epoch2000

(* What the chip is read as. *)
LEMMA RtcReadIs ==
    ASSUME TimeInv
    PROVE  /\ RtcRead \in Nat
           /\ Plausible(RtcRead) => RtcRead <= today
           /\ ~stale => RtcRead = today
  <1>1. /\ today \in Int /\ FirstDay <= today /\ today <= LastDay
        /\ rtc.date \in PastDates /\ (~stale => rtc.date = ToDate(today))
    BY TimeAbsAssumption DEF TimeInv
  <1>2. ASSUME NEW d \in FirstDay .. today, rtc.date = ToDate(d)
        PROVE  RtcRead = d /\ d \in Nat /\ d <= today
    <2>1. d \in Int /\ FirstDay <= d /\ d <= LastDay /\ d <= today
      BY <1>1, TimeAbsAssumption
    <2>2. 0 <= d /\ d <= 47481 /\ d \in Nat
      BY <2>1, DaysOfRun
    <2>. QED  BY <1>2, <2>1, <2>2, RoundTrip DEF RtcRead
  <1>3. CASE rtc.date = Epoch2000
    <2>1. RtcRead = 10957 /\ ~Plausible(RtcRead)
      BY <1>3, EpochIs, TimeAbsAssumption DEF RtcRead, Plausible
    <2>2. ~stale => RtcRead = today
      BY <1>1, <1>2
    <2>. QED  BY <2>1, <2>2
  <1>4. CASE \E d \in FirstDay .. today : rtc.date = ToDate(d)
    <2>1. ~stale => RtcRead = today
      BY <1>1, <1>2
    <2>. QED  BY <1>2, <1>4, <2>1
  <1>. QED  BY <1>1, <1>3, <1>4 DEF PastDates

LEMMA TimeInitially == TimeInit => TimeInv
  <1>. SUFFICES ASSUME TimeInit PROVE TimeInv
    OBVIOUS
  <1>1. FirstDay \in FirstDay .. LastDay /\ FirstDay \in FirstDay .. FirstDay
    BY TimeAbsAssumption
  <1>2. ToDate(FirstDay) \in PastDates
    BY <1>1 DEF TimeInit, PastDates
  <1>3. /\ today = FirstDay /\ uptime = 0 /\ setAt = 0 /\ stale = FALSE
        /\ rtc = [date |-> ToDate(FirstDay), stopped |-> FALSE]
        /\ clock = [valid |-> FALSE, present |-> FALSE, offset |-> 0]
    BY DEF TimeInit, NoClock
  <1>. HIDE DEF PastDates
  <1>4. today \in FirstDay .. LastDay /\ uptime \in Nat /\ setAt \in 0 .. uptime
    BY <1>1, <1>3
  <1>5. clock \in [valid : BOOLEAN, present : BOOLEAN, offset : Int] /\ ~clock.valid
    BY <1>3
  <1>6. rtc \in [date : PastDates, stopped : BOOLEAN] /\ rtc.date = ToDate(today)
    BY <1>2, <1>3
  <1>. QED  BY <1>3, <1>4, <1>5, <1>6 DEF TimeInv, ClockTrue

LEMMA TimeUnchanged ==
    ASSUME TimeInv, UNCHANGED timeVars
    PROVE  TimeInv'
  BY DEF TimeInv, timeVars, ClockTrue, Reading, Counter, PastDates

LEMMA CounterIs ==
    ASSUME uptime \in Nat
    PROVE  Counter \in Nat /\ Counter < Wrap
  BY Division, TimeAbsAssumption DEF Counter

LEMMA TimeRestart ==
    ASSUME TimeInv, RestartTime
    PROVE  TimeInv' /\ clock' = NoClock /\ uptime' = 0
  BY DEF TimeInv, RestartTime, ClockTrue, PastDates, NoClock

(* A clock that is not valid asks little. *)
LEMMA TimeInvalid ==
    ASSUME TimeInv, UNCHANGED <<today, uptime, stale>>, setAt' = uptime,
           rtc' = rtc \/ rtc' = [rtc EXCEPT !.stopped = FALSE],
           clock' = NoClock \/ clock' = [NoClock EXCEPT !.present = TRUE]
    PROVE  TimeInv'
  <1>1. clock' \in [valid : BOOLEAN, present : BOOLEAN, offset : Int] /\ ~clock'.valid
    <2>1. CASE clock' = NoClock
      BY <2>1 DEF NoClock
    <2>2. CASE clock' = [NoClock EXCEPT !.present = TRUE]
      <3>1. NoClock \in [valid : BOOLEAN, present : BOOLEAN, offset : Int] /\ ~NoClock.valid
        BY DEF NoClock
      <3>2. \A c \in [valid : BOOLEAN, present : BOOLEAN, offset : Int] :
               /\ [c EXCEPT !.present = TRUE] \in [valid : BOOLEAN, present : BOOLEAN, offset : Int]
               /\ [c EXCEPT !.present = TRUE].valid = c.valid
        OBVIOUS
      <3>. QED  BY <2>2, <3>1, <3>2
    <2>. QED  BY <2>1, <2>2
  <1>2. rtc' \in [date : PastDates', stopped : BOOLEAN] /\ rtc'.date = rtc.date
    <2>1. PastDates' = PastDates /\ rtc \in [date : PastDates, stopped : BOOLEAN]
      BY DEF TimeInv, PastDates
    <2>. QED  BY <2>1
  <1>. QED  BY <1>1, <1>2 DEF TimeInv, ClockTrue

LEMMA TimeStart ==
    ASSUME TimeInv, StartClock \/ StartClockFails
    PROVE  TimeInv' /\ uptime' = uptime
  <1>1. CASE StartClockFails
    <2>1. /\ UNCHANGED <<today, uptime, stale, rtc>> /\ setAt' = uptime
          /\ clock' = NoClock \/ clock' = [NoClock EXCEPT !.present = TRUE]
      BY <1>1 DEF StartClockFails
    <2>. QED  BY <2>1, TimeInvalid
  <1>2. CASE StartClock /\ rtc.stopped
    <2>1. /\ UNCHANGED <<today, uptime, stale>> /\ setAt' = uptime
          /\ rtc' = [rtc EXCEPT !.stopped = FALSE] /\ clock' = NoClock
      BY <1>2 DEF StartClock
    <2>. QED  BY <2>1, TimeInvalid
  <1>3. CASE StartClock /\ ~rtc.stopped /\ ~Plausible(RtcRead)
    <2>1. /\ UNCHANGED <<today, uptime, stale, rtc>> /\ setAt' = uptime
          /\ clock' = [NoClock EXCEPT !.present = TRUE]
      BY <1>3 DEF StartClock
    <2>. QED  BY <2>1, TimeInvalid
  <1>4. CASE StartClock /\ ~rtc.stopped /\ Plausible(RtcRead)
    <2>1. /\ setAt' = uptime /\ UNCHANGED <<today, uptime, stale, rtc>>
          /\ clock' = [valid |-> TRUE, present |-> TRUE, offset |-> RtcRead - Counter]
      BY <1>4 DEF StartClock
    <2>2. uptime \in Nat /\ today \in Int
      BY DEF TimeInv
    <2>3. RtcRead \in Nat /\ RtcRead <= today /\ (~stale => RtcRead = today) /\ MinPlausible <= RtcRead
      BY <1>4, RtcReadIs, TimeAbsAssumption DEF Plausible
    <2>4. Counter \in Nat /\ Counter < Wrap /\ Counter' = Counter
      BY <2>1, <2>2, CounterIs DEF Counter
    <2>5. clock'.offset \in Int /\ clock'.offset >= 0 /\ Reading' = RtcRead
      <3>1. Reading' = clock'.offset + Counter' /\ clock'.offset = RtcRead - Counter
        BY <2>1 DEF Reading
      <3>. QED  BY <3>1, <2>3, <2>4, TimeAbsAssumption
    <2>6. clock' \in [valid : BOOLEAN, present : BOOLEAN, offset : Int]
      BY <2>1, <2>5
    <2>7. ClockTrue'
      BY <2>1, <2>3, <2>5 DEF ClockTrue
    <2>. QED  BY <2>1, <2>2, <2>3, <2>5, <2>6, <2>7 DEF TimeInv, PastDates
  <1>. QED  BY <1>1, <1>2, <1>3, <1>4

LEMMA TimeSynchronise ==
    ASSUME TimeInv, NEW taken, Synchronise(taken)
    PROVE  TimeInv' /\ uptime' = uptime
  <1>1. /\ setAt' = uptime /\ UNCHANGED <<today, uptime>>
        /\ clock' = [clock EXCEPT !.valid = TRUE, !.offset = today - Counter]
    BY DEF Synchronise
  <1>2. \/ rtc' = [rtc EXCEPT !.date = ToDate(today)] /\ stale' = FALSE
        \/ UNCHANGED <<rtc, stale>>
    BY DEF Synchronise, RtcWrite
  <1>3. uptime \in Nat /\ today \in FirstDay .. LastDay
    BY DEF TimeInv
  <1>4. Counter \in Nat /\ Counter < Wrap /\ Counter' = Counter
    BY <1>1, <1>3, CounterIs DEF Counter
  <1>5. today - Counter \in Int /\ today - Counter >= 0
    BY <1>3, <1>4, TimeAbsAssumption
  <1>6. clock \in [valid : BOOLEAN, present : BOOLEAN, offset : Int]
    BY DEF TimeInv
  <1>7. clock'.valid /\ clock'.offset = today - Counter
        /\ clock' \in [valid : BOOLEAN, present : BOOLEAN, offset : Int]
    BY <1>1, <1>5, <1>6
  <1>8. Reading' = today'
    BY <1>1, <1>3, <1>4, <1>7, TimeAbsAssumption DEF Reading
  <1>9. ClockTrue'
    BY <1>8 DEF ClockTrue
  <1>10. /\ rtc' \in [date : PastDates', stopped : BOOLEAN] /\ stale' \in BOOLEAN
         /\ ~stale' => rtc'.date = ToDate(today')
    <2>1. PastDates' = PastDates
      BY <1>1 DEF PastDates
    <2>2. rtc \in [date : PastDates, stopped : BOOLEAN] /\ stale \in BOOLEAN
          /\ (~stale => rtc.date = ToDate(today))
      BY DEF TimeInv
    <2>3. ToDate(today) \in PastDates
      BY <1>3, TimeAbsAssumption DEF PastDates
    <2>. QED  BY <1>1, <1>2, <2>1, <2>2, <2>3
  <1>. QED  BY <1>1, <1>3, <1>5, <1>7, <1>8, <1>9, <1>10, TimeAbsAssumption DEF TimeInv

LEMMA TimeStops ==
    ASSUME TimeInv, OscillatorStops
    PROVE  TimeInv' /\ clock' = clock /\ uptime' = uptime
  <1>1. Epoch2000 \in PastDates
    BY DEF PastDates
  <1>2. /\ UNCHANGED <<today, uptime, clock, setAt>> /\ stale' = TRUE
        /\ rtc' \in {[rtc EXCEPT !.stopped = TRUE], [date |-> Epoch2000, stopped |-> TRUE]}
    BY DEF OscillatorStops
  <1>3. rtc' \in [date : PastDates', stopped : BOOLEAN]
    <2>1. PastDates' = PastDates /\ rtc \in [date : PastDates, stopped : BOOLEAN]
      BY <1>2 DEF TimeInv, PastDates
    <2>. HIDE DEF PastDates
    <2>2. CASE rtc' = [rtc EXCEPT !.stopped = TRUE]
      BY <2>1, <2>2
    <2>3. CASE rtc' = [date |-> Epoch2000, stopped |-> TRUE]
      BY <1>1, <2>1, <2>3
    <2>. QED  BY <1>2, <2>2, <2>3
  <1>. QED  BY <1>2, <1>3 DEF TimeInv, ClockTrue, Reading, Counter

(* A day: a clock whose counter has not wrapped goes on with it. *)
LEMMA TimeDay ==
    ASSUME TimeInv, NEW powered \in BOOLEAN, DayPasses(powered),
           ~powered => clock = NoClock /\ uptime = 0
    PROVE  TimeInv' /\ clock' = clock /\ (~powered => uptime' = 0)
  <1>1. /\ today < LastDay /\ today' = today + 1 /\ UNCHANGED <<clock, stale, setAt>>
        /\ uptime' = IF powered THEN uptime + 1 ELSE 0
        /\ rtc' = IF stale \/ rtc.date = Epoch2000 THEN rtc
                  ELSE [rtc EXCEPT !.date = NextDay(rtc.date)]
    BY DEF DayPasses
  <1>2. /\ today \in FirstDay .. LastDay /\ uptime \in Nat /\ setAt \in 0 .. uptime
        /\ rtc \in [date : PastDates, stopped : BOOLEAN]
        /\ clock \in [valid : BOOLEAN, present : BOOLEAN, offset : Int]
        /\ stale \in BOOLEAN
        /\ ~stale => rtc.date = ToDate(today)
        /\ clock.valid => clock.offset >= 0 /\ Reading <= today
        /\ ClockTrue
    BY DEF TimeInv
  <1>3. today' \in FirstDay .. LastDay /\ uptime' \in Nat /\ setAt' \in 0 .. uptime'
    BY <1>1, <1>2, TimeAbsAssumption
  <1>4. 0 <= today /\ today <= 47480 /\ today > 10957 /\ today \in Int
    BY <1>1, <1>2, TimeAbsAssumption
  <1>5. PastDates \subseteq PastDates' /\ ToDate(today + 1) \in PastDates'
    <2>1. FirstDay .. today \subseteq FirstDay .. today' /\ today + 1 \in FirstDay .. today'
      BY <1>1, <1>2, TimeAbsAssumption
    <2>. QED  BY <2>1 DEF PastDates
  <1>6. /\ rtc' \in [date : PastDates', stopped : BOOLEAN]
        /\ ~stale' => rtc'.date = ToDate(today')
    <2>1. CASE stale
      BY <1>1, <1>2, <1>5, <2>1
    <2>2. CASE ~stale
      <3>1. rtc.date = ToDate(today)
        BY <1>2, <2>2
      <3>2. rtc.date # Epoch2000
        <4>1. FromDate(ToDate(today)) = today
          BY <1>4, RoundTrip
        <4>. QED  BY <1>4, <3>1, <4>1, EpochIs
      <3>3. rtc' = [rtc EXCEPT !.date = ToDate(today + 1)]
        <4>1. ToDate(today + 1) = NextDay(ToDate(today))
          BY <1>4, NextDayIs
        <4>. QED  BY <1>1, <2>2, <3>1, <3>2, <4>1
      <3>. QED  BY <1>1, <1>2, <1>5, <3>3
    <2>. QED  BY <2>1, <2>2
  <1>7. clock'.valid => clock'.offset >= 0 /\ Reading' <= today' /\ ClockTrue'
    <2>. SUFFICES ASSUME clock.valid
                  PROVE  clock'.offset >= 0 /\ Reading' <= today' /\ ClockTrue'
      BY <1>1
    <2>1. uptime' = uptime + 1
      BY <1>1 DEF NoClock
    <2>2. Reading = clock.offset + (uptime % Wrap) /\ Reading' = clock.offset + ((uptime + 1) % Wrap)
      BY <1>1, <2>1 DEF Reading, Counter
    <2>3. (uptime % Wrap) \in Nat /\ ((uptime + 1) % Wrap) \in Nat
      BY <1>2, Division, TimeAbsAssumption
    <2>4. Wrap \in Nat /\ Wrap > 0
      BY TimeAbsAssumption
    <2>5. \/ (uptime + 1) \div Wrap = uptime \div Wrap /\ (uptime + 1) % Wrap = (uptime % Wrap) + 1
          \/ (uptime + 1) \div Wrap = (uptime \div Wrap) + 1 /\ (uptime + 1) % Wrap = 0
      BY <1>2, <2>4, OneMore
    <2>6. setAt \div Wrap <= uptime \div Wrap /\ uptime \div Wrap \in Nat /\ setAt \div Wrap \in Nat
      BY <1>2, <2>4, DivisionMonotone, Division
    <2>7. Reading' <= today'
      BY <1>1, <1>2, <2>2, <2>3, <2>5
    <2>8. ClockTrue'
      <3>1. SUFFICES ASSUME ~stale, (uptime + 1) \div Wrap = setAt \div Wrap
                     PROVE  Reading' = today'
        BY <1>1, <2>1 DEF ClockTrue
      <3>2. (uptime + 1) \div Wrap = uptime \div Wrap /\ (uptime + 1) % Wrap = (uptime % Wrap) + 1
        BY <2>5, <2>6, <3>1
      <3>3. Reading = today
        BY <1>2, <3>1, <3>2 DEF ClockTrue
      <3>. QED  BY <1>1, <1>2, <2>2, <2>3, <3>2, <3>3
    <2>. QED  BY <1>1, <1>2, <2>7, <2>8
  <1>8. ClockTrue'
    BY <1>7 DEF ClockTrue
  <1>. QED  BY <1>1, <1>2, <1>3, <1>6, <1>7, <1>8 DEF TimeInv

-----------------------------------------------------------------------------
(* What becomes of an entity.                                              *)

LEMMA EntityIs ==
    ASSUME NEW s \in EntityStatus
    PROVE  /\ s.status \in {"deactivated", "ok", "failed", "expired"}
           /\ s.alive \in Nat /\ s.failed \in 0 .. MaxFailed /\ s.age \in Nat
           /\ s.last \in {CpEntry, CpExit}
           /\ s.failed \in Nat /\ MaxFailed \in Nat /\ MaxFailed >= Tolerance
           /\ Tolerance \in Nat /\ Tolerance > 0
  BY WdgMAssumption DEF EntityStatus

LEMMA ViolatedIs ==
    ASSUME NEW s \in EntityStatus
    PROVE  /\ Violated(s) \in EntityStatus
           /\ Violated(s).alive = s.alive /\ Violated(s).last = s.last /\ Violated(s).age = s.age
           /\ s.failed <= Violated(s).failed /\ Violated(s).failed <= s.failed + 1
           /\ s.failed < MaxFailed => Violated(s).failed = s.failed + 1
           /\ Violated(s).status = IF Violated(s).failed >= Tolerance THEN "expired" ELSE "failed"
  <1>. DEFINE n == IF s.failed < MaxFailed THEN s.failed + 1 ELSE s.failed
              st == IF n >= Tolerance THEN "expired" ELSE "failed"
  <1>1. n \in 0 .. MaxFailed /\ s.failed <= n /\ n <= s.failed + 1
        /\ (s.failed < MaxFailed => n = s.failed + 1)
    BY EntityIs
  <1>2. Violated(s) = [s EXCEPT !.failed = n, !.status = st]
    BY DEF Violated
  <1>3. st \in {"failed", "expired"}
    OBVIOUS
  <1>4. st = IF n >= Tolerance THEN "expired" ELSE "failed"
    OBVIOUS
  <1>. HIDE DEF n, st
  <1>5. /\ Violated(s) \in EntityStatus
        /\ Violated(s).alive = s.alive /\ Violated(s).last = s.last /\ Violated(s).age = s.age
        /\ Violated(s).failed = n /\ Violated(s).status = st
    BY <1>1, <1>2, <1>3 DEF EntityStatus
  <1>. QED  BY <1>1, <1>4, <1>5

(* What a check-in may do to an entity. *)
LEMMA JudgeIs ==
    ASSUME NEW e \in Entities, NEW s \in EntityStatus, NEW cp \in {CpEntry, CpExit}, NEW n \in Nat
    PROVE  LET j == Judge(e, s, cp, n)
               bad == (IF s.age > Deadline[e] THEN 1 ELSE 0) + (IF cp = s.last THEN 1 ELSE 0)
           IN /\ j \in EntityStatus
              /\ j.alive = IF cp = CpEntry THEN n ELSE s.alive
              /\ j.last = cp /\ j.age = 0
              /\ s.failed <= j.failed /\ j.failed <= s.failed + bad
              /\ bad = 0 => j.status = s.status
              /\ s.status # "deactivated" => j.status # "deactivated"
              /\ j.status = "expired" => s.status = "expired" \/ j.failed >= Tolerance
              /\ s.status = "expired" /\ s.failed >= Tolerance => j.status = "expired"
  <1>. DEFINE counted == [s EXCEPT !.alive = IF cp = CpEntry THEN n ELSE @]
              onTime == Judged(counted, s.age > Deadline[e])
              flow == Judged(onTime, cp = s.last)
              late1 == IF s.age > Deadline[e] THEN 1 ELSE 0
              flow1 == IF cp = s.last THEN 1 ELSE 0
  <1>1. /\ counted \in EntityStatus
        /\ counted.alive = IF cp = CpEntry THEN n ELSE s.alive
        /\ counted.failed = s.failed /\ counted.status = s.status /\ counted.last = s.last
    BY DEF EntityStatus
  <1>2. Judge(e, s, cp, n) = [flow EXCEPT !.age = 0, !.last = cp]
    BY DEF Judge
  <1>. HIDE DEF counted
  <1>3. /\ onTime \in EntityStatus /\ onTime.alive = counted.alive
        /\ s.failed <= onTime.failed /\ onTime.failed <= s.failed + late1
        /\ late1 = 0 => onTime.status = s.status /\ onTime.failed = s.failed
        /\ s.status # "deactivated" => onTime.status # "deactivated"
        /\ onTime.status = "expired" => s.status = "expired" \/ onTime.failed >= Tolerance
        /\ s.status = "expired" /\ s.failed >= Tolerance => onTime.status = "expired"
    <2>1. CASE s.age > Deadline[e]
      BY <1>1, <2>1, EntityIs, ViolatedIs DEF Judged
    <2>2. CASE ~(s.age > Deadline[e])
      BY <1>1, <2>2, EntityIs DEF Judged
    <2>. QED  BY <2>1, <2>2
  <1>. HIDE DEF onTime
  <1>4. /\ flow \in EntityStatus /\ flow.alive = onTime.alive
        /\ onTime.failed <= flow.failed /\ flow.failed <= onTime.failed + flow1
        /\ flow1 = 0 => flow.status = onTime.status /\ flow.failed = onTime.failed
        /\ onTime.status # "deactivated" => flow.status # "deactivated"
        /\ flow.status = "expired" => onTime.status = "expired" \/ flow.failed >= Tolerance
        /\ onTime.status = "expired" /\ onTime.failed >= Tolerance => flow.status = "expired"
    <2>1. CASE cp = s.last
      BY <1>3, <2>1, EntityIs, ViolatedIs DEF Judged
    <2>2. CASE ~(cp = s.last)
      BY <1>3, <2>2, EntityIs DEF Judged
    <2>. QED  BY <2>1, <2>2
  <1>. HIDE DEF flow
  <1>5. /\ Judge(e, s, cp, n) \in EntityStatus
        /\ Judge(e, s, cp, n).alive = flow.alive /\ Judge(e, s, cp, n).failed = flow.failed
        /\ Judge(e, s, cp, n).status = flow.status
        /\ Judge(e, s, cp, n).last = cp /\ Judge(e, s, cp, n).age = 0
    <2>. DEFINE aged == [flow EXCEPT !.age = 0]
    <2>1. /\ aged \in EntityStatus /\ aged.alive = flow.alive /\ aged.failed = flow.failed
          /\ aged.status = flow.status /\ aged.age = 0
      BY <1>4 DEF EntityStatus
    <2>2. Judge(e, s, cp, n) = [aged EXCEPT !.last = cp]
      BY <1>2
    <2>. HIDE DEF aged
    <2>. QED  BY <2>1, <2>2 DEF EntityStatus
  <1>6. late1 \in {0, 1} /\ flow1 \in {0, 1}
    OBVIOUS
  <1>. DEFINE j == Judge(e, s, cp, n)
  <1>7. /\ j \in EntityStatus
        /\ j.alive = IF cp = CpEntry THEN n ELSE s.alive
        /\ j.last = cp /\ j.age = 0
        /\ s.failed <= j.failed /\ j.failed <= s.failed + (late1 + flow1)
        /\ late1 + flow1 = 0 => j.status = s.status
        /\ s.status # "deactivated" => j.status # "deactivated"
        /\ j.status = "expired" => s.status = "expired" \/ j.failed >= Tolerance
        /\ s.status = "expired" /\ s.failed >= Tolerance => j.status = "expired"
    <2>. HIDE DEF late1, flow1
    <2>1. s.failed \in Nat /\ onTime.failed \in Nat /\ flow.failed \in Nat /\ Tolerance \in Nat
      BY <1>3, <1>4, EntityIs
    <2>. QED  BY <1>1, <1>3, <1>4, <1>5, <1>6, <2>1
  <1>. QED  BY <1>7

LEMMA ReachedIs ==
    ASSUME NEW e \in Entities, NEW s \in EntityStatus, NEW cp \in {CpEntry, CpExit}
    PROVE  /\ Reached(e, s, cp) \in EntityStatus
           /\ Reached(e, s, cp).age = 0
           /\ s.status = "deactivated" => /\ Reached(e, s, cp).status = "deactivated"
                                          /\ Reached(e, s, cp).failed = s.failed
                                          /\ Reached(e, s, cp).last = s.last
                                          /\ Reached(e, s, cp).alive = s.alive
           /\ s.status # "deactivated" => Reached(e, s, cp) = Judge(e, s, cp, s.alive + 1)
  <1>1. CASE s.status = "deactivated"
    <2>1. Reached(e, s, cp) = [s EXCEPT !.age = 0]
      BY <1>1 DEF Reached
    <2>. QED  BY <1>1, <2>1 DEF EntityStatus
  <1>2. CASE s.status # "deactivated"
    <2>1. Reached(e, s, cp) = Judge(e, s, cp, s.alive + 1)
      BY <1>2 DEF Reached
    <2>2. s.alive + 1 \in Nat
      BY EntityIs
    <2>3. /\ Judge(e, s, cp, s.alive + 1) \in EntityStatus
          /\ Judge(e, s, cp, s.alive + 1).age = 0
      <3>1. \A n \in Nat : Judge(e, s, cp, n) \in EntityStatus /\ Judge(e, s, cp, n).age = 0
        BY JudgeIs
      <3>. QED  BY <2>2, <3>1
    <2>. QED  BY <1>2, <2>1, <2>3
  <1>. QED  BY <1>1, <1>2

(* What the end of a supervision cycle may do to one. *)
LEMMA EvaluatedIs ==
    ASSUME NEW e \in Entities, NEW s \in EntityStatus
    PROVE  LET v == Evaluated(e, s)
               bad == s.alive < AliveMin[e] \/ s.alive > AliveMax[e]
           IN /\ v \in EntityStatus
              /\ v.last = s.last /\ v.age = s.age
              /\ s.status = "deactivated" => v = s
              /\ s.status # "deactivated" =>
                    /\ v.status # "deactivated" /\ v.alive = 0
                    /\ bad => /\ s.failed <= v.failed /\ v.failed <= s.failed + 1
                              /\ v.status = IF v.failed >= Tolerance THEN "expired" ELSE "failed"
                    /\ ~bad => /\ v.failed = IF s.failed > 0 THEN s.failed - 1 ELSE 0
                               /\ v.status = IF v.failed = 0 THEN "ok" ELSE s.status
  <1>. DEFINE bad == s.alive < AliveMin[e] \/ s.alive > AliveMax[e]
  <1>1. CASE s.status = "deactivated"
    BY <1>1 DEF Evaluated
  <1>2. CASE s.status # "deactivated" /\ bad
    <2>1. Evaluated(e, s) = [Violated(s) EXCEPT !.alive = 0]
      BY <1>2 DEF Evaluated
    <2>2. /\ Evaluated(e, s) \in EntityStatus /\ Evaluated(e, s).alive = 0
          /\ Evaluated(e, s).last = s.last /\ Evaluated(e, s).age = s.age
          /\ Evaluated(e, s).failed = Violated(s).failed
          /\ Evaluated(e, s).status = Violated(s).status
      BY <2>1, ViolatedIs DEF EntityStatus
    <2>3. Violated(s).status # "deactivated"
      BY ViolatedIs
    <2>. QED  BY <1>2, <2>2, <2>3, ViolatedIs
  <1>3. CASE s.status # "deactivated" /\ ~bad
    <2>. DEFINE n == IF s.failed > 0 THEN s.failed - 1 ELSE 0
                st == IF n = 0 THEN "ok" ELSE s.status
    <2>1. Evaluated(e, s) = [s EXCEPT !.alive = 0, !.failed = n, !.status = st]
      BY <1>3 DEF Evaluated
    <2>2. n \in 0 .. MaxFailed /\ st \in {"ok", "failed", "expired"}
      BY <1>3, EntityIs
    <2>3. st = (IF n = 0 THEN "ok" ELSE s.status) /\ n = (IF s.failed > 0 THEN s.failed - 1 ELSE 0)
      OBVIOUS
    <2>. HIDE DEF n, st
    <2>4. /\ Evaluated(e, s) \in EntityStatus /\ Evaluated(e, s).alive = 0
          /\ Evaluated(e, s).last = s.last /\ Evaluated(e, s).age = s.age
          /\ Evaluated(e, s).failed = n /\ Evaluated(e, s).status = st
      <3>. DEFINE cleared == [s EXCEPT !.alive = 0, !.failed = n]
      <3>1. /\ cleared \in EntityStatus /\ cleared.alive = 0 /\ cleared.failed = n
            /\ cleared.last = s.last /\ cleared.age = s.age
        BY <2>2 DEF EntityStatus
      <3>2. Evaluated(e, s) = [cleared EXCEPT !.status = st]
        BY <2>1
      <3>. HIDE DEF cleared
      <3>. QED  BY <2>2, <3>1, <3>2 DEF EntityStatus
    <2>. QED  BY <1>3, <2>2, <2>3, <2>4
  <1>. QED  BY <1>1, <1>2, <1>3

-----------------------------------------------------------------------------
(* What each step of a task changes, entity by entity.                     *)

Tasks == [pc : Where, since : Nat, read : Nat]

LEMMA TaskIs ==
    ASSUME SchTypeOK, NEW e \in Entities
    PROVE  /\ task \in [Entities -> Tasks] /\ task[e] \in Tasks
           /\ task[e].pc \in Where /\ task[e].since \in Nat /\ task[e].read \in Nat
           /\ task[e].since <= Period[e] /\ Period[e] \in Nat /\ Period[e] > 0
           /\ runs \in 0 .. Divider - 1 /\ Divider \in Nat /\ Divider > 0
  BY SchMAssumption DEF SchTypeOK, Tasks

(* Only the place of a task changes. *)
LEMMA GotoIs ==
    ASSUME SchTypeOK, NEW e \in Entities, NEW p \in Where, Goto(e, p)
    PROVE  /\ task' \in [Entities -> Tasks]
           /\ \A f \in Entities : f # e => task'[f] = task[f]
           /\ task'[e].pc = p /\ task'[e].since = task[e].since /\ task'[e].read = task[e].read
           /\ \A f \in Entities : task'[f].since <= Period[f]
  <1>1. task \in [Entities -> Tasks] /\ \A f \in Entities : task[f].since <= Period[f]
    BY TaskIs
  <1>2. task' = [task EXCEPT ![e] = [@ EXCEPT !.pc = p]]
    BY DEF Goto
  <1>3. /\ [task[e] EXCEPT !.pc = p] \in Tasks /\ [task[e] EXCEPT !.pc = p].pc = p
        /\ [task[e] EXCEPT !.pc = p].since = task[e].since
        /\ [task[e] EXCEPT !.pc = p].read = task[e].read
    BY <1>1 DEF Tasks
  <1>. QED  BY <1>1, <1>2, <1>3

LEMMA LoadIs ==
    ASSUME SchTypeOK, WdgTypeOK, NEW e \in Entities, LoadCount(e)
    PROVE  /\ task' \in [Entities -> Tasks]
           /\ \A f \in Entities : f # e => task'[f] = task[f]
           /\ task[e].pc = "enter" /\ task'[e].pc = "count" /\ task'[e].since = task[e].since
           /\ task'[e].read = entity[e].alive
           /\ \A f \in Entities : task'[f].since <= Period[f]
           /\ e # Scheduler /\ entity[e].status # "deactivated"
           /\ UNCHANGED <<wdgVars, runs, late>>
  <1>1. task \in [Entities -> Tasks] /\ \A f \in Entities : task[f].since <= Period[f]
    BY TaskIs
  <1>. DEFINE at == [task[e] EXCEPT !.pc = "count"]
              t == [at EXCEPT !.read = entity[e].alive]
  <1>2. task' = [task EXCEPT ![e] = t]
    BY <1>1 DEF LoadCount
  <1>3. entity[e].alive \in Nat
    BY EntityIs DEF WdgTypeOK
  <1>4. at \in Tasks /\ at.pc = "count" /\ at.since = task[e].since
    BY <1>1 DEF Tasks, Where
  <1>. HIDE DEF at
  <1>5. t \in Tasks /\ t.pc = "count" /\ t.since = task[e].since /\ t.read = entity[e].alive
    BY <1>3, <1>4 DEF Tasks
  <1>. HIDE DEF t
  <1>. QED  BY <1>1, <1>2, <1>5 DEF LoadCount

LEMMA StoreIs ==
    ASSUME SchTypeOK, NEW e \in Entities, StoreCount(e)
    PROVE  /\ task' \in [Entities -> Tasks]
           /\ \A f \in Entities : f # e => task'[f] = task[f]
           /\ task[e].pc = "count" /\ task'[e].pc = "body" /\ task'[e].since = task[e].since
           /\ \A f \in Entities : task'[f].since <= Period[f]
           /\ entity' = [entity EXCEPT ![e] = Judge(e, @, CpEntry, task[e].read + 1)]
           /\ UNCHANGED <<active, timeout, subscribed, triggered, unfed, runs, late>>
  <1>1. task \in [Entities -> Tasks] /\ \A f \in Entities : task[f].since <= Period[f]
    BY TaskIs
  <1>. DEFINE at == [task[e] EXCEPT !.pc = "body"]
              t == [at EXCEPT !.read = 0]
  <1>2. task' = [task EXCEPT ![e] = t]
    BY <1>1 DEF StoreCount
  <1>3. at \in Tasks /\ at.pc = "body" /\ at.since = task[e].since
    BY <1>1 DEF Tasks, Where
  <1>. HIDE DEF at
  <1>4. t \in Tasks /\ t.pc = "body" /\ t.since = task[e].since
    BY <1>3 DEF Tasks
  <1>. HIDE DEF t
  <1>. QED  BY <1>1, <1>2, <1>4 DEF StoreCount

(* Leaving: to sleep, or at once into the next activation. *)
LEMMA LeaveIs ==
    ASSUME SchTypeOK, NEW e \in Entities, Leave(e)
    PROVE  /\ task' \in [Entities -> Tasks]
           /\ \A f \in Entities : f # e => task'[f] = task[f]
           /\ task[e].pc = "leave" /\ task'[e].read = task[e].read
           /\ \/ task[e].since >= Period[e] /\ task'[e].pc = "enter" /\ task'[e].since = 0
              \/ task[e].since < Period[e] /\ task'[e].pc = "wait" /\ task'[e].since = task[e].since
           /\ \A f \in Entities : task'[f].since <= Period[f]
           /\ entity' = [entity EXCEPT ![e] = Reached(e, @, CpExit)]
           /\ UNCHANGED <<active, timeout, subscribed, triggered, unfed, runs, late>>
  <1>1. /\ task \in [Entities -> Tasks] /\ \A f \in Entities : task[f].since <= Period[f]
        /\ task[e] \in Tasks /\ task[e].since \in Nat /\ Period[e] \in Nat /\ Period[e] > 0
    BY TaskIs
  <1>0. /\ task[e].pc = "leave"
        /\ entity' = [entity EXCEPT ![e] = Reached(e, @, CpExit)]
        /\ UNCHANGED <<active, timeout, subscribed, triggered, unfed, runs, late>>
    BY DEF Leave
  <1>2. CASE task[e].since >= Period[e]
    <2>. DEFINE at == [task[e] EXCEPT !.pc = "enter"]
                t == [at EXCEPT !.since = 0]
    <2>1. task' = [task EXCEPT ![e] = t]
      BY <1>1, <1>2 DEF Leave
    <2>2. at \in Tasks /\ at.pc = "enter" /\ at.read = task[e].read
      BY <1>1 DEF Tasks, Where
    <2>. HIDE DEF at
    <2>3. t \in Tasks /\ t.pc = "enter" /\ t.since = 0 /\ t.read = task[e].read
      BY <2>2 DEF Tasks
    <2>. HIDE DEF t
    <2>4. /\ task' \in [Entities -> Tasks] /\ task'[e] = t
          /\ \A f \in Entities : f # e => task'[f] = task[f]
      BY <1>1, <2>1, <2>3
    <2>5. \A f \in Entities : task'[f].since <= Period[f]
      BY <1>1, <2>3, <2>4
    <2>. QED  BY <1>0, <1>2, <2>3, <2>4, <2>5
  <1>3. CASE task[e].since < Period[e]
    <2>. DEFINE t == [task[e] EXCEPT !.pc = "wait"]
    <2>1. task' = [task EXCEPT ![e] = t]
      BY <1>1, <1>3 DEF Leave
    <2>2. t \in Tasks /\ t.pc = "wait" /\ t.since = task[e].since /\ t.read = task[e].read
      BY <1>1 DEF Tasks, Where
    <2>. HIDE DEF t
    <2>3. /\ task' \in [Entities -> Tasks] /\ task'[e] = t
          /\ \A f \in Entities : f # e => task'[f] = task[f]
      BY <1>1, <2>1, <2>2
    <2>4. \A f \in Entities : task'[f].since <= Period[f]
      BY <1>1, <2>2, <2>3
    <2>. QED  BY <1>0, <1>3, <2>2, <2>3, <2>4
  <1>. QED  BY <1>1, <1>2, <1>3

LEMMA OlderIs ==
    ASSUME SchTypeOK, NEW e \in Entities
    PROVE  /\ OneTickOlder(e) \in Tasks /\ OneTickOlder(e).since <= Period[e]
           /\ OneTickOlder(e).read = task[e].read
           /\ task[e].pc = "off" => OneTickOlder(e) = task[e]
           /\ task[e].pc = "wait" /\ task[e].since + 1 >= Period[e] =>
                 OneTickOlder(e).pc = "enter" /\ OneTickOlder(e).since = 0
           /\ task[e].pc # "off" /\ ~(task[e].pc = "wait" /\ task[e].since + 1 >= Period[e]) =>
                 /\ OneTickOlder(e).pc = task[e].pc
                 /\ OneTickOlder(e).since = IF task[e].since < Period[e] THEN task[e].since + 1
                                            ELSE Period[e]
  <1>. DEFINE n == IF task[e].since < Period[e] THEN task[e].since + 1 ELSE Period[e]
  <1>1. /\ task[e] \in Tasks /\ task[e].since \in Nat /\ Period[e] \in Nat /\ Period[e] > 0
        /\ task[e].since <= Period[e]
    BY TaskIs
  <1>2. /\ n \in Nat /\ n <= Period[e] /\ (n = Period[e] <=> task[e].since + 1 >= Period[e])
        /\ n = IF task[e].since < Period[e] THEN task[e].since + 1 ELSE Period[e]
    BY <1>1
  <1>3. OneTickOlder(e) = IF task[e].pc = "off" THEN task[e]
                          ELSE IF task[e].pc = "wait" /\ n = Period[e]
                               THEN [task[e] EXCEPT !.pc = "enter", !.since = 0]
                               ELSE [task[e] EXCEPT !.since = n]
    BY DEF OneTickOlder
  <1>. HIDE DEF n
  <1>4. CASE task[e].pc = "off"
    BY <1>1, <1>3, <1>4
  <1>5. CASE task[e].pc = "wait" /\ n = Period[e]
    <2>. DEFINE at == [task[e] EXCEPT !.pc = "enter"]
                t == [at EXCEPT !.since = 0]
    <2>1. OneTickOlder(e) = t
      BY <1>3, <1>5
    <2>2. at \in Tasks /\ at.pc = "enter" /\ at.read = task[e].read
      BY <1>1 DEF Tasks, Where
    <2>. HIDE DEF at
    <2>3. t \in Tasks /\ t.pc = "enter" /\ t.since = 0 /\ t.read = task[e].read
      BY <2>2 DEF Tasks
    <2>. HIDE DEF t
    <2>. QED  BY <1>1, <1>2, <1>5, <2>1, <2>3
  <1>6. CASE task[e].pc # "off" /\ ~(task[e].pc = "wait" /\ n = Period[e])
    <2>. DEFINE t == [task[e] EXCEPT !.since = n]
    <2>1. OneTickOlder(e) = t
      BY <1>3, <1>6
    <2>2. t \in Tasks /\ t.pc = task[e].pc /\ t.since = n /\ t.read = task[e].read
      BY <1>1, <1>2 DEF Tasks
    <2>. HIDE DEF t
    <2>. QED  BY <1>1, <1>2, <1>6, <2>1, <2>2
  <1>. QED  BY <1>4, <1>5, <1>6

LEMMA AgedIs ==
    ASSUME WdgTypeOK, TimePasses, NEW e \in Entities
    PROVE  /\ entity' \in [Entities -> EntityStatus]
           /\ entity'[e].status = entity[e].status /\ entity'[e].alive = entity[e].alive
           /\ entity'[e].failed = entity[e].failed /\ entity'[e].last = entity[e].last
           /\ entity'[e].age <= entity[e].age + 1 /\ entity'[e].age \in Nat
  <1>. DEFINE aged(f) == [entity[f] EXCEPT !.age = IF @ <= Deadline[f] THEN @ + 1 ELSE @]
  <1>1. entity' = [f \in Entities |-> aged(f)]
    BY DEF TimePasses
  <1>2. ASSUME NEW f \in Entities
        PROVE  /\ aged(f) \in EntityStatus
               /\ aged(f).status = entity[f].status /\ aged(f).alive = entity[f].alive
               /\ aged(f).failed = entity[f].failed /\ aged(f).last = entity[f].last
               /\ aged(f).age <= entity[f].age + 1 /\ aged(f).age \in Nat
    <2>1. entity[f] \in EntityStatus
      BY DEF WdgTypeOK
    <2>2. (IF entity[f].age <= Deadline[f] THEN entity[f].age + 1 ELSE entity[f].age) \in Nat
      BY <2>1 DEF EntityStatus
    <2>. QED  BY <2>1, <2>2 DEF EntityStatus
  <1>. HIDE DEF aged
  <1>. QED  BY <1>1, <1>2

-----------------------------------------------------------------------------
(* Types.                                                                  *)

LEMMA SchTypes ==
    ASSUME task' \in [Entities -> Tasks], \A f \in Entities : task'[f].since <= Period[f],
           runs' \in 0 .. Divider - 1, late' \in BOOLEAN
    PROVE  SchTypeOK'
  BY DEF SchTypeOK, Tasks

LEMMA ActivatedIs ==
    ASSUME NEW s \in EntityStatus
    PROVE  /\ Activated(s) \in EntityStatus
           /\ Activated(s).status = "ok" /\ Activated(s).alive = 0 /\ Activated(s).failed = 0
           /\ Activated(s).age = 0 /\ Activated(s).last = s.last
           /\ Deactivated(s) \in EntityStatus
           /\ Deactivated(s).status = "deactivated" /\ Deactivated(s).failed = s.failed
           /\ Deactivated(s).last = s.last
  <1>. DEFINE a == [s EXCEPT !.status = "ok", !.alive = 0]
              b == [a EXCEPT !.failed = 0]
              d == [s EXCEPT !.status = "deactivated"]
  <1>1. a \in EntityStatus /\ a.status = "ok" /\ a.alive = 0 /\ a.last = s.last
    BY DEF EntityStatus
  <1>2. d \in EntityStatus /\ d.status = "deactivated" /\ d.failed = s.failed /\ d.last = s.last
    BY DEF EntityStatus
  <1>3. Activated(s) = [b EXCEPT !.age = 0] /\ Deactivated(s) = [d EXCEPT !.alive = 0]
    BY DEF Activated, Deactivated
  <1>. HIDE DEF a, d
  <1>4. b \in EntityStatus /\ b.status = "ok" /\ b.alive = 0 /\ b.failed = 0 /\ b.last = s.last
    <2>1. 0 \in 0 .. MaxFailed
      BY EntityIs
    <2>. QED  BY <1>1, <2>1 DEF EntityStatus
  <1>. HIDE DEF b
  <1>5. /\ Activated(s) \in EntityStatus
        /\ Activated(s).status = "ok" /\ Activated(s).alive = 0 /\ Activated(s).failed = 0
        /\ Activated(s).age = 0 /\ Activated(s).last = s.last
    BY <1>3, <1>4 DEF EntityStatus
  <1>6. /\ Deactivated(s) \in EntityStatus
        /\ Deactivated(s).status = "deactivated" /\ Deactivated(s).failed = s.failed
        /\ Deactivated(s).last = s.last
    BY <1>2, <1>3 DEF EntityStatus
  <1>. QED  BY <1>5, <1>6

LEMMA ResetTypes ==
    /\ WdgReset => WdgTypeOK'
    /\ SchReset => SchTypeOK'
    /\ WdgInit => WdgTypeOK
    /\ SchInit => SchTypeOK
  <1>1. Fresh \in EntityStatus
    BY EntityIs, WdgMAssumption DEF Fresh, EntityStatus
  <1>2. NoTask \in Tasks /\ NoTask.since = 0 /\ 0 \in 0 .. Divider - 1
    BY SchMAssumption DEF NoTask, Tasks, Where
  <1>3. SlowTimeout \in Nat /\ 0 \in 0 .. SlowTimeout
    BY WdgMAssumption
  <1>4. \A e \in Entities : NoTask.since <= Period[e]
    BY <1>2, SchMAssumption
  <1>5. (WdgReset => WdgTypeOK') /\ (WdgInit => WdgTypeOK)
    <2>. HIDE DEF Fresh, EntityStatus
    <2>. QED  BY <1>1, <1>3 DEF WdgReset, WdgInit, WdgTypeOK
  <1>6. (SchReset => SchTypeOK') /\ (SchInit => SchTypeOK)
    <2>. HIDE DEF NoTask
    <2>. QED  BY <1>2, <1>4 DEF SchReset, SchInit, SchTypeOK, Tasks
  <1>. QED  BY <1>5, <1>6

LEMMA TriggerTypes ==
    ASSUME WdgTypeOK, NEW t, Trigger(t), UNCHANGED <<timeout, subscribed>>
    PROVE  triggered' \subseteq subscribed' /\ unfed' \in 0 .. timeout'
  <1>1. timeout \in Nat
    BY WdgMAssumption DEF WdgTypeOK
  <1>. QED  BY <1>1 DEF Trigger, WdgTypeOK

LEMMA MainTypes ==
    ASSUME WdgTypeOK, WdgMainFunction
    PROVE  WdgTypeOK'
  <1>1. entity' \in [Entities -> EntityStatus]
    <2>1. \A e \in Entities : Evaluated(e, entity[e]) \in EntityStatus
      BY EvaluatedIs DEF WdgTypeOK
    <2>. HIDE DEF EntityStatus
    <2>. QED  BY <2>1 DEF WdgMainFunction, WdgTypeOK
  <1>2. UNCHANGED <<active, timeout, subscribed>>
    BY DEF WdgMainFunction
  <1>3. triggered' \subseteq subscribed' /\ unfed' \in 0 .. timeout'
    <2>1. CASE Trigger(Scheduler)
      BY <1>2, <2>1, TriggerTypes
    <2>2. CASE UNCHANGED <<triggered, unfed>>
      BY <1>2, <2>2 DEF WdgTypeOK
    <2>. QED  BY <2>1, <2>2 DEF WdgMainFunction
  <1>. QED  BY <1>1, <1>2, <1>3 DEF WdgTypeOK

(* One entity changes. *)
LEMMA EntityTypes ==
    ASSUME WdgTypeOK, NEW e \in Entities, NEW s \in EntityStatus,
           entity' = [entity EXCEPT ![e] = s],
           UNCHANGED <<active, timeout, subscribed, triggered, unfed>>
    PROVE  WdgTypeOK'
  BY DEF WdgTypeOK

LEMMA WdgUnchanged ==
    ASSUME WdgTypeOK, UNCHANGED wdgVars
    PROVE  WdgTypeOK'
  BY DEF WdgTypeOK, wdgVars

LEMMA SchUnchanged ==
    ASSUME SchTypeOK, UNCHANGED schVars
    PROVE  SchTypeOK'
  BY DEF SchTypeOK, schVars

LEMMA SupervisionTypes ==
    ASSUME WdgTypeOK
    PROVE  /\ ActivateSupervision => WdgTypeOK'
           /\ /\ entity' = [e \in Entities |-> Deactivated(entity[e])]
              /\ UNCHANGED <<active, timeout, subscribed, triggered, unfed>>
              => WdgTypeOK'
  <1>1. \A e \in Entities : Activated(entity[e]) \in EntityStatus /\ Deactivated(entity[e]) \in EntityStatus
    BY ActivatedIs DEF WdgTypeOK
  <1>2. FastTimeout \in Nat /\ 0 \in 0 .. FastTimeout
    BY WdgMAssumption
  <1>. HIDE DEF EntityStatus
  <1>. QED  BY <1>1, <1>2 DEF WdgTypeOK, ActivateSupervision, SetMode

LEMMA SubscribeTypes ==
    ASSUME WdgTypeOK, SchTypeOK, NEW e \in Entities, NEW taken \in BOOLEAN, SubscribeTask(e, taken)
    PROVE  WdgTypeOK' /\ SchTypeOK'
  <1>1. Goto(e, "enter") /\ UNCHANGED <<entity, active, timeout, runs, late>>
    BY DEF SubscribeTask
  <1>2. subscribed' \subseteq Entities /\ triggered' \subseteq subscribed' /\ unfed' = unfed
    <2>1. CASE taken
      BY <2>1 DEF SubscribeTask, Subscribe, WdgTypeOK
    <2>2. CASE ~taken
      BY <2>2 DEF SubscribeTask, WdgTypeOK
    <2>. QED  BY <2>1, <2>2
  <1>3. WdgTypeOK'
    BY <1>1, <1>2 DEF WdgTypeOK
  <1>4. SchTypeOK'
    <2>1. "enter" \in Where
      BY DEF Where
    <2>. QED  BY <1>1, <2>1, GotoIs, SchTypes DEF SchTypeOK
  <1>. QED  BY <1>3, <1>4

LEMMA TaskTypes ==
    ASSUME WdgTypeOK, SchTypeOK, NEW e \in Entities,
           RunTask(e) \/ LoadCount(e) \/ Sticks(e)
    PROVE  WdgTypeOK' /\ SchTypeOK'
  <1>0. /\ entity[e] \in EntityStatus /\ task[e].read + 1 \in Nat
        /\ runs \in 0 .. Divider - 1 /\ late \in BOOLEAN
        /\ CpEntry \in {CpEntry, CpExit} /\ CpExit \in {CpEntry, CpExit}
        /\ {"body", "leave", "stuck"} \subseteq Where
    BY TaskIs DEF WdgTypeOK, SchTypeOK, Where
  <1>1. CASE Enter(e)
    <2>1. /\ Goto(e, "body") /\ entity' = [entity EXCEPT ![e] = Reached(e, entity[e], CpEntry)]
          /\ UNCHANGED <<active, timeout, subscribed, triggered, unfed, runs, late>>
      BY <1>1 DEF Enter
    <2>2. Reached(e, entity[e], CpEntry) \in EntityStatus
      BY <1>0, ReachedIs
    <2>3. SchTypeOK'
      BY <1>0, <2>1, GotoIs, SchTypes
    <2>. QED  BY <2>1, <2>2, <2>3, EntityTypes
  <1>2. CASE StoreCount(e)
    <2>1. /\ entity' = [entity EXCEPT ![e] = Judge(e, entity[e], CpEntry, task[e].read + 1)]
          /\ UNCHANGED <<active, timeout, subscribed, triggered, unfed, runs, late>>
      BY <1>2 DEF StoreCount
    <2>2. Judge(e, entity[e], CpEntry, task[e].read + 1) \in EntityStatus
      <3>1. \A n \in Nat : Judge(e, entity[e], CpEntry, n) \in EntityStatus
        BY <1>0, JudgeIs
      <3>. QED  BY <1>0, <3>1
    <2>3. SchTypeOK'
      BY <1>0, <1>2, <2>1, StoreIs, SchTypes
    <2>. QED  BY <2>1, <2>2, <2>3, EntityTypes
  <1>3. CASE Body(e)
    <2>1. Goto(e, "leave") /\ UNCHANGED late
      BY <1>3 DEF Body
    <2>2. CASE UNCHANGED wdgVars /\ UNCHANGED runs
      BY <1>0, <2>1, <2>2, GotoIs, SchTypes, WdgUnchanged
    <2>3. CASE runs' = (runs + 1) % Divider /\ (WdgMainFunction \/ UNCHANGED wdgVars)
      <3>1. runs' \in 0 .. Divider - 1
        <4>1. runs + 1 \in Nat /\ Divider \in Nat /\ Divider > 0
          BY <1>0, SchMAssumption
        <4>2. ((runs + 1) % Divider) \in Nat /\ ((runs + 1) % Divider) < Divider
          BY <4>1, Division
        <4>. QED  BY <2>3, <4>1, <4>2
      <3>2. WdgTypeOK'
        BY <2>3, MainTypes, WdgUnchanged
      <3>. QED  BY <1>0, <2>1, <3>1, <3>2, GotoIs, SchTypes
    <2>. QED  BY <1>3, <2>2, <2>3 DEF Body
  <1>4. CASE Leave(e)
    <2>1. /\ entity' = [entity EXCEPT ![e] = Reached(e, entity[e], CpExit)]
          /\ UNCHANGED <<active, timeout, subscribed, triggered, unfed, runs, late>>
      BY <1>4 DEF Leave
    <2>2. Reached(e, entity[e], CpExit) \in EntityStatus
      BY <1>0, ReachedIs
    <2>3. SchTypeOK'
      BY <1>0, <1>4, <2>1, LeaveIs, SchTypes
    <2>. QED  BY <2>1, <2>2, <2>3, EntityTypes
  <1>5. CASE LoadCount(e)
    BY <1>0, <1>5, LoadIs, SchTypes, WdgUnchanged
  <1>6. CASE Sticks(e)
    <2>1. Goto(e, "stuck") /\ late' = TRUE /\ UNCHANGED <<wdgVars, runs>>
      BY <1>6 DEF Sticks
    <2>. QED  BY <1>0, <2>1, GotoIs, SchTypes, WdgUnchanged
  <1>. QED  BY <1>1, <1>2, <1>3, <1>4, <1>5, <1>6 DEF RunTask

LEMMA TimeTypes ==
    ASSUME WdgTypeOK, SchTypeOK, TimePasses, late' \in BOOLEAN
    PROVE  WdgTypeOK' /\ SchTypeOK'
  <1>1. UNCHANGED <<active, timeout, subscribed, triggered, runs>>
    BY DEF TimePasses
  <1>2. entity' \in [Entities -> EntityStatus]
    <2>1. \E e : e \in Entities
      BY WdgMAssumption
    <2>. QED  BY <2>1, AgedIs
  <1>3. unfed' \in 0 .. timeout'
    <2>1. timeout \in Nat
      BY WdgMAssumption DEF WdgTypeOK
    <2>2. unfed \in 0 .. timeout
      BY DEF WdgTypeOK
    <2>3. /\ subscribed = {} \/ unfed # timeout
          /\ unfed' = IF subscribed = {} THEN 0 ELSE unfed + 1
      BY DEF TimePasses, Bites
    <2>. QED  BY <1>1, <2>1, <2>2, <2>3
  <1>4. WdgTypeOK'
    BY <1>1, <1>2, <1>3 DEF WdgTypeOK
  <1>5. SchTypeOK'
    <2>1. task' = [e \in Entities |-> OneTickOlder(e)]
      BY DEF TimePasses
    <2>2. \A e \in Entities : OneTickOlder(e) \in Tasks /\ OneTickOlder(e).since <= Period[e]
      BY OlderIs
    <2>3. runs' \in 0 .. Divider - 1
      BY <1>1 DEF SchTypeOK
    <2>. HIDE DEF Tasks
    <2>. QED  BY <2>1, <2>2, <2>3, SchTypes
  <1>. QED  BY <1>4, <1>5

-----------------------------------------------------------------------------
(* The whole state.  Each start adds at most one to the count, and has not *)
(* done so before it evaluates the record.                                 *)

Uncounted == {"off", "drivers", "memory", "clock", "evaluate"}

BootInv ==
    /\ env \in Environments /\ phase \in Phases /\ reason \in Reasons
    /\ info \in [count : 0 .. boots, window : 0 .. today]
    /\ phase \in Uncounted => info.count < boots
    /\ status \in [degraded : SUBSET Subsystems, loop : BOOLEAN, up : SUBSET Devices]
    /\ boots \in 1 .. MaxBoots
    /\ faults \in 0 .. MaxFaults /\ races \in 0 .. MaxRaces
    /\ starts \in Seq(Start)
    /\ phase = "off" => clock = NoClock /\ uptime = 0

IInv == WdgTypeOK /\ SchTypeOK /\ TimeInv /\ BootInv

LEMMA BootIs ==
    ASSUME BootInv
    PROVE  /\ boots \in Nat /\ info.count \in Nat /\ info.count <= boots /\ boots <= MaxBoots
           /\ MaxBoots \in Nat /\ MaxFaults \in Nat /\ MaxRaces \in Nat
  BY EcuMAssumption DEF BootInv

LEMMA TypesFollow == IInv => TypeOK /\ ClockTrue
  <1>. SUFFICES ASSUME IInv PROVE TypeOK /\ ClockTrue
    OBVIOUS
  <1>0. today \in Int /\ today <= LastDay /\ FirstDay \in Int /\ LastDay \in Int
    BY TimeAbsAssumption DEF IInv, TimeInv
  <1>1. TimeTypeOK
    <2>1. PastDates \subseteq Dates
      <3>1. FirstDay .. today \subseteq FirstDay .. LastDay
        BY <1>0
      <3>. QED  BY <3>1 DEF PastDates, Dates
    <2>. QED  BY <2>1 DEF IInv, TimeInv, TimeTypeOK
  <1>2. info \in [count : 0 .. MaxBoots, window : 0 .. LastDay] /\ boots \in 0 .. MaxBoots
    BY <1>0, EcuMAssumption DEF IInv, BootInv
  <1>3. ClockTrue
    BY DEF IInv, TimeInv
  <1>. QED  BY <1>1, <1>2, <1>3 DEF IInv, BootInv, TypeOK

LEMMA FaultsBounded ==
    ASSUME BootInv, NoFault \/ \E kind : Fault(kind)
    PROVE  faults' \in 0 .. MaxFaults
  <1>1. faults \in 0 .. MaxFaults /\ MaxFaults \in Nat
    BY BootIs DEF BootInv
  <1>. QED  BY <1>1 DEF NoFault, Fault

LEMMA InitIsIn == Init => IInv
  <1>. SUFFICES ASSUME Init PROVE IInv
    OBVIOUS
  <1>1. WdgTypeOK /\ SchTypeOK /\ TimeInv
    BY ResetTypes, TimeInitially DEF Init
  <1>2. today \in Int /\ 0 <= today /\ 0 \in 0 .. today
    BY <1>1, TimeAbsAssumption DEF TimeInv
  <1>3. BootInv
    <2>1. /\ boots = 1 /\ info = [count |-> 0, window |-> 0] /\ faults = 0 /\ races = 0
          /\ phase = "drivers" /\ reason = "power" /\ env \in Environments
          /\ status = [degraded |-> {}, loop |-> FALSE, up |-> {}] /\ starts = <<>>
      BY DEF Init, NoStatus
    <2>2. 1 \in 1 .. MaxBoots /\ 0 \in 0 .. MaxFaults /\ 0 \in 0 .. MaxRaces
      BY EcuMAssumption
    <2>3. info \in [count : 0 .. boots, window : 0 .. today] /\ info.count < boots
      BY <1>2, <2>1
    <2>4. status \in [degraded : SUBSET Subsystems, loop : BOOLEAN, up : SUBSET Devices]
      BY <2>1
    <2>. QED  BY <2>1, <2>2, <2>3, <2>4 DEF BootInv, Phases, Reasons
  <1>. QED  BY <1>1, <1>3 DEF IInv

(* A reset. *)
LEMMA RestartKeeps ==
    ASSUME IInv, NEW why \in Reasons, NEW to \in {"drivers", "off"}, Restart(why, to),
           faults' \in 0 .. MaxFaults
    PROVE  IInv'
  <1>1. WdgTypeOK' /\ SchTypeOK'
    BY ResetTypes DEF Restart
  <1>2. TimeInv' /\ clock' = NoClock /\ uptime' = 0
    BY TimeRestart DEF Restart, IInv
  <1>3. BootInv
    BY DEF IInv
  <1>4. /\ reason' \in Reasons /\ UNCHANGED <<info, starts, env, races, today>>
        /\ status' = [degraded |-> {}, loop |-> FALSE, up |-> {}]
        /\ \/ boots < MaxBoots /\ phase' = to /\ boots' = boots + 1
           \/ phase' = "end" /\ boots' = boots
    BY DEF Restart, NoStatus, RestartTime
  <1>5. boots' \in 1 .. MaxBoots /\ info' \in [count : 0 .. boots', window : 0 .. today']
        /\ (phase' \in Uncounted => info'.count < boots') /\ phase' \in Phases
    <2>1. info \in [count : 0 .. boots, window : 0 .. today] /\ boots \in 1 .. MaxBoots
      BY <1>3 DEF BootInv
    <2>2. CASE boots < MaxBoots /\ phase' = to /\ boots' = boots + 1
      <3>1. 0 .. boots \subseteq 0 .. boots' /\ boots' \in 1 .. MaxBoots
        BY <2>1, <2>2, EcuMAssumption
      <3>2. info.count < boots'
        BY <1>3, <2>2, BootIs
      <3>3. info \in [count : 0 .. boots', window : 0 .. today]
        BY <2>1, <3>1
      <3>. QED  BY <1>4, <2>2, <3>1, <3>2, <3>3 DEF Phases
    <2>3. CASE phase' = "end" /\ boots' = boots
      BY <1>4, <2>1, <2>3 DEF Phases, Uncounted
    <2>. QED  BY <1>4, <2>2, <2>3
  <1>6. status' \in [degraded : SUBSET Subsystems, loop : BOOLEAN, up : SUBSET Devices]
    BY <1>4
  <1>7. BootInv'
    BY <1>2, <1>3, <1>4, <1>5, <1>6 DEF BootInv
  <1>. QED  BY <1>1, <1>2, <1>7 DEF IInv

(* A step that leaves the record and the starts, and moves on. *)
LEMMA PhaseMoves ==
    ASSUME BootInv, NEW p \in Phases \ Uncounted, phase' = p, faults' \in 0 .. MaxFaults,
           races' \in 0 .. MaxRaces, reason' = reason, info' = info, starts' = starts,
           status' \in [degraded : SUBSET Subsystems, loop : BOOLEAN, up : SUBSET Devices],
           env' = env, boots' = boots, today' = today
    PROVE  BootInv'
  BY DEF BootInv, Uncounted

LEMMA PhaseMovesEarly ==
    ASSUME BootInv, phase \in Uncounted, phase' \in Uncounted \ {"off"}, faults' \in 0 .. MaxFaults,
           UNCHANGED <<races, reason, env, boots, today>>, starts' \in Seq(Start),
           info' = info \/ info' = [count |-> 0, window |-> 0],
           status' \in [degraded : SUBSET Subsystems, loop : BOOLEAN, up : SUBSET Devices],
           today \in Nat
    PROVE  BootInv'
  <1>1. /\ info' \in [count : 0 .. boots', window : 0 .. today'] /\ info'.count < boots'
    <2>1. info \in [count : 0 .. boots, window : 0 .. today] /\ boots \in 1 .. MaxBoots /\ info.count < boots
      BY DEF BootInv
    <2>2. 0 \in 0 .. boots /\ 0 \in 0 .. today /\ 0 < boots
      BY <2>1, EcuMAssumption
    <2>3. CASE info' = info
      BY <2>1, <2>3
    <2>4. CASE info' = [count |-> 0, window |-> 0]
      BY <2>2, <2>4
    <2>. QED  BY <2>3, <2>4
  <1>2. phase' \in Phases /\ phase' # "off"
    BY DEF Phases, Uncounted
  <1>. QED  BY <1>1, <1>2 DEF BootInv

LEMMA CountedIs ==
    ASSUME IInv, phase \in Uncounted
    PROVE  Counted \in [count : 0 .. boots, window : 0 .. today]
  <1>1. info \in [count : 0 .. boots, window : 0 .. today] /\ info.count < boots /\ boots \in 1 .. MaxBoots
    BY DEF IInv, BootInv
  <1>2. today \in Nat
    BY TimeAbsAssumption DEF IInv, TimeInv
  <1>3. Reading \in 0 .. today
    <2>1. CASE clock.valid
      <3>1. clock.offset \in Int /\ clock.offset >= 0 /\ Reading <= today /\ uptime \in Nat
        BY <2>1 DEF IInv, TimeInv
      <3>2. Counter \in Nat
        BY <3>1, CounterIs
      <3>. QED  BY <2>1, <3>1, <3>2, <1>2 DEF Reading
    <2>2. CASE ~clock.valid
      BY <2>2, <1>2 DEF Reading
    <2>. QED  BY <2>1, <2>2
  <1>4. info.count + 1 \in 0 .. boots /\ 1 \in 0 .. boots
    BY <1>1, EcuMAssumption
  <1>5. CASE WindowExpired
    <2>1. Counted = [count |-> 1, window |-> Reading]
      BY <1>5 DEF Counted
    <2>. HIDE DEF Reading
    <2>. QED  BY <2>1, <1>3, <1>4
  <1>6. CASE ~WindowExpired
    <2>. DEFINE w == IF info.window = 0 THEN Reading ELSE info.window
    <2>1. Counted = [count |-> info.count + 1, window |-> w]
      BY <1>6 DEF Counted
    <2>2. w \in 0 .. today
      BY <1>1, <1>3
    <2>. HIDE DEF w
    <2>. QED  BY <2>1, <2>2, <1>4
  <1>. QED  BY <1>5, <1>6

LEMMA EarlyKeeps ==
    ASSUME IInv, InitDrivers \/ InitMemory \/ InitClock \/ PowerOn
    PROVE  IInv'
  <1>1. BootInv /\ TimeInv /\ WdgTypeOK /\ SchTypeOK /\ today \in Nat
    BY TimeAbsAssumption DEF IInv, TimeInv
  <1>2. faults' \in 0 .. MaxFaults
    <2>1. NoFault \/ \E kind : Fault(kind)
      BY DEF InitDrivers, InitMemory, InitClock, PowerOn
    <2>. QED  BY <1>1, <2>1, FaultsBounded
  <1>3. /\ phase \in Uncounted /\ phase' \in Uncounted \ {"off"}
        /\ UNCHANGED <<races, reason, env, boots>>
    BY DEF InitDrivers, InitMemory, InitClock, PowerOn, At, Frame, Uncounted
  <1>4. today' = today /\ TimeInv'
    <2>1. UNCHANGED timeVars \/ StartClock \/ StartClockFails
      BY DEF InitDrivers, InitMemory, InitClock, PowerOn
    <2>2. CASE UNCHANGED timeVars
      BY <1>1, <2>2, TimeUnchanged DEF timeVars
    <2>3. CASE StartClock \/ StartClockFails
      BY <1>1, <2>3, TimeStart DEF StartClock, StartClockFails
    <2>. QED  BY <2>1, <2>2, <2>3
  <1>5. WdgTypeOK' /\ SchTypeOK'
    <2>1. (WdgReset \/ UNCHANGED wdgVars) /\ UNCHANGED schVars
      BY DEF InitDrivers, InitMemory, InitClock, PowerOn
    <2>. QED  BY <1>1, <2>1, ResetTypes, WdgUnchanged, SchUnchanged
  <1>6. /\ info' = info \/ info' = [count |-> 0, window |-> 0]
        /\ starts' = starts \/ starts' = <<>>
        /\ status' = status \/ status' = [status EXCEPT !.up = @ \cup {"nvm"}]
    BY DEF InitDrivers, InitMemory, InitClock, PowerOn
  <1>7. starts' \in Seq(Start)
    <2>1. starts \in Seq(Start) /\ <<>> \in Seq(Start)
      BY <1>1 DEF BootInv
    <2>. QED  BY <1>6, <2>1
  <1>8. status' \in [degraded : SUBSET Subsystems, loop : BOOLEAN, up : SUBSET Devices]
    <2>1. {"nvm"} \subseteq Devices
      BY DEF Devices
    <2>2. status \in [degraded : SUBSET Subsystems, loop : BOOLEAN, up : SUBSET Devices]
      BY <1>1 DEF BootInv
    <2>. HIDE DEF Devices, Subsystems
    <2>3. status.up \cup {"nvm"} \in SUBSET Devices
      BY <2>1, <2>2
    <2>. QED  BY <1>6, <2>2, <2>3
  <1>9. BootInv'
    BY <1>1, <1>2, <1>3, <1>4, <1>6, <1>7, <1>8, PhaseMovesEarly
  <1>. QED  BY <1>4, <1>5, <1>9 DEF IInv

LEMMA EvaluateKeeps ==
    ASSUME IInv, EvaluateCrashLoop
    PROVE  IInv'
  <1>1. /\ BootInv /\ TimeInv /\ WdgTypeOK /\ SchTypeOK
        /\ today \in 0 .. LastDay
    BY TimeAbsAssumption DEF IInv, TimeInv
  <1>2. /\ phase = "evaluate" /\ phase' = "sensors"
        /\ UNCHANGED <<wdgVars, schVars, timeVars, reason, env, boots, races>>
        /\ today' = today
    BY DEF EvaluateCrashLoop, At, Frame, timeVars
  <1>3. WdgTypeOK' /\ SchTypeOK' /\ TimeInv'
    BY <1>1, <1>2, WdgUnchanged, SchUnchanged, TimeUnchanged
  <1>4. faults' \in 0 .. MaxFaults
    <2>1. NoFault \/ \E kind : Fault(kind)
      BY DEF EvaluateCrashLoop
    <2>. QED  BY <1>1, <2>1, FaultsBounded
  <1>5. CASE UNCHANGED <<info, status, starts>>
    BY <1>1, <1>2, <1>3, <1>4, <1>5, PhaseMoves DEF IInv, BootInv, Uncounted, Phases
  <1>6. CASE ~UNCHANGED <<info, status, starts>>
    <2>. DEFINE loop == Counted.count >= Count
                start == [day |-> today, right |-> clock.valid /\ Reading = today,
                          loop |-> loop, stored |-> info' = Counted]
    <2>1. /\ status' = [status EXCEPT !.loop = loop, !.degraded = Degraded(loop)]
          /\ info' = Counted \/ info' = info
          /\ starts' = Append(starts, start)
      BY <1>6 DEF EvaluateCrashLoop
    <2>2. start \in Start
      <3>1. (clock.valid /\ Reading = today) \in BOOLEAN /\ (info' = Counted) \in BOOLEAN /\ loop \in BOOLEAN
        <4>1. clock.valid \in BOOLEAN
          BY <1>1 DEF TimeInv
        <4>. QED  BY <4>1
      <3>. HIDE DEF loop
      <3>. QED  BY <1>1, <3>1 DEF Start
    <2>. HIDE DEF start
    <2>3. starts' \in Seq(Start)
      BY <1>1, <2>1, <2>2 DEF BootInv
    <2>4. info' \in [count : 0 .. boots, window : 0 .. today]
      BY <1>1, <1>2, <2>1, CountedIs DEF BootInv, Uncounted, IInv
    <2>5. status' \in [degraded : SUBSET Subsystems, loop : BOOLEAN, up : SUBSET Devices]
      <3>1. status \in [degraded : SUBSET Subsystems, loop : BOOLEAN, up : SUBSET Devices]
        BY <1>1 DEF BootInv
      <3>2. Degraded(loop) \in SUBSET Subsystems
        BY DEF Degraded, Subsystems
      <3>3. loop \in BOOLEAN
        OBVIOUS
      <3>. DEFINE t == [status EXCEPT !.loop = loop]
      <3>. HIDE DEF Devices, Subsystems, loop
      <3>4. t \in [degraded : SUBSET Subsystems, loop : BOOLEAN, up : SUBSET Devices]
        BY <3>1, <3>3
      <3>5. status' = [t EXCEPT !.degraded = Degraded(loop)]
        BY <2>1
      <3>. HIDE DEF t
      <3>. QED  BY <3>2, <3>4, <3>5
    <2>6. BootInv'
      BY <1>1, <1>2, <1>4, <2>3, <2>4, <2>5 DEF BootInv, Phases, Uncounted
    <2>. QED  BY <1>3, <2>6 DEF IInv
  <1>. QED  BY <1>5, <1>6

LEMMA DevicesUp ==
    ASSUME BootInv, NEW all \in SUBSET Devices, InitDevices(all)
    PROVE  /\ status' \in [degraded : SUBSET Subsystems, loop : BOOLEAN, up : SUBSET Devices]
           /\ faults' \in 0 .. MaxFaults
  <1>1. NoFault \/ \E kind : Fault(kind)
    BY DEF InitDevices
  <1>2. PICK more \in SUBSET Devices : status' = [status EXCEPT !.up = @ \cup more]
    BY DEF InitDevices, Wanted
  <1>3. status \in [degraded : SUBSET Subsystems, loop : BOOLEAN, up : SUBSET Devices]
    BY DEF BootInv
  <1>. HIDE DEF Devices, Subsystems
  <1>4. status.up \cup more \in SUBSET Devices
    BY <1>2, <1>3
  <1>. QED  BY <1>1, <1>2, <1>3, <1>4, FaultsBounded

LEMMA BringUpKeeps ==
    ASSUME IInv, InitSensors \/ InitServices \/ StartTask \/ Supervise
    PROVE  IInv'
  <1>1. BootInv /\ TimeInv /\ WdgTypeOK /\ SchTypeOK
    BY DEF IInv
  <1>2. /\ phase' \in Phases \ Uncounted /\ phase \notin Uncounted
        /\ UNCHANGED <<timeVars, reason, info, starts, env, boots, races>>
    BY DEF InitSensors, InitServices, StartTask, Supervise, At, Frame, Phases, Uncounted
  <1>3. /\ status' \in [degraded : SUBSET Subsystems, loop : BOOLEAN, up : SUBSET Devices]
        /\ faults' \in 0 .. MaxFaults
    <2>1. CASE InitSensors
      <3>1. {"can", "packs", "gnss"} \in SUBSET Devices
        BY DEF Devices
      <3>. QED  BY <1>1, <2>1, <3>1, DevicesUp DEF InitSensors
    <2>2. CASE InitServices
      <3>1. {"storage", "network"} \in SUBSET Devices
        BY DEF Devices
      <3>. QED  BY <1>1, <2>2, <3>1, DevicesUp DEF InitServices
    <2>3. CASE StartTask \/ Supervise
      <3>1. NoFault /\ status' = status
        BY <2>3 DEF StartTask, Supervise
      <3>. QED  BY <1>1, <3>1, FaultsBounded DEF BootInv
    <2>. QED  BY <2>1, <2>2, <2>3
  <1>4. BootInv'
    <2>1. races' \in 0 .. MaxRaces /\ today' = today
      BY <1>1, <1>2 DEF BootInv, timeVars
    <2>. QED  BY <1>1, <1>2, <1>3, <2>1, PhaseMoves
  <1>5. WdgTypeOK'
    BY <1>1, WdgUnchanged, SupervisionTypes DEF InitSensors, InitServices, StartTask, Supervise
  <1>6. SchTypeOK'
    <2>1. CASE UNCHANGED schVars
      BY <1>1, <2>1, SchUnchanged
    <2>2. CASE StartTask
      <3>1. PICK e \in Entities : Goto(e, "subscribe")
        BY <2>2 DEF StartTask, CreateTask
      <3>2. "subscribe" \in Where
        BY DEF Where
      <3>. QED  BY <1>1, <2>2, <3>1, <3>2, GotoIs, SchTypes DEF StartTask, SchTypeOK
    <2>. QED  BY <2>1, <2>2 DEF InitSensors, InitServices, Supervise
  <1>7. TimeInv'
    BY <1>1, <1>2, TimeUnchanged
  <1>. QED  BY <1>4, <1>5, <1>6, <1>7 DEF IInv

LEMMA ResetKeeps ==
    ASSUME IInv, CreateFails \/ ShutdownEnds \/ Bite \/ Reset
    PROVE  IInv'
  <1>1. faults' \in 0 .. MaxFaults
    <2>1. NoFault \/ \E kind : Fault(kind)
      BY DEF CreateFails, ShutdownEnds, Bite, Reset
    <2>. QED  BY <2>1, FaultsBounded DEF IInv
  <1>2. PICK why \in Reasons, to \in {"drivers", "off"} : Restart(why, to)
    BY DEF CreateFails, ShutdownEnds, Bite, Reset, Reasons
  <1>. QED  BY <1>1, <1>2, RestartKeeps

LEMMA RunKeeps ==
    ASSUME IInv, Shutdown \/ ClearCrashLoopCounter
    PROVE  IInv'
  <1>1. BootInv /\ TimeInv /\ WdgTypeOK /\ SchTypeOK /\ today \in Nat
    BY TimeAbsAssumption DEF IInv, TimeInv
  <1>2. faults' \in 0 .. MaxFaults /\ races' \in 0 .. MaxRaces
    <2>1. NoFault /\ races' = races
      BY DEF Shutdown, ClearCrashLoopCounter, Frame
    <2>. QED  BY <1>1, <2>1, FaultsBounded DEF BootInv
  <1>3. TimeInv' /\ today' = today
    <2>1. UNCHANGED timeVars
      BY DEF Shutdown, ClearCrashLoopCounter
    <2>. QED  BY <1>1, <2>1, TimeUnchanged DEF timeVars
  <1>4. WdgTypeOK' /\ SchTypeOK'
    BY <1>1, WdgUnchanged, SchUnchanged, SupervisionTypes DEF Shutdown, ClearCrashLoopCounter
  <1>5. CASE Shutdown
    <2>1. /\ phase' = "flush" /\ UNCHANGED <<reason, info, status, starts, env, boots>>
      BY <1>5 DEF Shutdown, At, Frame
    <2>2. "flush" \in Phases \ Uncounted
      BY DEF Phases, Uncounted
    <2>3. status' \in [degraded : SUBSET Subsystems, loop : BOOLEAN, up : SUBSET Devices]
      BY <1>1, <2>1 DEF BootInv
    <2>4. BootInv'
      BY <1>1, <1>2, <1>3, <2>1, <2>2, <2>3, PhaseMoves
    <2>. QED  BY <1>3, <1>4, <2>4 DEF IInv
  <1>6. CASE ClearCrashLoopCounter
    <2>1. /\ phase = "run" /\ UNCHANGED <<phase, reason, env, boots>>
          /\ info' = [count |-> 0, window |-> Reading] /\ starts' = <<>>
          /\ status' = [status EXCEPT !.loop = FALSE, !.degraded = {}]
      BY <1>6 DEF ClearCrashLoopCounter, Frame
    <2>2. Reading \in 0 .. today
      <3>1. CASE clock.valid
        <4>1. clock.offset \in Int /\ clock.offset >= 0 /\ Reading <= today /\ uptime \in Nat
          BY <1>1, <3>1 DEF TimeInv
        <4>2. Counter \in Nat
          BY <4>1, CounterIs
        <4>. QED  BY <1>1, <3>1, <4>1, <4>2 DEF Reading
      <3>2. CASE ~clock.valid
        BY <1>1, <3>2 DEF Reading
      <3>. QED  BY <3>1, <3>2
    <2>3. info' \in [count : 0 .. boots, window : 0 .. today]
      <3>. HIDE DEF Reading
      <3>1. 0 \in 0 .. boots
        BY <1>1, BootIs
      <3>. QED  BY <2>1, <2>2, <3>1
    <2>4. status' \in [degraded : SUBSET Subsystems, loop : BOOLEAN, up : SUBSET Devices]
      <3>. DEFINE t == [status EXCEPT !.loop = FALSE]
      <3>1. status \in [degraded : SUBSET Subsystems, loop : BOOLEAN, up : SUBSET Devices]
        BY <1>1 DEF BootInv
      <3>. HIDE DEF Devices, Subsystems
      <3>2. t \in [degraded : SUBSET Subsystems, loop : BOOLEAN, up : SUBSET Devices]
        BY <3>1
      <3>3. status' = [t EXCEPT !.degraded = {}]
        BY <2>1
      <3>. HIDE DEF t
      <3>. QED  BY <3>2, <3>3
    <2>5. starts' \in Seq(Start)
      BY <2>1
    <2>6. BootInv'
      BY <1>1, <1>2, <1>3, <2>1, <2>3, <2>4, <2>5 DEF BootInv, Uncounted
    <2>. QED  BY <1>3, <1>4, <2>6 DEF IInv
  <1>. QED  BY <1>5, <1>6

LEMMA BootUnchanged ==
    ASSUME BootInv, UNCHANGED <<bootVars, env, boots, today>>,
           phase = "off" => clock' = NoClock /\ uptime' = 0,
           faults' \in 0 .. MaxFaults, races' \in 0 .. MaxRaces
    PROVE  BootInv'
  BY DEF BootInv, bootVars

(* Tasks and time in ticks: nothing of the start-up is touched. *)
LEMMA TasksKeep ==
    ASSUME IInv, TaskStep \/ TaskFault \/ TimeStep
    PROVE  IInv'
  <1>1. BootInv /\ TimeInv /\ WdgTypeOK /\ SchTypeOK
    BY DEF IInv
  <1>2. UNCHANGED <<timeVars, bootVars, env, boots>>
    BY DEF TaskStep, TaskFault, TimeStep, stillBoot
  <1>3. faults' \in 0 .. MaxFaults /\ races' \in 0 .. MaxRaces
    <2>1. faults \in 0 .. MaxFaults /\ races \in 0 .. MaxRaces /\ MaxRaces \in Nat
      BY <1>1, BootIs DEF BootInv
    <2>2. faults' = faults \/ NoFault \/ \E kind : Fault(kind)
      BY DEF TaskStep, TaskFault, TimeStep
    <2>3. races' = races \/ (races < MaxRaces /\ races' = races + 1)
      BY DEF TaskStep, TaskFault, TimeStep
    <2>. QED  BY <1>1, <2>1, <2>2, <2>3, FaultsBounded
  <1>4. WdgTypeOK' /\ SchTypeOK'
    <2>1. CASE \E e \in Entities : RunTask(e) \/ LoadCount(e) \/ Sticks(e)
      BY <1>1, <2>1, TaskTypes
    <2>2. CASE \E e \in Entities : SubscribeTask(e, e \in Watched)
      <3>1. PICK e \in Entities : SubscribeTask(e, e \in Watched)
        BY <2>2
      <3>2. (e \in Watched) \in BOOLEAN
        OBVIOUS
      <3>. QED  BY <1>1, <3>1, <3>2, SubscribeTypes
    <2>3. CASE TimePasses /\ (late' = TRUE \/ late' = late)
      BY <1>1, <2>3, TimeTypes DEF SchTypeOK
    <2>. QED  BY <2>1, <2>2, <2>3 DEF TaskStep, TaskFault, TimeStep, Proceed, Tick, LateTick
  <1>5. BootInv'
    BY <1>1, <1>2, <1>3, BootUnchanged DEF timeVars, BootInv
  <1>6. TimeInv'
    BY <1>1, <1>2, TimeUnchanged
  <1>. QED  BY <1>4, <1>5, <1>6 DEF IInv

LEMMA DayKeeps ==
    ASSUME IInv, Day
    PROVE  IInv'
  <1>1. BootInv /\ TimeInv /\ WdgTypeOK /\ SchTypeOK
    BY DEF IInv
  <1>2. UNCHANGED <<wdgVars, schVars, bootVars, env, boots, races>>
    BY DEF Day, Frame
  <1>3. faults' \in 0 .. MaxFaults
    <2>1. NoFault \/ \E kind : Fault(kind)
      BY DEF Day
    <2>. QED  BY <1>1, <2>1, FaultsBounded
  <1>4. /\ TimeInv' /\ (today' = today \/ today' = today + 1)
        /\ phase = "off" => clock' = NoClock /\ uptime' = 0
    <2>1. phase = "off" => clock = NoClock /\ uptime = 0
      BY <1>1 DEF BootInv
    <2>2. CASE phase \in {"run", "off"} /\ DayPasses(phase = "run")
      <3>1. (phase = "run") \in BOOLEAN /\ (~(phase = "run") => clock = NoClock /\ uptime = 0)
        BY <2>1, <2>2
      <3>2. TimeInv' /\ clock' = clock /\ (~(phase = "run") => uptime' = 0)
        BY <1>1, <2>2, <3>1, TimeDay
      <3>. QED  BY <2>1, <2>2, <3>2 DEF DayPasses
    <2>3. CASE OscillatorStops
      <3>1. today' = today
        BY <2>3 DEF OscillatorStops
      <3>. QED  BY <1>1, <2>1, <2>3, <3>1, TimeStops
    <2>4. CASE phase = "run" /\ \E taken \in BOOLEAN : Synchronise(taken)
      <3>1. today' = today
        BY <2>4 DEF Synchronise
      <3>. QED  BY <1>1, <2>4, <3>1, TimeSynchronise
    <2>. QED  BY <2>2, <2>3, <2>4 DEF Day
  <1>5. info' \in [count : 0 .. boots', window : 0 .. today']
    <2>1. info \in [count : 0 .. boots, window : 0 .. today] /\ info' = info /\ boots' = boots
      BY <1>1, <1>2 DEF BootInv, bootVars
    <2>2. today \in Int
      BY TimeAbsAssumption, <1>1 DEF TimeInv
    <2>3. 0 .. today \subseteq 0 .. today'
      BY <1>4, <2>2
    <2>. QED  BY <2>1, <2>3
  <1>6. BootInv'
    BY <1>1, <1>2, <1>3, <1>4, <1>5 DEF BootInv, bootVars
  <1>7. WdgTypeOK' /\ SchTypeOK'
    BY <1>1, <1>2, WdgUnchanged, SchUnchanged
  <1>. QED  BY <1>4, <1>6, <1>7 DEF IInv

LEMMA StepKeeps ==
    ASSUME IInv, [Next]_vars
    PROVE  IInv'
  <1>1. CASE UNCHANGED vars
    <2>1. UNCHANGED <<wdgVars, schVars, timeVars, bootVars, counts>>
      BY <1>1 DEF vars
    <2>. QED  BY <2>1, WdgUnchanged, SchUnchanged, TimeUnchanged
              DEF IInv, BootInv, bootVars, counts, timeVars
  <1>2. CASE Next
    BY <1>2, EarlyKeeps, EvaluateKeeps, BringUpKeeps, ResetKeeps, RunKeeps, TasksKeep, DayKeeps
       DEF Next, Boot
  <1>. QED  BY <1>1, <1>2

LEMMA InvariantHolds == Spec => []IInv
  BY InitIsIn, StepKeeps, PTL DEF Spec

(* Every variable keeps to its type and range, for every instance: what is *)
(* read from the chip is one of its dates, the record never counts more    *)
(* starts than there were, its window never opens in the future, and the   *)
(* timer of the watchdog (Wdg_Esp32.cpp) stays within its period.          *)
THEOREM TypesHold == Spec => []TypeOK
  BY InvariantHolds, TypesFollow, PTL

(* The clock (TimeAbs.c) shows the true day whenever the chip it was taken *)
(* from had been set since its oscillator last stopped, and the counter    *)
(* has not wrapped since: over the calendar of 1970 to 2099, in which the  *)
(* conversions of TimeAbs_ToDateTime and TimeAbs_FromDateTime are inverse  *)
(* and agree with the chip's own.                                          *)
THEOREM ClockIsTrue == Spec => []ClockTrue
  BY InvariantHolds, TypesFollow, PTL

-----------------------------------------------------------------------------
(* Forgiveness.  An entity is expired with Tolerance failed cycles or more *)
(* behind it.  Each good cycle takes one of them back, costs Divider       *)
(* activations of the scheduler task, and none of these resets the timer:  *)
(* so the fewer are left, the longer the trigger has been withheld.        *)

Before == {"off", "drivers", "memory", "clock", "evaluate", "sensors", "services"}

(* The activations of the present cycle, the one that has begun included.  *)
Owed == runs + task[Scheduler].since
        + (IF task[Scheduler].pc \in {"enter", "body"} THEN 1 ELSE 0)

Withheld(e) ==
    entity[e].status = "expired" =>
        unfed + 1 + entity[e].failed * Divider >= (Tolerance - 1) * Divider + Owed

SupInv ==
    /\ phase \in Before => runs = 0 /\ \A e \in Entities : task[e].pc = "off"
    /\ active => phase \in {"run", "flush"}
    /\ task[Scheduler].pc # "count"
    /\ Scheduler \in subscribed => task[Scheduler].pc \notin {"off", "subscribe"}
    /\ ~active => \A e \in Entities : entity[e].status = "deactivated" /\ task[e].pc # "count"
    /\ Scheduler \notin subscribed =>
          /\ task[Scheduler].pc \in {"off", "subscribe"} /\ runs = 0
          /\ \A e \in Entities : entity[e].status = "expired" => entity[e].failed >= Tolerance
    /\ \A e \in Entities : Withheld(e)

LEMMA OwedIs ==
    ASSUME SchTypeOK
    PROVE  /\ Scheduler \in Entities /\ task[Scheduler].since \in {0, 1}
           /\ Owed \in Nat /\ Owed <= Divider + 1
           /\ Divider \in Nat /\ Divider > 0 /\ runs \in Nat /\ runs < Divider
  <1>1. Scheduler \in Entities /\ Period[Scheduler] = 1
    BY WdgMAssumption, SchMAssumption
  <1>2. /\ task[Scheduler].since \in Nat /\ task[Scheduler].since <= Period[Scheduler]
        /\ runs \in 0 .. Divider - 1 /\ Divider \in Nat /\ Divider > 0
    BY <1>1, TaskIs
  <1>. QED  BY <1>1, <1>2 DEF Owed

(* An entity that expires now, or whose failed cycles are all there. *)
LEMMA AllThere ==
    ASSUME NEW f \in Nat, f >= Tolerance, NEW u \in Nat, NEW o \in Nat, o <= Divider + 1
    PROVE  u + 1 + f * Divider >= (Tolerance - 1) * Divider + o
  <1>1. Tolerance \in Nat /\ Tolerance > 0 /\ Divider \in Nat /\ Divider > 0
    BY WdgMAssumption, SchMAssumption
  <1>2. f * Divider >= Tolerance * Divider
    BY <1>1
  <1>3. (Tolerance - 1) * Divider = Tolerance * Divider - Divider
    BY <1>1
  <1>4. f * Divider \in Nat /\ Tolerance * Divider \in Nat
    BY <1>1
  <1>. QED  BY <1>1, <1>2, <1>3, <1>4

LEMMA WithheldIs ==
    ASSUME NEW f \in Nat, NEW g \in Nat, g <= f, NEW u \in Nat, NEW o \in Nat, NEW p \in Nat, p <= o,
           u + 1 + g * Divider >= (Tolerance - 1) * Divider + o
    PROVE  u + 1 + f * Divider >= (Tolerance - 1) * Divider + p
  <1>1. Tolerance \in Nat /\ Tolerance > 0 /\ Divider \in Nat /\ Divider > 0
    BY WdgMAssumption, SchMAssumption
  <1>2. g * Divider <= f * Divider /\ g * Divider \in Nat /\ f * Divider \in Nat
    BY <1>1
  <1>3. (Tolerance - 1) * Divider \in Nat
    BY <1>1
  <1>. QED  BY <1>2, <1>3

(* A check-in of an entity leaves what is owed. *)
LEMMA CheckInWithholds ==
    ASSUME WdgTypeOK, SchTypeOK, SchTypeOK', SupInv, NEW e \in Entities, NEW s \in EntityStatus,
           entity' = [entity EXCEPT ![e] = s], unfed' = unfed, Owed' <= Owed,
           s.status = "expired" => \/ s.failed >= Tolerance
                                   \/ entity[e].status = "expired" /\ entity[e].failed <= s.failed
    PROVE  \A f \in Entities : Withheld(f)'
  <1>. SUFFICES ASSUME NEW f \in Entities, entity'[f].status = "expired"
                PROVE  unfed + 1 + entity'[f].failed * Divider >= (Tolerance - 1) * Divider + Owed'
    BY DEF Withheld
  <1>1. /\ entity[f] \in EntityStatus /\ entity'[f] \in EntityStatus
        /\ entity[f].failed \in Nat /\ entity'[f].failed \in Nat /\ unfed \in Nat
        /\ entity'[f] = IF f = e THEN s ELSE entity[f]
    <2>1. entity \in [Entities -> EntityStatus] /\ unfed \in Nat
      BY WdgMAssumption DEF WdgTypeOK
    <2>2. entity[f] \in EntityStatus /\ entity'[f] \in EntityStatus
          /\ entity'[f] = IF f = e THEN s ELSE entity[f]
      BY <2>1
    <2>. QED  BY <2>1, <2>2, EntityIs
  <1>2. Owed \in Nat /\ Owed' \in Nat /\ Owed <= Divider + 1 /\ Owed' <= Divider + 1
    <2>1. Owed' \in Nat
      <3>1. /\ task'[Scheduler].since \in Nat /\ runs' \in Nat
        BY WdgMAssumption DEF SchTypeOK
      <3>. QED  BY <3>1 DEF Owed
    <2>2. Divider \in Nat
      BY SchMAssumption
    <2>. QED  BY <2>1, <2>2, OwedIs
  <1>3. CASE entity'[f].failed >= Tolerance
    BY <1>1, <1>2, <1>3, AllThere
  <1>4. CASE entity[f].status = "expired" /\ entity[f].failed <= entity'[f].failed
    <2>1. unfed + 1 + entity[f].failed * Divider >= (Tolerance - 1) * Divider + Owed
      BY <1>4 DEF SupInv, Withheld
    <2>. HIDE DEF Owed
    <2>. QED  BY <1>1, <1>2, <1>4, <2>1, WithheldIs
  <1>. QED  BY <1>1, <1>3, <1>4, EntityIs

(* What a task does to what is owed. *)
LEMMA OwedStays ==
    ASSUME SchTypeOK, NEW e \in Entities, task' \in [Entities -> Tasks],
           \A f \in Entities : f # e => task'[f] = task[f], runs' = runs,
           \/ e # Scheduler
           \/ /\ task'[e].since = task[e].since
              /\ task'[e].pc \in {"enter", "body"} => task[e].pc \in {"enter", "body"}
           \/ task[e].since >= Period[e] /\ task'[e].since = 0
    PROVE  Owed' <= Owed
  <1>1. /\ Scheduler \in Entities /\ task[Scheduler].since \in {0, 1} /\ runs \in Nat
        /\ Period[Scheduler] = 1
    BY OwedIs, SchMAssumption
  <1>2. CASE e # Scheduler
    BY <1>1, <1>2 DEF Owed
  <1>3. CASE /\ e = Scheduler /\ task'[e].since = task[e].since
             /\ task'[e].pc \in {"enter", "body"} => task[e].pc \in {"enter", "body"}
    BY <1>1, <1>3 DEF Owed
  <1>4. CASE e = Scheduler /\ task[e].since >= Period[e] /\ task'[e].since = 0
    BY <1>1, <1>4 DEF Owed
  <1>. QED  BY <1>2, <1>3, <1>4

LEMMA SchedulerIs ==
    /\ Scheduler \in Entities /\ Period[Scheduler] = 1 /\ Budget[Scheduler] = 0
    /\ CpEntry # CpExit
    /\ CpEntry \in {CpEntry, CpExit} /\ CpExit \in {CpEntry, CpExit}
  BY WdgMAssumption, SchMAssumption DEF CpEntry, CpExit

(* The steps of a task, but for the scheduler's body. *)
LEMMA CheckInKeeps ==
    ASSUME WdgTypeOK, SchTypeOK, SupInv, phase \notin Before, UNCHANGED phase,
           NEW e \in Entities, Enter(e) \/ StoreCount(e) \/ Leave(e) \/ LoadCount(e)
    PROVE  SupInv'
  <1>0. WdgTypeOK' /\ SchTypeOK'
    BY TaskTypes DEF RunTask
  <1>1. /\ entity \in [Entities -> EntityStatus] /\ entity[e] \in EntityStatus
        /\ UNCHANGED <<active, timeout, subscribed, triggered, unfed, runs, late>>
    BY DEF WdgTypeOK, Enter, StoreCount, Leave, LoadCount, wdgVars
  <1>2. /\ task' \in [Entities -> Tasks] /\ \A f \in Entities : f # e => task'[f] = task[f]
        /\ task[e].pc \in {"enter", "count", "leave"} /\ task'[e].pc \notin {"off", "subscribe"}
        /\ task'[e].pc = "count" => entity[e].status # "deactivated" /\ e # Scheduler
        /\ Owed' <= Owed
    <2>0. {"body", "leave", "stuck"} \subseteq Where
      BY DEF Where
    <2>1. CASE Enter(e)
      <3>1. Goto(e, "body") /\ task[e].pc = "enter"
        BY <2>1 DEF Enter
      <3>2. /\ task' \in [Entities -> Tasks] /\ \A f \in Entities : f # e => task'[f] = task[f]
            /\ task'[e].pc = "body" /\ task'[e].since = task[e].since
        BY <2>0, <3>1, GotoIs
      <3>. QED  BY <1>1, <3>1, <3>2, OwedStays
    <2>2. CASE StoreCount(e)
      <3>1. /\ task' \in [Entities -> Tasks] /\ \A f \in Entities : f # e => task'[f] = task[f]
            /\ task'[e].pc = "body" /\ task'[e].since = task[e].since /\ task[e].pc = "count"
        BY <2>2, StoreIs
      <3>2. e # Scheduler \/ e = Scheduler
        OBVIOUS
      <3>3. Owed' <= Owed
        <4>1. CASE e # Scheduler
          BY <1>1, <3>1, <4>1, OwedStays
        <4>2. CASE e = Scheduler
          BY <3>1, <4>2 DEF SupInv
        <4>. QED  BY <4>1, <4>2
      <3>. QED  BY <3>1, <3>3
    <2>3. CASE Leave(e)
      <3>1. /\ task' \in [Entities -> Tasks] /\ \A f \in Entities : f # e => task'[f] = task[f]
            /\ task[e].pc = "leave"
            /\ \/ task[e].since >= Period[e] /\ task'[e].pc = "enter" /\ task'[e].since = 0
               \/ task[e].since < Period[e] /\ task'[e].pc = "wait" /\ task'[e].since = task[e].since
        BY <2>3, LeaveIs
      <3>. QED  BY <1>1, <3>1, OwedStays
    <2>4. CASE LoadCount(e)
      <3>1. /\ task' \in [Entities -> Tasks] /\ \A f \in Entities : f # e => task'[f] = task[f]
            /\ task[e].pc = "enter" /\ task'[e].since = task[e].since /\ task'[e].pc = "count"
            /\ e # Scheduler /\ entity[e].status # "deactivated"
        BY <2>4, LoadIs
      <3>. QED  BY <1>1, <3>1, OwedStays
    <2>. QED  BY <2>1, <2>2, <2>3, <2>4
  <1>3. PICK s \in EntityStatus :
           /\ entity' = [entity EXCEPT ![e] = s]
           /\ entity[e].status = "deactivated" /\ task[e].pc # "count" => s.status = "deactivated"
           /\ s.status = "expired" => \/ s.failed >= Tolerance
                                      \/ entity[e].status = "expired" /\ entity[e].failed <= s.failed
    <2>1. ASSUME NEW cp \in {CpEntry, CpExit}, entity' = [entity EXCEPT ![e] = Reached(e, entity[e], cp)]
          PROVE  \E s \in EntityStatus :
                    /\ entity' = [entity EXCEPT ![e] = s]
                    /\ entity[e].status = "deactivated" => s.status = "deactivated"
                    /\ s.status = "expired" => \/ s.failed >= Tolerance
                                               \/ entity[e].status = "expired" /\ entity[e].failed <= s.failed
      <3>. DEFINE s == Reached(e, entity[e], cp)
      <3>1. s \in EntityStatus /\ (entity[e].status = "deactivated" => s.status = "deactivated")
        BY <1>1, ReachedIs
      <3>2. s.status = "expired" => \/ s.failed >= Tolerance
                                    \/ entity[e].status = "expired" /\ entity[e].failed <= s.failed
        <4>1. CASE entity[e].status = "deactivated"
          BY <3>1, <4>1
        <4>2. CASE entity[e].status # "deactivated"
          <5>1. s = Judge(e, entity[e], cp, entity[e].alive + 1)
            BY <1>1, <4>2, ReachedIs
          <5>2. \A n \in Nat : LET j == Judge(e, entity[e], cp, n)
                               IN /\ entity[e].failed <= j.failed
                                  /\ j.status = "expired" => entity[e].status = "expired" \/ j.failed >= Tolerance
            BY <1>1, JudgeIs
          <5>3. entity[e].alive + 1 \in Nat
            BY <1>1, EntityIs
          <5>. QED  BY <5>1, <5>2, <5>3
        <4>. QED  BY <4>1, <4>2
      <3>3. entity' = [entity EXCEPT ![e] = s]
        BY <2>1
      <3>. HIDE DEF s
      <3>. QED  BY <3>1, <3>2, <3>3
    <2>2. CASE Enter(e)
      BY <2>1, <2>2, SchedulerIs DEF Enter
    <2>3. CASE Leave(e)
      BY <2>1, <2>3, SchedulerIs DEF Leave
    <2>4. CASE LoadCount(e)
      <3>1. entity' = [entity EXCEPT ![e] = entity[e]]
        BY <1>1, <2>4, LoadIs DEF wdgVars
      <3>2. entity[e].failed <= entity[e].failed
        BY <1>1, EntityIs
      <3>3. entity[e] \in EntityStatus
        BY <1>1
      <3>. WITNESS entity[e] \in EntityStatus
      <3>. QED  BY <3>1, <3>2
    <2>5. CASE StoreCount(e)
      <3>. DEFINE n == task[e].read + 1
                  s == Judge(e, entity[e], CpEntry, n)
      <3>1. n \in Nat /\ task[e].pc = "count" /\ entity' = [entity EXCEPT ![e] = s]
        BY <2>5, TaskIs DEF StoreCount
      <3>. HIDE DEF n
      <3>2. /\ s \in EntityStatus /\ entity[e].failed <= s.failed
            /\ s.status = "expired" => entity[e].status = "expired" \/ s.failed >= Tolerance
        BY <1>1, <3>1, SchedulerIs, JudgeIs
      <3>3. task[e].pc = "count" /\ entity' = [entity EXCEPT ![e] = s]
        BY <3>1
      <3>. HIDE DEF s
      <3>. QED  BY <3>2, <3>3
    <2>. QED  BY <2>2, <2>3, <2>4, <2>5
  <1>4. \A f \in Entities : Withheld(f)'
    BY <1>0, <1>1, <1>2, <1>3, CheckInWithholds
  <1>5. ~active' => \A f \in Entities : entity'[f].status = "deactivated" /\ task'[f].pc # "count"
    BY <1>1, <1>2, <1>3 DEF SupInv
  <1>6. Scheduler \in subscribed'
        \/ /\ task'[Scheduler].pc \in {"off", "subscribe"} /\ runs' = 0
           /\ \A f \in Entities : entity'[f].status = "expired" => entity'[f].failed >= Tolerance
    <2>. SUFFICES ASSUME Scheduler \notin subscribed
                  PROVE  /\ task'[Scheduler].pc \in {"off", "subscribe"} /\ runs' = 0
                         /\ \A f \in Entities : entity'[f].status = "expired" => entity'[f].failed >= Tolerance
      BY <1>1
    <2>1. /\ task[Scheduler].pc \in {"off", "subscribe"} /\ runs = 0
          /\ \A f \in Entities : entity[f].status = "expired" => entity[f].failed >= Tolerance
      BY DEF SupInv
    <2>2. e # Scheduler
      BY <1>2, <2>1
    <2>3. ASSUME NEW f \in Entities, entity'[f].status = "expired"
          PROVE  entity'[f].failed >= Tolerance
      <3>1. CASE f = e
        <4>1. entity[e].failed \in Nat /\ Tolerance \in Nat /\ entity'[f].failed \in Nat
          BY <1>1, <1>3, <3>1, EntityIs
        <4>. QED  BY <1>1, <1>3, <2>1, <2>3, <3>1, <4>1
      <3>2. CASE f # e
        BY <1>1, <1>3, <2>1, <2>3, <3>2
      <3>. QED  BY <3>1, <3>2
    <2>. QED  BY <1>1, <1>2, <2>1, <2>2, <2>3, SchedulerIs
  <1>7. (active' => phase' \in {"run", "flush"}) /\ phase' \notin Before
    BY <1>1 DEF SupInv
  <1>8. /\ task'[Scheduler].pc # "count"
        /\ Scheduler \in subscribed' => task'[Scheduler].pc \notin {"off", "subscribe"}
    BY <1>1, <1>2, SchedulerIs DEF SupInv
  <1>. QED  BY <1>4, <1>5, <1>6, <1>7, <1>8 DEF SupInv

(* Nothing of the tasks and their supervision changes. *)
LEMMA QuietKeeps ==
    ASSUME SupInv, UNCHANGED <<wdgVars, schVars>>,
           phase' \in Before => phase \in Before,
           active => phase' \in {"run", "flush"}
    PROVE  SupInv'
  BY DEF SupInv, wdgVars, schVars, Withheld, Owed

LEMMA StuckKeeps ==
    ASSUME WdgTypeOK, SchTypeOK, SupInv, phase \notin Before, UNCHANGED phase,
           NEW e \in Entities, Sticks(e)
    PROVE  SupInv'
  <1>0. WdgTypeOK' /\ SchTypeOK'
    BY TaskTypes
  <1>1. Goto(e, "stuck") /\ task[e].pc = "body" /\ UNCHANGED <<wdgVars, runs>>
    BY DEF Sticks
  <1>2. /\ task' \in [Entities -> Tasks] /\ \A f \in Entities : f # e => task'[f] = task[f]
        /\ task'[e].pc = "stuck" /\ task'[e].since = task[e].since
    <2>1. "stuck" \in Where
      BY DEF Where
    <2>. QED  BY <1>1, <2>1, GotoIs
  <1>3. Owed' <= Owed
    BY <1>1, <1>2, OwedStays
  <1>4. entity \in [Entities -> EntityStatus] /\ entity' = entity /\ entity[e] \in EntityStatus /\ unfed' = unfed
    BY <1>1 DEF WdgTypeOK, wdgVars
  <1>5. entity' = [entity EXCEPT ![e] = entity[e]]
    BY <1>4
  <1>6. \A f \in Entities : Withheld(f)'
    <2>1. entity[e].failed <= entity[e].failed
      BY <1>4, EntityIs
    <2>. QED  BY <1>0, <1>3, <1>4, <1>5, <2>1, CheckInWithholds
  <1>. QED  BY <1>1, <1>2, <1>4, <1>6, SchedulerIs DEF SupInv, wdgVars

(* A task subscribes: all failed cycles of an expired entity are there, or *)
(* the scheduler task had subscribed before.                               *)
LEMMA SubscribeKeeps ==
    ASSUME WdgTypeOK, SchTypeOK, SupInv, phase \notin Before, UNCHANGED phase,
           NEW e \in Entities, NEW taken \in BOOLEAN, e = Scheduler => taken, SubscribeTask(e, taken)
    PROVE  SupInv'
  <1>0. WdgTypeOK' /\ SchTypeOK'
    BY SubscribeTypes
  <1>1. /\ Goto(e, "enter") /\ task[e].pc = "subscribe"
        /\ UNCHANGED <<entity, active, runs, unfed>>
        /\ subscribed' = IF taken THEN subscribed \cup {e} ELSE subscribed
    BY DEF SubscribeTask, Subscribe
  <1>2. /\ task' \in [Entities -> Tasks] /\ \A f \in Entities : f # e => task'[f] = task[f]
        /\ task'[e].pc = "enter" /\ task'[e].since = task[e].since
    <2>1. "enter" \in Where
      BY DEF Where
    <2>. QED  BY <1>1, <2>1, GotoIs
  <1>3. \A f \in Entities : Withheld(f)'
    <2>1. entity \in [Entities -> EntityStatus] /\ entity' = entity /\ entity[e] \in EntityStatus
          /\ unfed \in Nat
      BY <1>1, WdgMAssumption DEF WdgTypeOK
    <2>2. CASE Scheduler \in subscribed /\ e # Scheduler
      <3>1. Owed' <= Owed
        BY <1>1, <1>2, <2>2, OwedStays
      <3>2. entity' = [entity EXCEPT ![e] = entity[e]] /\ entity[e].failed <= entity[e].failed
        BY <2>1, EntityIs
      <3>. QED  BY <1>0, <1>1, <2>1, <3>1, <3>2, CheckInWithholds
    <2>4. CASE \A f \in Entities : entity[f].status = "expired" => entity[f].failed >= Tolerance
      <3>1. Owed' \in Nat /\ Owed' <= Divider + 1
        <4>1. /\ Scheduler \in Entities /\ Period[Scheduler] = 1 /\ runs' \in 0 .. Divider - 1
              /\ task'[Scheduler].since \in Nat /\ task'[Scheduler].since <= Period[Scheduler]
              /\ Divider \in Nat
          BY <1>0, SchedulerIs, SchMAssumption DEF SchTypeOK
        <4>. QED  BY <4>1 DEF Owed
      <3>. SUFFICES ASSUME NEW f \in Entities, entity[f].status = "expired"
                    PROVE  unfed + 1 + entity[f].failed * Divider >= (Tolerance - 1) * Divider + Owed'
        BY <1>1 DEF Withheld
      <3>2. entity[f].failed \in Nat
        BY <2>1, EntityIs
      <3>. HIDE DEF Owed
      <3>. QED  BY <2>1, <2>4, <3>1, <3>2, AllThere
    <2>5. CASE Scheduler \in subscribed /\ e = Scheduler
      BY <1>1, <2>5 DEF SupInv
    <2>6. CASE Scheduler \notin subscribed
      BY <2>4, <2>6 DEF SupInv
    <2>. QED  BY <2>2, <2>5, <2>6
  <1>. QED  BY <1>1, <1>2, <1>3, SchedulerIs DEF SupInv

(* A tick: the timer goes on, or nothing has subscribed yet. *)
LEMMA TickKeeps ==
    ASSUME WdgTypeOK, SchTypeOK, SupInv, UNCHANGED phase, TimePasses, late' \in BOOLEAN
    PROVE  SupInv'
  <1>0. WdgTypeOK' /\ SchTypeOK'
    BY TimeTypes
  <1>1. /\ UNCHANGED <<active, subscribed, runs>>
        /\ unfed' = IF subscribed = {} THEN 0 ELSE unfed + 1
        /\ task' = [e \in Entities |-> OneTickOlder(e)]
    BY DEF TimePasses
  <1>2. ASSUME NEW f \in Entities
        PROVE  /\ task'[f].pc # task[f].pc => task[f].pc = "wait" /\ task'[f].pc = "enter"
               /\ task[f].pc = "off" => task'[f] = task[f]
               /\ task'[f].since <= task[f].since + 1 /\ task'[f].since \in Nat
               /\ task'[f].pc # task[f].pc => task'[f].since = 0
    <2>1. task'[f] = OneTickOlder(f)
      BY <1>1
    <2>2. task[f].since \in Nat /\ Period[f] \in Nat /\ task[f].since <= Period[f]
      BY TaskIs
    <2>3. task[f].pc = "off" \/ (task[f].pc = "wait" /\ task[f].since + 1 >= Period[f])
          \/ (task[f].pc # "off" /\ ~(task[f].pc = "wait" /\ task[f].since + 1 >= Period[f]))
      OBVIOUS
    <2>. QED  BY <2>1, <2>2, <2>3, OlderIs
  <1>3. ASSUME NEW f \in Entities
        PROVE  /\ entity'[f].status = entity[f].status /\ entity'[f].failed = entity[f].failed
               /\ entity[f].failed \in Nat
    BY AgedIs, EntityIs DEF WdgTypeOK
  <1>4. Owed' \in Nat /\ Owed' <= Divider + 1 /\ Owed' <= Owed + 1 /\ Owed \in Nat
    <2>1. /\ Scheduler \in Entities /\ Period[Scheduler] = 1 /\ runs' \in 0 .. Divider - 1
          /\ task'[Scheduler].since \in Nat /\ task'[Scheduler].since <= Period[Scheduler]
          /\ task[Scheduler].since \in Nat /\ Divider \in Nat
      BY <1>0, <1>2, SchedulerIs, SchMAssumption DEF SchTypeOK
    <2>2. CASE task'[Scheduler].pc = task[Scheduler].pc
      BY <1>1, <1>2, <2>1, <2>2 DEF Owed
    <2>3. CASE task'[Scheduler].pc # task[Scheduler].pc
      BY <1>1, <1>2, <2>1, <2>3 DEF Owed
    <2>. QED  BY <2>2, <2>3
  <1>5. \A f \in Entities : Withheld(f)'
    <2>. SUFFICES ASSUME NEW f \in Entities, entity[f].status = "expired"
                  PROVE  unfed' + 1 + entity[f].failed * Divider >= (Tolerance - 1) * Divider + Owed'
      BY <1>3 DEF Withheld
    <2>1. unfed \in Nat
      BY WdgMAssumption DEF WdgTypeOK
    <2>2. CASE subscribed = {}
      <3>1. entity[f].failed >= Tolerance /\ unfed' = 0
        BY <1>1, <2>2 DEF SupInv
      <3>. HIDE DEF Owed
      <3>. QED  BY <1>3, <1>4, <3>1, AllThere
    <2>3. CASE subscribed # {}
      <3>1. unfed' = unfed + 1
        BY <1>1, <2>3
      <3>2. unfed + 1 + entity[f].failed * Divider >= (Tolerance - 1) * Divider + Owed
        BY DEF SupInv, Withheld
      <3>3. (Tolerance - 1) * Divider \in Nat /\ entity[f].failed * Divider \in Nat
        <4>1. Tolerance - 1 \in Nat /\ Divider \in Nat /\ entity[f].failed \in Nat
          BY <1>3, WdgMAssumption, SchMAssumption
        <4>2. \A a, b \in Nat : a * b \in Nat
          OBVIOUS
        <4>. QED  BY <4>1, <4>2
      <3>. HIDE DEF Owed
      <3>. QED  BY <1>4, <2>1, <3>1, <3>2, <3>3
    <2>. QED  BY <2>2, <2>3
  <1>6. ~active' => \A f \in Entities : entity'[f].status = "deactivated" /\ task'[f].pc # "count"
    BY <1>1, <1>2, <1>3 DEF SupInv
  <1>7. phase' \in Before => runs' = 0 /\ \A f \in Entities : task'[f].pc = "off"
    BY <1>1, <1>2 DEF SupInv
  <1>8. Scheduler \notin subscribed' =>
          /\ task'[Scheduler].pc \in {"off", "subscribe"} /\ runs' = 0
          /\ \A f \in Entities : entity'[f].status = "expired" => entity'[f].failed >= Tolerance
    BY <1>1, <1>2, <1>3, SchedulerIs DEF SupInv
  <1>9. /\ active' => phase' \in {"run", "flush"}
        /\ task'[Scheduler].pc # "count"
        /\ Scheduler \in subscribed' => task'[Scheduler].pc \notin {"off", "subscribe"}
    BY <1>1, <1>2, SchedulerIs DEF SupInv
  <1>. QED  BY <1>5, <1>6, <1>7, <1>8, <1>9 DEF SupInv

(* The supervision cycle comes round after Divider activations. *)
LEMMA Rounds ==
    ASSUME SchTypeOK, runs' = (runs + 1) % Divider
    PROVE  /\ runs' = 0 => runs + 1 = Divider
           /\ runs' # 0 => runs' = runs + 1
  <1>1. runs \in Nat /\ runs < Divider /\ Divider \in Nat /\ Divider > 0
    BY OwedIs
  <1>2. /\ (runs + 1) \div Divider \in Nat /\ ((runs + 1) % Divider) < Divider
        /\ ((runs + 1) % Divider) \in Nat
        /\ runs + 1 = Divider * ((runs + 1) \div Divider) + ((runs + 1) % Divider)
    BY <1>1, Division
  <1>3. CASE runs + 1 = Divider
    <2>1. Divider * ((runs + 1) \div Divider) + ((runs + 1) % Divider) = Divider * 1 + 0
      BY <1>1, <1>2, <1>3
    <2>2. (runs + 1) % Divider = 0
      BY <1>1, <1>2, <2>1, DivisionUnique
    <2>. QED  BY <1>3, <2>2
  <1>4. CASE runs + 1 < Divider
    <2>1. Divider * ((runs + 1) \div Divider) + ((runs + 1) % Divider) = Divider * 0 + (runs + 1)
      BY <1>1, <1>2
    <2>2. (runs + 1) % Divider = runs + 1
      BY <1>1, <1>2, <1>4, <2>1, DivisionUnique
    <2>. QED  BY <1>1, <2>2
  <1>. QED  BY <1>1, <1>3, <1>4

(* An evaluation: who stays expired has lost a failed cycle at most; who   *)
(* is forgiven had one left.                                               *)
LEMMA EvaluationIs ==
    ASSUME WdgTypeOK, WdgMainFunction, active, NEW f \in Entities
    PROVE  /\ entity'[f] = Evaluated(f, entity[f]) /\ entity[f] \in EntityStatus
           /\ entity[f].failed \in Nat /\ entity'[f].failed \in Nat
           /\ entity'[f].status = "expired" =>
                 \/ entity'[f].failed >= Tolerance
                 \/ entity[f].status = "expired" /\ entity[f].failed <= entity'[f].failed + 1
           /\ entity[f].status = "expired" /\ entity'[f].status = "ok" => entity[f].failed <= 1
           /\ entity[f].status = "deactivated" => entity'[f] = entity[f]
  <1>1. entity[f] \in EntityStatus /\ entity'[f] = Evaluated(f, entity[f])
    BY DEF WdgTypeOK, WdgMainFunction
  <1>2. Evaluated(f, entity[f]) \in EntityStatus
    BY <1>1, EvaluatedIs
  <1>3. entity[f].failed \in Nat /\ entity'[f].failed \in Nat
    BY <1>1, <1>2, EntityIs
  <1>4. CASE entity[f].status = "deactivated"
    BY <1>1, <1>3, <1>4, EvaluatedIs
  <1>5. CASE entity[f].status # "deactivated" /\ (entity[f].alive < AliveMin[f] \/ entity[f].alive > AliveMax[f])
    BY <1>1, <1>3, <1>5, EvaluatedIs
  <1>6. CASE entity[f].status # "deactivated" /\ ~(entity[f].alive < AliveMin[f] \/ entity[f].alive > AliveMax[f])
    BY <1>1, <1>3, <1>6, EvaluatedIs
  <1>. QED  BY <1>1, <1>3, <1>4, <1>5, <1>6

LEMMA OneLess ==
    ASSUME NEW g \in Nat, NEW h \in Nat, g <= h + 1, NEW u \in Nat, NEW o \in Nat, NEW p \in Nat,
           p + Divider = o, u + 1 + g * Divider >= (Tolerance - 1) * Divider + o
    PROVE  u + 1 + h * Divider >= (Tolerance - 1) * Divider + p
  <1>1. Divider \in Nat /\ Tolerance - 1 \in Nat
    BY SchMAssumption, WdgMAssumption
  <1>2. /\ g * Divider <= (h + 1) * Divider /\ (h + 1) * Divider = h * Divider + Divider
        /\ g * Divider \in Nat /\ h * Divider \in Nat /\ (Tolerance - 1) * Divider \in Nat
    BY <1>1
  <1>. QED  BY <1>1, <1>2

LEMMA BodyKeeps ==
    ASSUME WdgTypeOK, SchTypeOK, SupInv, phase \notin Before, UNCHANGED phase,
           NEW e \in Entities, Body(e)
    PROVE  SupInv'
  <1>0. WdgTypeOK' /\ SchTypeOK'
    BY TaskTypes DEF RunTask
  <1>1. /\ Goto(e, "leave") /\ task[e].pc = "body"
        /\ e # Scheduler => UNCHANGED <<wdgVars, runs>>
        /\ e = Scheduler => /\ runs' = (runs + 1) % Divider
                            /\ runs' = 0 => WdgMainFunction
                            /\ runs' # 0 => UNCHANGED wdgVars
    BY DEF Body
  <1>2. /\ task' \in [Entities -> Tasks] /\ \A f \in Entities : f # e => task'[f] = task[f]
        /\ task'[e].pc = "leave" /\ task'[e].since = task[e].since
    <2>1. "leave" \in Where
      BY DEF Where
    <2>. QED  BY <1>1, <2>1, GotoIs
  <1>3. entity \in [Entities -> EntityStatus] /\ unfed \in Nat
    BY WdgMAssumption DEF WdgTypeOK
  <1>4. CASE UNCHANGED wdgVars /\ (e # Scheduler \/ runs' # 0)
    <2>1. Owed' <= Owed
      <3>1. CASE e # Scheduler
        BY <1>1, <1>2, <3>1, OwedStays
      <3>2. CASE e = Scheduler /\ runs' # 0
        <4>1. runs' = runs + 1 /\ runs \in Nat /\ task[Scheduler].since \in {0, 1}
          BY <1>1, <3>2, Rounds, OwedIs
        <4>. QED  BY <1>1, <1>2, <3>2, <4>1 DEF Owed
      <3>. QED  BY <1>4, <3>1, <3>2
    <2>2. entity' = [entity EXCEPT ![e] = entity[e]] /\ entity[e] \in EntityStatus /\ unfed' = unfed
      BY <1>3, <1>4 DEF wdgVars
    <2>3. entity[e].failed <= entity[e].failed
      BY <2>2, EntityIs
    <2>4. \A f \in Entities : Withheld(f)'
      BY <1>0, <2>1, <2>2, <2>3, CheckInWithholds
    <2>5. Scheduler \notin subscribed => e # Scheduler /\ runs' = 0
      BY <1>1 DEF SupInv
    <2>. QED  BY <1>1, <1>2, <1>4, <2>4, <2>5, SchedulerIs DEF SupInv, wdgVars
  <1>5. CASE e = Scheduler /\ runs' = 0 /\ WdgMainFunction
    <2>1. /\ UNCHANGED <<active, subscribed>> /\ Scheduler \in subscribed
          /\ task[Scheduler].since \in {0, 1} /\ runs + 1 = Divider /\ runs \in Nat
      BY <1>1, <1>5, Rounds, OwedIs DEF WdgMainFunction, SupInv
    <2>2. Owed' + Divider = Owed /\ Owed' \in Nat /\ Owed' <= Divider + 1
      <3>1. /\ task'[Scheduler].since = task[Scheduler].since /\ task'[Scheduler].pc = "leave"
            /\ task[Scheduler].pc = "body" /\ runs' = 0
        BY <1>1, <1>2, <1>5
      <3>2. Owed' = task[Scheduler].since
        BY <2>1, <3>1 DEF Owed
      <3>3. Owed = runs + task[Scheduler].since + 1
        BY <2>1, <3>1 DEF Owed
      <3>. QED  BY <2>1, <3>2, <3>3
    <2>3. CASE ~active
      <3>1. entity' = entity
        BY <1>5, <2>3 DEF WdgMainFunction
      <3>2. \A f \in Entities : entity'[f].status = "deactivated" /\ task'[f].pc # "count"
        BY <1>2, <2>3, <3>1 DEF SupInv
      <3>3. \A f \in Entities : Withheld(f)'
        BY <3>2 DEF Withheld
      <3>. QED  BY <1>2, <1>5, <2>1, <2>3, <3>2, <3>3 DEF SupInv
    <2>4. CASE active
      <3>1. \A f \in Entities : Withheld(f)'
        <4>. SUFFICES ASSUME NEW f \in Entities, entity'[f].status = "expired"
                      PROVE  unfed' + 1 + entity'[f].failed * Divider >= (Tolerance - 1) * Divider + Owed'
          BY DEF Withheld
        <4>1. unfed' = unfed
          BY <1>5, <2>4 DEF WdgMainFunction, Expired
        <4>2. /\ entity[f].failed \in Nat /\ entity'[f].failed \in Nat
              /\ \/ entity'[f].failed >= Tolerance
                 \/ entity[f].status = "expired" /\ entity[f].failed <= entity'[f].failed + 1
          BY <1>5, <2>4, EvaluationIs
        <4>3. CASE entity'[f].failed >= Tolerance
          <5>. HIDE DEF Owed
          <5>. QED  BY <1>3, <2>2, <4>1, <4>2, <4>3, AllThere
        <4>4. CASE entity[f].status = "expired" /\ entity[f].failed <= entity'[f].failed + 1
          <5>1. unfed + 1 + entity[f].failed * Divider >= (Tolerance - 1) * Divider + Owed
            BY <4>4 DEF SupInv, Withheld
          <5>2. Owed \in Nat
            BY OwedIs
          <5>. HIDE DEF Owed
          <5>. QED  BY <1>3, <2>2, <4>1, <4>2, <4>4, <5>1, <5>2, OneLess
        <4>. QED  BY <4>2, <4>3, <4>4
      <3>. QED  BY <1>2, <1>5, <2>1, <2>4, <3>1, SchedulerIs DEF SupInv
    <2>. QED  BY <2>3, <2>4
  <1>. QED  BY <1>1, <1>4, <1>5

LEMMA SupInitially == Init => SupInv
  <1>. SUFFICES ASSUME Init PROVE SupInv
    OBVIOUS
  <1>1. /\ active = FALSE /\ subscribed = {} /\ runs = 0
        /\ entity = [f \in Entities |-> Fresh] /\ task = [f \in Entities |-> NoTask]
    BY DEF Init, WdgInit, SchInit
  <1>2. Fresh.status = "deactivated" /\ NoTask.pc = "off"
    BY DEF Fresh, NoTask
  <1>3. \A f \in Entities : entity[f].status = "deactivated" /\ task[f].pc = "off"
    BY <1>1, <1>2
  <1>. QED  BY <1>1, <1>3, SchedulerIs DEF SupInv, Withheld

LEMMA ResetWithholds ==
    ASSUME WdgReset, SchReset
    PROVE  SupInv'
  <1>1. /\ active' = FALSE /\ subscribed' = {} /\ runs' = 0
        /\ entity' = [f \in Entities |-> Fresh] /\ task' = [f \in Entities |-> NoTask]
    BY DEF WdgReset, SchReset
  <1>2. Fresh.status = "deactivated" /\ NoTask.pc = "off"
    BY DEF Fresh, NoTask
  <1>3. \A f \in Entities : entity'[f].status = "deactivated" /\ task'[f].pc = "off"
    BY <1>1, <1>2
  <1>. QED  BY <1>1, <1>3, SchedulerIs DEF SupInv, Withheld

(* The steps of the start-up and of the shutdown. *)
LEMMA BootWithholds ==
    ASSUME WdgTypeOK, SchTypeOK, SupInv, Boot \/ Shutdown
    PROVE  SupInv'
  <1>1. CASE InitDrivers
    <2>1. /\ phase = "drivers" /\ phase' = "memory" /\ UNCHANGED schVars
          /\ active' = FALSE /\ subscribed' = {} /\ entity' = [f \in Entities |-> Fresh]
      BY <1>1 DEF InitDrivers, At, WdgReset
    <2>2. Fresh.status = "deactivated"
      BY DEF Fresh
    <2>3. \A f \in Entities : entity'[f].status = "deactivated" /\ task'[f].pc = "off" /\ runs' = 0
      BY <2>1, <2>2 DEF SupInv, Before, schVars
    <2>. QED  BY <2>1, <2>3, SchedulerIs DEF SupInv, Withheld
  <1>2. CASE InitMemory \/ InitClock \/ EvaluateCrashLoop \/ InitSensors \/ InitServices
    <2>1. /\ UNCHANGED <<wdgVars, schVars>> /\ phase \in Before
      BY <1>2 DEF InitMemory, InitClock, EvaluateCrashLoop, InitSensors, InitServices, At, Before
    <2>2. ~active
      BY <2>1 DEF SupInv, Before
    <2>. QED  BY <2>1, <2>2, QuietKeeps
  <1>3. CASE StartTask
    <2>1. PICK e \in Entities : CreateTask(e)
      BY <1>3 DEF StartTask
    <2>2. /\ UNCHANGED <<wdgVars, runs>> /\ phase = "tasks" /\ phase' \in {"tasks", "supervise"}
          /\ task[e].pc = "off" /\ Goto(e, "subscribe")
      BY <1>3, <2>1 DEF StartTask, CreateTask
    <2>3. /\ task' \in [Entities -> Tasks] /\ \A f \in Entities : f # e => task'[f] = task[f]
          /\ task'[e].pc = "subscribe" /\ task'[e].since = task[e].since
      <3>1. "subscribe" \in Where
        BY DEF Where
      <3>. QED  BY <2>2, <3>1, GotoIs
    <2>4. ~active
      BY <2>2 DEF SupInv
    <2>5. \A f \in Entities : entity'[f].status = "deactivated" /\ task'[f].pc # "count"
      BY <2>2, <2>3, <2>4 DEF SupInv, wdgVars
    <2>6. Scheduler \in subscribed => e # Scheduler
      BY <2>2 DEF SupInv
    <2>. QED  BY <2>2, <2>3, <2>4, <2>5, <2>6, SchedulerIs DEF SupInv, Withheld, wdgVars, Before
  <1>4. CASE Supervise \/ Shutdown
    <2>1. /\ UNCHANGED <<subscribed, schVars>> /\ phase' \in {"run", "flush"}
          /\ active' = TRUE \/ active' = active
      BY <1>4 DEF Supervise, Shutdown, ActivateSupervision, At
    <2>2. \A f \in Entities : entity'[f].status \in {"ok", "deactivated"}
      <3>1. ASSUME NEW f \in Entities
            PROVE  entity'[f].status \in {"ok", "deactivated"}
        <4>1. entity[f] \in EntityStatus
          BY DEF WdgTypeOK
        <4>2. entity'[f] = Activated(entity[f]) \/ entity'[f] = Deactivated(entity[f])
          BY <1>4 DEF Supervise, Shutdown, ActivateSupervision
        <4>. QED  BY <4>1, <4>2, ActivatedIs
      <3>. QED  BY <3>1
    <2>3. ~active' => \A f \in Entities : entity'[f].status = "deactivated" /\ task'[f].pc # "count"
      <3>1. CASE Supervise
        BY <3>1 DEF Supervise, ActivateSupervision
      <3>2. CASE Shutdown
        <4>1. active' = active /\ UNCHANGED schVars
          BY <3>2 DEF Shutdown
        <4>2. ASSUME NEW f \in Entities PROVE entity'[f].status = "deactivated"
          <5>1. entity[f] \in EntityStatus /\ entity'[f] = Deactivated(entity[f])
            BY <3>2 DEF WdgTypeOK, Shutdown
          <5>. QED  BY <5>1, ActivatedIs
        <4>. QED  BY <4>1, <4>2 DEF SupInv, schVars
      <3>. QED  BY <1>4, <3>1, <3>2
    <2>. QED  BY <2>1, <2>2, <2>3, SchedulerIs DEF SupInv, Withheld, schVars, Before
  <1>. QED  BY <1>1, <1>2, <1>3, <1>4 DEF Boot

(* A task that runs was created. *)
LEMMA TasksWithhold ==
    ASSUME IInv, SupInv, TaskStep \/ TaskFault \/ TimeStep
    PROVE  SupInv'
  <1>1. WdgTypeOK /\ SchTypeOK /\ UNCHANGED phase
    BY DEF IInv, TaskStep, TaskFault, TimeStep, stillBoot, bootVars
  <1>2. CASE TimePasses /\ (late' = TRUE \/ late' = late)
    BY <1>1, <1>2, TickKeeps DEF SchTypeOK
  <1>3. ASSUME NEW e \in Entities, task[e].pc # "off"
        PROVE  phase \notin Before
    BY <1>3 DEF SupInv
  <1>4. CASE \E e \in Entities : RunTask(e) \/ LoadCount(e) \/ Sticks(e)
    <2>1. PICK e \in Entities : RunTask(e) \/ LoadCount(e) \/ Sticks(e)
      BY <1>4
    <2>2. phase \notin Before
      <3>1. task[e].pc # "off"
        BY <2>1 DEF RunTask, Enter, StoreCount, Body, Leave, LoadCount, Sticks
      <3>. QED  BY <1>3, <3>1
    <2>. QED  BY <1>1, <2>1, <2>2, CheckInKeeps, BodyKeeps, StuckKeeps DEF RunTask
  <1>5. CASE \E e \in Entities : SubscribeTask(e, e \in Watched)
    <2>1. PICK e \in Entities : SubscribeTask(e, e \in Watched)
      BY <1>5
    <2>2. phase \notin Before
      <3>1. task[e].pc # "off"
        BY <2>1 DEF SubscribeTask
      <3>. QED  BY <1>3, <3>1
    <2>3. (e \in Watched) \in BOOLEAN /\ (e = Scheduler => e \in Watched)
      BY SchedulerIs DEF Watched
    <2>. QED  BY <1>1, <2>1, <2>2, <2>3, SubscribeKeeps
  <1>. QED  BY <1>2, <1>4, <1>5 DEF TaskStep, TaskFault, TimeStep, Proceed, Tick, LateTick

LEMMA StepWithholds ==
    ASSUME IInv, SupInv, [Next]_vars
    PROVE  SupInv'
  <1>1. WdgTypeOK /\ SchTypeOK
    BY DEF IInv
  <1>2. CASE Boot \/ Shutdown
    BY <1>1, <1>2, BootWithholds
  <1>3. CASE CreateFails \/ ShutdownEnds \/ Bite \/ Reset
    <2>1. WdgReset /\ SchReset
      BY <1>3 DEF CreateFails, ShutdownEnds, Bite, Reset, Restart
    <2>. QED  BY <2>1, ResetWithholds
  <1>4. CASE TaskStep \/ TaskFault \/ TimeStep
    BY <1>4, TasksWithhold
  <1>5. CASE ClearCrashLoopCounter \/ PowerOn \/ Day \/ UNCHANGED vars
    <2>1. /\ UNCHANGED <<wdgVars, schVars>>
          /\ phase' = phase \/ (phase = "off" /\ phase' = "drivers")
      BY <1>5 DEF ClearCrashLoopCounter, PowerOn, Day, vars, bootVars, At
    <2>2. (phase' \in Before => phase \in Before) /\ (active => phase' \in {"run", "flush"})
      BY <2>1 DEF SupInv, Before
    <2>. QED  BY <2>1, <2>2, QuietKeeps
  <1>. QED  BY <1>2, <1>3, <1>4, <1>5 DEF Next

(* A check-in does not forgive. *)
LEMMA JudgedStays ==
    ASSUME NEW e \in Entities, NEW s \in EntityStatus, s.status = "expired",
           NEW cp \in {CpEntry, CpExit}, NEW n \in Nat
    PROVE  Judge(e, s, cp, n).status \in {"failed", "expired"}
  <1>. DEFINE counted == [s EXCEPT !.alive = IF cp = CpEntry THEN n ELSE @]
              onTime == Judged(counted, s.age > Deadline[e])
              flow == Judged(onTime, cp = s.last)
  <1>1. counted \in EntityStatus /\ counted.status = "expired"
    BY DEF EntityStatus
  <1>2. Judge(e, s, cp, n) = [flow EXCEPT !.age = 0, !.last = cp]
    BY DEF Judge
  <1>. HIDE DEF counted
  <1>3. onTime \in EntityStatus /\ onTime.status \in {"failed", "expired"}
    BY <1>1, ViolatedIs DEF Judged
  <1>. HIDE DEF onTime
  <1>4. flow \in EntityStatus /\ flow.status \in {"failed", "expired"}
    BY <1>3, ViolatedIs DEF Judged
  <1>. HIDE DEF flow
  <1>. DEFINE aged == [flow EXCEPT !.age = 0]
  <1>5. aged \in EntityStatus /\ aged.status = flow.status
    BY <1>4 DEF EntityStatus
  <1>6. Judge(e, s, cp, n) = [aged EXCEPT !.last = cp]
    BY <1>2
  <1>. HIDE DEF aged
  <1>7. Judge(e, s, cp, n).status = aged.status
    BY <1>5, <1>6 DEF EntityStatus
  <1>. QED  BY <1>4, <1>5, <1>7

LEMMA OneLeft ==
    ASSUME NEW f \in Nat, f <= 1, NEW u \in Nat, NEW o \in Nat, o >= Divider,
           u + 1 + f * Divider >= (Tolerance - 1) * Divider + o
    PROVE  u + 1 >= (Tolerance - 1) * Divider
  <1>1. Divider \in Nat /\ Tolerance - 1 \in Nat
    BY SchMAssumption, WdgMAssumption
  <1>2. (Tolerance - 1) * Divider \in Nat
    BY <1>1
  <1>3. f * Divider = 0 \/ f * Divider = Divider
    BY <1>1
  <1>. QED  BY <1>1, <1>2, <1>3

(* No step but an evaluation forgives, and it forgives what has one failed *)
(* cycle left.                                                             *)
LEMMA StepForgives ==
    ASSUME IInv, SupInv, [Next]_vars, NEW e \in Entities,
           entity[e].status = "expired", entity'[e].status = "ok"
    PROVE  unfed + 1 >= (Tolerance - 1) * Divider
  <1>1. /\ WdgTypeOK /\ SchTypeOK /\ entity \in [Entities -> EntityStatus]
        /\ entity[e] \in EntityStatus /\ entity'[e] # entity[e]
    BY DEF IInv, WdgTypeOK
  <1>2. active
    BY DEF SupInv
  <1>3. ~(WdgReset \/ Shutdown \/ Supervise)
    <2>1. Fresh.status # "ok"
      BY DEF Fresh
    <2>2. ~WdgReset
      BY <2>1 DEF WdgReset
    <2>3. ~Shutdown
      BY <1>1, ActivatedIs DEF Shutdown
    <2>4. ~Supervise
      BY <1>2 DEF SupInv, Supervise, At
    <2>. QED  BY <2>2, <2>3, <2>4
  <1>4. PICK f \in Entities : RunTask(f)
    <2>1. ~TimePasses
      BY <1>1, AgedIs
    <2>2. ~UNCHANGED entity
      BY <1>1
    <2>3. \/ \E f \in Entities : RunTask(f)
          \/ TimePasses \/ WdgReset \/ Shutdown \/ Supervise \/ UNCHANGED entity
      BY DEF Next, vars, wdgVars, Boot, InitDrivers, InitMemory, InitClock, EvaluateCrashLoop,
             InitSensors, InitServices, StartTask, CreateFails, Restart, ShutdownEnds,
             ClearCrashLoopCounter, TaskStep, TaskFault, TimeStep, Bite, Reset, PowerOn, Day,
             Proceed, SubscribeTask, LoadCount, Sticks, Tick, LateTick
    <2>. QED  BY <1>3, <2>1, <2>2, <2>3
  <1>5. ASSUME NEW cp \in {CpEntry, CpExit}, NEW n \in Nat
        PROVE  Judge(e, entity[e], cp, n).status # "ok"
    <2>. DEFINE j == Judge(e, entity[e], cp, n)
    <2>1. j.status = "expired" \/ j.status = "failed"
      BY <1>1, JudgedStays
    <2>. QED  BY <2>1
  <1>6. ASSUME NEW cp \in {CpEntry, CpExit}
        PROVE  Reached(e, entity[e], cp).status # "ok"
    <2>1. Reached(e, entity[e], cp) = Judge(e, entity[e], cp, entity[e].alive + 1)
      BY <1>1, ReachedIs
    <2>2. entity[e].alive + 1 \in Nat
      BY <1>1, EntityIs
    <2>. QED  BY <1>5, <2>1, <2>2
  <1>7. f = Scheduler /\ Body(f) /\ runs' = 0 /\ WdgMainFunction
    <2>1. CASE Enter(f) \/ Leave(f)
      <3>1. PICK cp \in {CpEntry, CpExit} : entity' = [entity EXCEPT ![f] = Reached(f, entity[f], cp)]
        BY <2>1, SchedulerIs DEF Enter, Leave
      <3>2. f = e
        BY <1>1, <3>1
      <3>. QED  BY <1>1, <1>6, <3>1, <3>2
    <2>2. CASE StoreCount(f)
      <3>1. entity' = [entity EXCEPT ![f] = Judge(f, entity[f], CpEntry, task[f].read + 1)]
        BY <2>2 DEF StoreCount
      <3>2. f = e /\ task[f].read + 1 \in Nat
        BY <1>1, <3>1, TaskIs
      <3>. QED  BY <1>1, <1>5, <3>1, <3>2, SchedulerIs
    <2>3. CASE Body(f)
      BY <1>1, <2>3 DEF Body, wdgVars
    <2>. QED  BY <1>4, <2>1, <2>2, <2>3 DEF RunTask
  <1>8. entity[e].failed \in Nat /\ entity[e].failed <= 1
    BY <1>1, <1>2, <1>7, EvaluationIs
  <1>9. unfed + 1 + entity[e].failed * Divider >= (Tolerance - 1) * Divider + Owed
    BY DEF SupInv, Withheld
  <1>10. Owed >= Divider /\ Divider \in Nat /\ Owed \in Nat
    <2>1. runs + 1 = Divider
      BY <1>1, <1>7, Rounds DEF Body
    <2>2. task[Scheduler].pc = "body"
      BY <1>7 DEF Body
    <2>3. task[Scheduler].since \in {0, 1} /\ runs \in Nat /\ Divider \in Nat
      BY <1>1, OwedIs
    <2>. QED  BY <2>1, <2>2, <2>3 DEF Owed
  <1>11. unfed \in Nat /\ Tolerance - 1 \in Nat
    BY <1>1, WdgMAssumption DEF WdgTypeOK
  <1>. HIDE DEF Owed
  <1>. QED  BY <1>8, <1>9, <1>10, <1>11, OneLeft

LEMMA SupervisionHolds == Spec => [](IInv /\ SupInv)
  BY InitIsIn, SupInitially, StepKeeps, StepWithholds, PTL DEF Spec

(* An expired entity is forgiven only by the evaluation that ends its last *)
(* failed cycle (WdgM_MainFunction), and by then the hardware has not been *)
(* triggered for Tolerance - 1 supervision cycles: in every interleaving   *)
(* of the tasks' checkpoints with the scheduler, with torn increments,     *)
(* late ticks and a shutdown among them.                                   *)
THEOREM ForgivenessIsLate == Spec => ForgivenLate
  <1>1. IInv /\ SupInv /\ [Next]_vars
        => [\A e \in Entities :
                entity[e].status = "expired" /\ entity'[e].status = "ok"
                    => unfed + 1 >= (Tolerance - 1) * Divider]_vars
    BY StepForgives
  <1>. QED  BY <1>1, SupervisionHolds, PTL DEF Spec, ForgivenLate

-----------------------------------------------------------------------------
(* Punctual tasks.  What an entity owes is what has failed already, what   *)
(* the evaluations to come will still find wrong, and the torn increments  *)
(* that can still happen; when the supervision starts it is within the     *)
(* allowance, and no step of a schedule that keeps its budgets adds to it. *)
Idle == {"off", "subscribe", "enter", "count"}

(* Ticks since the last evaluation, or since the start. *)
Ticks == runs + One(task[Scheduler].pc \notin {"leave", "wait"})

(* The ticks that the counted activations stand for, and those of the      *)
(* count that is loaded.                                                   *)
Activity(e) == entity[e].alive * Period[e]
Loaded(e) == task[e].read * Period[e]

(* The count is not ahead of time, nor behind it. *)
High(e) ==
    IF task[e].pc \in Idle THEN Activity(e) <= Ticks
    ELSE task[e].since + Activity(e) <= Ticks + Period[e]

Low(e) ==
    IF task[e].pc \in Idle
    THEN /\ Ticks <= Activity(e) + Period[e]
         /\ task[e].pc = "count" => Ticks <= Loaded(e) + Period[e]
    ELSE Ticks <= task[e].since + Activity(e)

FlowDue(e) == task[e].pc \in {"body", "leave"} /\ entity[e].last = CpExit
LowDue(e) == AliveMin[e] > 0 /\ ~Low(e)
HighDue(e) == ~High(e)
Torn(e) == task[e].pc = "count"
Credit(e) == IF e = Scheduler THEN 0 ELSE MaxRaces - races

Debt(e) == entity[e].failed + One(FlowDue(e)) + One(LowDue(e)) + One(HighDue(e))
           + One(Torn(e)) + Credit(e)

Punctual(e) ==
    entity[e].status # "deactivated" \/ task[e].pc = "count" =>
        /\ task[e].pc \notin {"body", "leave"} => entity[e].last = CpExit
        /\ entity[e].age <= IF task[e].pc \in Idle THEN Period[e] ELSE task[e].since

Fit(e) ==
    /\ task[e].pc # "stuck" /\ (task[e].pc \in Idle => task[e].since = 0)
    /\ Punctual(e)
    /\ entity[e].status # "deactivated" =>
           entity[e].status # "expired" /\ Debt(e) <= Allowance(e)

(* Where the tasks and their checkpoints can be at all. *)
PlaceInv ==
    /\ phase \in {"supervise", "run", "flush"} => \A e \in Entities : task[e].pc # "off"
    /\ ~active => \A e \in Entities : entity[e].last = CpExit
    /\ \A e \in Entities : task[e].pc = "wait" => task[e].since < Period[e]

CalmInv ==
    /\ \A e \in Entities : Fit(e)
    /\ task[Scheduler].since = 0
    /\ subscribed = {} => unfed = 0
    /\ subscribed \subseteq {Scheduler} => unfed <= Ticks

HealthInv == PlaceInv /\ (~late => CalmInv)

LEMMA Quantities ==
    ASSUME IInv, NEW e \in Entities
    PROVE  /\ entity[e] \in EntityStatus /\ entity[e].alive \in Nat /\ entity[e].age \in Nat
           /\ entity[e].failed \in Nat /\ entity[e].last \in {CpEntry, CpExit}
           /\ task[e].since \in Nat /\ task[e].read \in Nat /\ task[e].since <= Period[e]
           /\ Period[e] \in Nat /\ Period[e] > 0 /\ Budget[e] \in Nat
           /\ {AliveMin[e], AliveMax[e], Deadline[e], Tolerance, Divider} \subseteq Nat
           /\ Ticks \in Nat /\ Ticks <= Divider /\ runs \in Nat /\ runs < Divider
           /\ Activity(e) \in Nat /\ Loaded(e) \in Nat
           /\ races \in Nat /\ MaxRaces \in Nat /\ races <= MaxRaces
           /\ Credit(e) \in Nat /\ Allowance(e) \in Nat
  <1>1. WdgTypeOK /\ SchTypeOK /\ BootInv
    BY DEF IInv
  <1>2. /\ entity[e] \in EntityStatus /\ entity[e].alive \in Nat /\ entity[e].age \in Nat
        /\ entity[e].failed \in Nat /\ entity[e].last \in {CpEntry, CpExit}
    <2>1. entity[e] \in EntityStatus
      BY <1>1 DEF WdgTypeOK
    <2>. QED  BY <2>1, EntityIs
  <1>3. /\ task[e].since \in Nat /\ task[e].read \in Nat /\ task[e].since <= Period[e]
        /\ Period[e] \in Nat /\ Period[e] > 0 /\ Divider \in Nat
        /\ runs \in 0 .. Divider - 1
    BY <1>1, TaskIs
  <1>4. Budget[e] \in Nat /\ {AliveMin[e], AliveMax[e], Deadline[e], Tolerance, Divider} \subseteq Nat
    BY <1>3, SchMAssumption, WdgMAssumption
  <1>5. Ticks \in Nat /\ Ticks <= Divider /\ runs \in Nat /\ runs < Divider
    BY <1>3 DEF Ticks, One
  <1>6. Activity(e) \in Nat /\ Loaded(e) \in Nat
    <2>1. \A a, b \in Nat : a * b \in Nat
      OBVIOUS
    <2>. QED  BY <1>2, <1>3, <2>1 DEF Activity, Loaded
  <1>7. races \in Nat /\ MaxRaces \in Nat /\ races <= MaxRaces
    BY <1>1, BootIs DEF BootInv
  <1>8. Credit(e) \in Nat /\ Allowance(e) \in Nat
    BY <1>7 DEF Credit, Allowance, One
  <1>. QED  BY <1>2, <1>3, <1>4, <1>5, <1>6, <1>7, <1>8

(* What is owed is what has failed and what is due. *)
LEMMA DebtIs ==
    ASSUME IInv, NEW e \in Entities
    PROVE  Debt(e) \in Nat /\ entity[e].failed <= Debt(e)
  <1>1. entity[e].failed \in Nat /\ Credit(e) \in Nat
    BY Quantities
  <1>. QED  BY <1>1 DEF Debt, One

(* A debt that does not grow keeps the entity from expiring. *)
LEMMA Solvent ==
    ASSUME Schedulable, IInv, NEW e \in Entities, Debt(e) <= Allowance(e),
           NEW g \in Nat, NEW d \in Nat, g <= d, d <= Debt(e), NEW st,
           st = "expired" => entity[e].status = "expired" \/ g >= Tolerance,
           entity[e].status # "expired"
    PROVE  st # "expired" /\ d <= Allowance(e)
  <1>1. Debt(e) \in Nat /\ Allowance(e) \in Nat /\ Tolerance \in Nat /\ Allowance(e) < Tolerance
    BY DebtIs, Quantities DEF Schedulable
  <1>. HIDE DEF Debt, Allowance
  <1>. QED  BY <1>1

(* A task that does not move while no time passes. *)
LEMMA Unmoved ==
    ASSUME IInv, NEW e \in Entities, entity'[e] = entity[e], task'[e] = task[e],
           Ticks' = Ticks, races' \in Nat, races <= races', Fit(e)
    PROVE  Fit(e)'
  <1>1. /\ High(e)' <=> High(e)
        /\ Low(e)' <=> Low(e)
    BY DEF High, Low, Activity, Loaded
  <1>2. Punctual(e)'
    BY DEF Fit, Punctual
  <1>3. Debt(e)' <= Debt(e)
    <2>1. One(FlowDue(e))' = One(FlowDue(e)) /\ One(Torn(e))' = One(Torn(e))
      BY DEF FlowDue, Torn
    <2>2. One(LowDue(e))' = One(LowDue(e)) /\ One(HighDue(e))' = One(HighDue(e))
      BY <1>1 DEF LowDue, HighDue, One
    <2>3. Credit(e)' <= Credit(e) /\ Credit(e)' \in Int /\ Credit(e) \in Int /\ entity[e].failed \in Nat
      BY Quantities DEF Credit
    <2>4. {One(FlowDue(e)), One(Torn(e)), One(LowDue(e)), One(HighDue(e))} \subseteq Nat
      BY DEF One
    <2>. QED  BY <2>1, <2>2, <2>3, <2>4 DEF Debt
  <1>4. Debt(e) <= Allowance(e) => Debt(e)' <= Allowance(e)
    <2>1. Debt(e) \in Int /\ Debt(e)' \in Int /\ Allowance(e) \in Int
      BY Quantities DEF Debt, One, Credit
    <2>. HIDE DEF Debt, Allowance
    <2>. QED  BY <1>3, <2>1
  <1>. QED  BY <1>2, <1>4 DEF Fit

LEMMA TicksStay ==
    ASSUME NEW e \in Entities, \A f \in Entities : f # e => task'[f] = task[f], runs' = runs,
           e = Scheduler => (task'[e].pc \in {"leave", "wait"} <=> task[e].pc \in {"leave", "wait"})
    PROVE  Ticks' = Ticks
  <1>1. task'[Scheduler].pc \in {"leave", "wait"} <=> task[Scheduler].pc \in {"leave", "wait"}
    BY SchedulerIs
  <1>. QED  BY <1>1 DEF Ticks, One

LEMMA ActivityGrows ==
    ASSUME NEW a \in Nat, NEW P \in Nat
    PROVE  (a + 1) * P = a * P + P
  OBVIOUS

(* A check-in that is on time. *)
LEMMA OnTime ==
    ASSUME NEW e \in Entities, NEW s \in EntityStatus, NEW cp \in {CpEntry, CpExit}, NEW n \in Nat,
           s.age <= Deadline[e]
    PROVE  LET j == Judge(e, s, cp, n)
           IN /\ j \in EntityStatus /\ j.failed \in Nat
              /\ j.alive = IF cp = CpEntry THEN n ELSE s.alive
              /\ j.last = cp /\ j.age = 0
              /\ s.status # "deactivated" => j.status # "deactivated"
              /\ j.failed <= s.failed + 1
              /\ cp # s.last => j.failed = s.failed /\ j.status = s.status
              /\ j.status = "expired" => s.status = "expired" \/ j.failed >= Tolerance
  <1>. DEFINE bad == (IF s.age > Deadline[e] THEN 1 ELSE 0) + (IF cp = s.last THEN 1 ELSE 0)
              j == Judge(e, s, cp, n)
  <1>1. s.age \in Nat /\ Deadline[e] \in Nat /\ s.failed \in Nat
    BY EntityIs, WdgMAssumption
  <1>2. bad = IF cp = s.last THEN 1 ELSE 0
    BY <1>1
  <1>3. /\ j \in EntityStatus
        /\ j.alive = IF cp = CpEntry THEN n ELSE s.alive
        /\ j.last = cp /\ j.age = 0
        /\ s.failed <= j.failed /\ j.failed <= s.failed + bad
        /\ bad = 0 => j.status = s.status
        /\ s.status # "deactivated" => j.status # "deactivated"
        /\ j.status = "expired" => s.status = "expired" \/ j.failed >= Tolerance
    <2>1. LET i == Judge(e, s, cp, n)
              b == (IF s.age > Deadline[e] THEN 1 ELSE 0) + (IF cp = s.last THEN 1 ELSE 0)
          IN /\ i \in EntityStatus
             /\ i.alive = IF cp = CpEntry THEN n ELSE s.alive
             /\ i.last = cp /\ i.age = 0
             /\ s.failed <= i.failed /\ i.failed <= s.failed + b
             /\ b = 0 => i.status = s.status
             /\ s.status # "deactivated" => i.status # "deactivated"
             /\ i.status = "expired" => s.status = "expired" \/ i.failed >= Tolerance
             /\ s.status = "expired" /\ s.failed >= Tolerance => i.status = "expired"
      BY JudgeIs
    <2>. QED  BY <2>1
  <1>. HIDE DEF bad, j
  <1>4. j.failed \in Nat
    BY <1>3, EntityIs
  <1>5. j.failed <= s.failed + 1 /\ (cp # s.last => j.failed = s.failed /\ j.status = s.status)
    BY <1>1, <1>2, <1>3, <1>4
  <1>6. /\ j \in EntityStatus /\ j.failed \in Nat
        /\ j.alive = IF cp = CpEntry THEN n ELSE s.alive
        /\ j.last = cp /\ j.age = 0
        /\ s.status # "deactivated" => j.status # "deactivated"
        /\ j.failed <= s.failed + 1
        /\ cp # s.last => j.failed = s.failed /\ j.status = s.status
        /\ j.status = "expired" => s.status = "expired" \/ j.failed >= Tolerance
    BY <1>3, <1>4, <1>5
  <1>. QED  BY <1>6 DEF j

(* Who starts an activation has waited a period at most. *)
LEMMA EnterFits ==
    ASSUME Schedulable, IInv, NEW e \in Entities, Enter(e), Fit(e), races' = races
    PROVE  /\ Fit(e)' /\ Ticks' = Ticks
           /\ \A f \in Entities : f # e => task'[f] = task[f] /\ entity'[f] = entity[f]
  <1>0. WdgTypeOK /\ SchTypeOK
    BY DEF IInv
  <1>1. /\ Goto(e, "body") /\ task[e].pc = "enter"
        /\ entity' = [entity EXCEPT ![e] = Reached(e, entity[e], CpEntry)]
        /\ UNCHANGED <<runs, late>>
    BY DEF Enter
  <1>2. /\ \A f \in Entities : f # e => task'[f] = task[f]
        /\ task'[e].pc = "body" /\ task'[e].since = task[e].since
    <2>1. "body" \in Where
      BY DEF Where
    <2>. QED  BY <1>0, <1>1, <2>1, GotoIs
  <1>3. Ticks' = Ticks
    BY <1>1, <1>2, TicksStay
  <1>4. /\ entity'[e] = Reached(e, entity[e], CpEntry) /\ entity[e] \in EntityStatus
        /\ \A f \in Entities : f # e => entity'[f] = entity[f]
    BY <1>0, <1>1 DEF WdgTypeOK
  <1>5. task[e].since = 0 /\ task'[e].since = 0
    BY <1>1, <1>2 DEF Fit, Idle
  <1>6. CASE entity[e].status = "deactivated"
    <2>1. entity'[e].status = "deactivated"
      BY <1>4, <1>6, ReachedIs
    <2>. QED  BY <1>2, <1>3, <1>4, <1>5, <2>1 DEF Fit, Punctual, Idle
  <1>7. CASE entity[e].status # "deactivated"
    <2>1. /\ entity[e].last = CpExit /\ entity[e].age <= Deadline[e]
          /\ entity[e].status # "expired" /\ Debt(e) <= Allowance(e)
      <3>1. entity[e].last = CpExit /\ entity[e].age <= Period[e]
        BY <1>1, <1>7 DEF Fit, Punctual, Idle
      <3>2. Period[e] <= Deadline[e]
        BY DEF Schedulable
      <3>. QED  BY <1>7, <3>1, <3>2, Quantities DEF Fit
    <2>2. entity'[e] = Judge(e, entity[e], CpEntry, entity[e].alive + 1)
      BY <1>4, <1>7, ReachedIs
    <2>3. /\ entity'[e].status = entity[e].status /\ entity'[e].failed = entity[e].failed
          /\ entity'[e].alive = entity[e].alive + 1 /\ entity'[e].last = CpEntry /\ entity'[e].age = 0
      <3>1. entity[e].alive + 1 \in Nat
        BY Quantities
      <3>. QED  BY <1>4, <2>1, <2>2, <3>1, SchedulerIs, OnTime
    <2>4. Activity(e)' = Activity(e) + Period[e]
      <3>1. entity[e].alive \in Nat /\ Period[e] \in Nat
        BY Quantities
      <3>2. (entity[e].alive + 1) * Period[e] = entity[e].alive * Period[e] + Period[e]
        BY <3>1, ActivityGrows
      <3>. QED  BY <2>3, <3>2 DEF Activity
    <2>5. (High(e) => High(e)') /\ (Low(e) => Low(e)')
      <3>1. Activity(e) \in Nat /\ Ticks \in Nat /\ Period[e] \in Nat
        BY Quantities
      <3>2. High(e) => Activity(e) <= Ticks
        BY <1>1 DEF High, Idle
      <3>3. High(e)' <=> 0 + Activity(e)' <= Ticks + Period[e]
        BY <1>2, <1>3, <1>5 DEF High, Idle
      <3>4. Low(e) => Ticks <= Activity(e) + Period[e]
        BY <1>1 DEF Low, Idle
      <3>5. Low(e)' <=> Ticks <= 0 + Activity(e)'
        BY <1>2, <1>3, <1>5 DEF Low, Idle
      <3>. QED  BY <2>4, <3>1, <3>2, <3>3, <3>4, <3>5
    <2>6. (LowDue(e)' => LowDue(e)) /\ (HighDue(e)' => HighDue(e)) /\ ~FlowDue(e)' /\ ~Torn(e)'
      BY <1>2, <2>3, <2>5, SchedulerIs DEF LowDue, HighDue, FlowDue, Torn
    <2>7. Credit(e)' = Credit(e) /\ Credit(e) \in Nat /\ entity[e].failed \in Nat
      BY Quantities DEF Credit
    <2>8. Debt(e)' \in Nat /\ entity'[e].failed <= Debt(e)' /\ Debt(e)' <= Debt(e)
      BY <2>3, <2>6, <2>7 DEF Debt, One
    <2>9. entity'[e].status # "expired" /\ Debt(e)' <= Allowance(e)
      <3>1. entity'[e].failed \in Nat
        BY <2>3, <2>7
      <3>. HIDE DEF Debt, Allowance
      <3>. QED  BY <2>1, <2>3, <2>8, <3>1, Solvent
    <2>10. Punctual(e)'
      BY <1>2, <1>5, <2>3 DEF Punctual, Idle
    <2>. QED  BY <1>2, <1>3, <1>4, <1>5, <2>9, <2>10 DEF Fit, Idle
  <1>. QED  BY <1>6, <1>7

(* The count that was loaded is stored: if the counters were cleared in    *)
(* between it is too high now, which the torn increment stood for.         *)
LEMMA StoreFits ==
    ASSUME Schedulable, IInv, NEW e \in Entities, StoreCount(e), Fit(e), races' = races
    PROVE  /\ Fit(e)' /\ Ticks' = Ticks
           /\ \A f \in Entities : f # e => task'[f] = task[f] /\ entity'[f] = entity[f]
  <1>0. WdgTypeOK /\ SchTypeOK
    BY DEF IInv
  <1>1. /\ \A f \in Entities : f # e => task'[f] = task[f]
        /\ task[e].pc = "count" /\ task'[e].pc = "body" /\ task'[e].since = task[e].since
        /\ entity' = [entity EXCEPT ![e] = Judge(e, entity[e], CpEntry, task[e].read + 1)]
        /\ UNCHANGED <<runs, late>>
    BY <1>0, StoreIs
  <1>2. Ticks' = Ticks
    BY <1>1, TicksStay
  <1>3. /\ entity'[e] = Judge(e, entity[e], CpEntry, task[e].read + 1) /\ entity[e] \in EntityStatus
        /\ \A f \in Entities : f # e => entity'[f] = entity[f]
    BY <1>0, <1>1 DEF WdgTypeOK
  <1>4. task[e].since = 0 /\ task'[e].since = 0
    BY <1>1 DEF Fit, Idle
  <1>5. entity[e].last = CpExit /\ entity[e].age <= Deadline[e]
    <2>1. entity[e].last = CpExit /\ entity[e].age <= Period[e]
      BY <1>1 DEF Fit, Punctual, Idle
    <2>2. Period[e] <= Deadline[e]
      BY DEF Schedulable
    <2>. QED  BY <2>1, <2>2, Quantities
  <1>6. /\ entity'[e].status = entity[e].status /\ entity'[e].failed = entity[e].failed
        /\ entity'[e].alive = task[e].read + 1 /\ entity'[e].last = CpEntry /\ entity'[e].age = 0
    <2>1. task[e].read + 1 \in Nat
      BY Quantities
    <2>. QED  BY <1>3, <1>5, <2>1, SchedulerIs, OnTime
  <1>7. Activity(e)' = Loaded(e) + Period[e]
    <2>1. task[e].read \in Nat /\ Period[e] \in Nat
      BY Quantities
    <2>2. (task[e].read + 1) * Period[e] = task[e].read * Period[e] + Period[e]
      BY <2>1, ActivityGrows
    <2>. QED  BY <1>6, <2>2 DEF Activity, Loaded
  <1>8. Low(e) => Low(e)'
    <2>1. Loaded(e) \in Nat /\ Ticks \in Nat /\ Period[e] \in Nat
      BY Quantities
    <2>2. Low(e) => Ticks <= Loaded(e) + Period[e]
      BY <1>1 DEF Low, Idle
    <2>3. Low(e)' <=> Ticks <= 0 + Activity(e)'
      BY <1>1, <1>2, <1>4 DEF Low, Idle
    <2>. QED  BY <1>7, <2>1, <2>2, <2>3
  <1>9. (LowDue(e)' => LowDue(e)) /\ ~FlowDue(e)' /\ Torn(e) /\ ~Torn(e)'
    BY <1>1, <1>6, <1>8, SchedulerIs DEF LowDue, FlowDue, Torn
  <1>10. Credit(e)' = Credit(e) /\ Credit(e) \in Nat /\ entity[e].failed \in Nat
    BY Quantities DEF Credit
  <1>11. Debt(e)' \in Nat /\ entity'[e].failed <= Debt(e)' /\ Debt(e)' <= Debt(e)
    BY <1>6, <1>9, <1>10 DEF Debt, One
  <1>12. entity[e].status # "deactivated" => entity'[e].status # "expired" /\ Debt(e)' <= Allowance(e)
    <2>1. entity'[e].failed \in Nat
      BY <1>6, <1>10
    <2>2. entity[e].status # "deactivated" => entity[e].status # "expired" /\ Debt(e) <= Allowance(e)
      BY DEF Fit
    <2>. HIDE DEF Debt, Allowance
    <2>. QED  BY <1>6, <1>11, <2>1, <2>2, Solvent
  <1>13. Punctual(e)'
    BY <1>1, <1>4, <1>6 DEF Punctual, Idle
  <1>. QED  BY <1>1, <1>2, <1>3, <1>4, <1>6, <1>12, <1>13 DEF Fit, Idle

(* A load takes one of the torn increments. *)
LEMMA LoadFits ==
    ASSUME Schedulable, IInv, NEW e \in Entities, LoadCount(e), Fit(e),
           races < MaxRaces, races' = races + 1
    PROVE  /\ Fit(e)' /\ Ticks' = Ticks
           /\ \A f \in Entities : f # e => task'[f] = task[f] /\ entity'[f] = entity[f]
  <1>0. WdgTypeOK /\ SchTypeOK
    BY DEF IInv
  <1>1. /\ \A f \in Entities : f # e => task'[f] = task[f]
        /\ task[e].pc = "enter" /\ task'[e].pc = "count" /\ task'[e].since = task[e].since
        /\ task'[e].read = entity[e].alive
        /\ e # Scheduler /\ entity[e].status # "deactivated" /\ entity' = entity /\ runs' = runs
    BY <1>0, LoadIs DEF wdgVars
  <1>2. Ticks' = Ticks
    BY <1>1, TicksStay
  <1>3. task[e].since = 0 /\ entity[e].last = CpExit /\ entity[e].age <= Period[e]
        /\ entity[e].status # "expired" /\ Debt(e) <= Allowance(e)
    BY <1>1 DEF Fit, Punctual, Idle
  <1>4. Activity(e)' = Activity(e) /\ Loaded(e)' = Activity(e)
    BY <1>1 DEF Activity, Loaded
  <1>5. (High(e)' <=> High(e)) /\ (Low(e)' <=> Low(e))
    <2>1. (High(e)' <=> Activity(e) <= Ticks) /\ (High(e) <=> Activity(e) <= Ticks)
      BY <1>1, <1>2, <1>4 DEF High, Idle
    <2>2. /\ Low(e)' <=> Ticks <= Activity(e) + Period[e]
          /\ Low(e) <=> Ticks <= Activity(e) + Period[e]
      BY <1>1, <1>2, <1>4 DEF Low, Idle
    <2>. QED  BY <2>1, <2>2
  <1>6. (LowDue(e)' => LowDue(e)) /\ (HighDue(e)' => HighDue(e)) /\ ~FlowDue(e)' /\ ~Torn(e)
    BY <1>1, <1>5 DEF LowDue, HighDue, FlowDue, Torn
  <1>7. Credit(e)' + 1 = Credit(e) /\ Credit(e)' \in Nat /\ entity[e].failed \in Nat
    <2>1. Credit(e) = MaxRaces - races /\ Credit(e)' = MaxRaces - (races + 1)
      BY <1>1 DEF Credit
    <2>2. races \in Nat /\ MaxRaces \in Nat /\ races < MaxRaces /\ entity[e].failed \in Nat
      BY Quantities
    <2>. QED  BY <2>1, <2>2
  <1>8. Debt(e)' \in Nat /\ entity'[e].failed <= Debt(e)' /\ Debt(e)' <= Debt(e)
    BY <1>1, <1>6, <1>7 DEF Debt, One
  <1>9. Debt(e)' <= Allowance(e)
    <2>. HIDE DEF Debt, Allowance
    <2>. QED  BY <1>1, <1>3, <1>7, <1>8, Solvent
  <1>10. Punctual(e)'
    BY <1>1, <1>3 DEF Punctual, Idle
  <1>. QED  BY <1>1, <1>2, <1>3, <1>9, <1>10 DEF Fit, Idle

(* A task goes on without a check-in. *)
LEMMA MovedFits ==
    ASSUME Schedulable, IInv, NEW e \in Entities, entity'[e] = entity[e], races' = races, Fit(e),
           task'[e].since = task[e].since, Ticks' = Ticks,
           \/ {task[e].pc, task'[e].pc} \subseteq {"off", "subscribe", "enter"}
           \/ {task[e].pc, task'[e].pc} \subseteq {"body", "leave"}
    PROVE  Fit(e)'
  <1>1. Activity(e)' = Activity(e)
    BY DEF Activity
  <1>2. (High(e)' <=> High(e)) /\ (Low(e)' <=> Low(e))
    BY <1>1 DEF High, Low, Idle
  <1>3. /\ LowDue(e)' <=> LowDue(e)
        /\ HighDue(e)' <=> HighDue(e)
        /\ FlowDue(e)' <=> FlowDue(e)
        /\ Torn(e)' <=> Torn(e)
    BY <1>2 DEF LowDue, HighDue, FlowDue, Torn
  <1>4. Credit(e)' = Credit(e) /\ Credit(e) \in Nat /\ entity[e].failed \in Nat
    BY Quantities DEF Credit
  <1>5. Debt(e)' = Debt(e)
    BY <1>3, <1>4 DEF Debt, One
  <1>6. Punctual(e)'
    BY DEF Fit, Punctual, Idle
  <1>. QED  BY <1>5, <1>6 DEF Fit, Idle

(* Who leaves without having entered, as supervision came in between, owed *)
(* that violation.                                                         *)
LEMMA LeaveFits ==
    ASSUME Schedulable, IInv, NEW e \in Entities, Leave(e), Fit(e), races' = races,
           task[Scheduler].since = 0
    PROVE  /\ Fit(e)' /\ Ticks' = Ticks
           /\ task'[e].pc = "wait" => task'[e].since < Period[e]
           /\ task'[Scheduler].since = 0 /\ task'[e].pc # "off"
           /\ \A f \in Entities : f # e => task'[f] = task[f] /\ entity'[f] = entity[f]
  <1>0. WdgTypeOK /\ SchTypeOK
    BY DEF IInv
  <1>1. /\ \A f \in Entities : f # e => task'[f] = task[f]
        /\ task[e].pc = "leave"
        /\ \/ task[e].since >= Period[e] /\ task'[e].pc = "enter" /\ task'[e].since = 0
           \/ task[e].since < Period[e] /\ task'[e].pc = "wait" /\ task'[e].since = task[e].since
        /\ entity' = [entity EXCEPT ![e] = Reached(e, entity[e], CpExit)]
        /\ UNCHANGED <<runs, late>>
    BY <1>0, LeaveIs
  <1>2. e = Scheduler => task'[e].pc = "wait"
    BY <1>1, SchedulerIs
  <1>3. Ticks' = Ticks
    BY <1>1, <1>2, TicksStay
  <1>4. /\ entity'[e] = Reached(e, entity[e], CpExit) /\ entity[e] \in EntityStatus
        /\ \A f \in Entities : f # e => entity'[f] = entity[f]
    BY <1>0, <1>1 DEF WdgTypeOK
  <1>5. /\ task'[e].pc = "wait" => task'[e].since < Period[e]
        /\ task'[Scheduler].since = 0 /\ task'[e].pc # "off"
    BY <1>1, SchedulerIs
  <1>6. CASE entity[e].status = "deactivated"
    <2>1. entity'[e].status = "deactivated"
      BY <1>4, <1>6, ReachedIs
    <2>. QED  BY <1>1, <1>3, <1>4, <1>5, <2>1 DEF Fit, Punctual, Idle
  <1>7. CASE entity[e].status # "deactivated"
    <2>1. /\ entity[e].age <= Deadline[e]
          /\ entity[e].status # "expired" /\ Debt(e) <= Allowance(e)
      <3>1. entity[e].age <= task[e].since
        BY <1>1, <1>7 DEF Fit, Punctual, Idle
      <3>2. Period[e] <= Deadline[e]
        BY DEF Schedulable
      <3>. QED  BY <1>7, <3>1, <3>2, Quantities DEF Fit
    <2>2. entity'[e] = Judge(e, entity[e], CpExit, entity[e].alive + 1)
      BY <1>4, <1>7, ReachedIs
    <2>3. /\ entity'[e].status = "expired" => entity[e].status = "expired" \/ entity'[e].failed >= Tolerance
          /\ entity'[e].failed \in Nat /\ entity'[e].failed <= entity[e].failed + 1
          /\ entity[e].last # CpExit => entity'[e].failed = entity[e].failed
          /\ entity'[e].alive = entity[e].alive /\ entity'[e].last = CpExit /\ entity'[e].age = 0
      <3>1. entity[e].alive + 1 \in Nat
        BY Quantities
      <3>2. \A n \in Nat :
               LET j == Judge(e, entity[e], CpExit, n)
               IN /\ j \in EntityStatus /\ j.failed \in Nat
                  /\ j.alive = IF CpExit = CpEntry THEN n ELSE entity[e].alive
                  /\ j.last = CpExit /\ j.age = 0
                  /\ entity[e].status # "deactivated" => j.status # "deactivated"
                  /\ j.failed <= entity[e].failed + 1
                  /\ CpExit # entity[e].last => j.failed = entity[e].failed /\ j.status = entity[e].status
                  /\ j.status = "expired" => entity[e].status = "expired" \/ j.failed >= Tolerance
        BY <1>4, <2>1, SchedulerIs, OnTime
      <3>. QED  BY <2>2, <3>1, <3>2, SchedulerIs
    <2>4. Activity(e)' = Activity(e)
      BY <2>3 DEF Activity
    <2>5. (High(e) => High(e)') /\ (Low(e) => Low(e)')
      <3>1. /\ Activity(e) \in Nat /\ Ticks \in Nat /\ Period[e] \in Nat /\ task[e].since \in Nat
            /\ task[e].since <= Period[e]
        BY Quantities
      <3>2. High(e) <=> task[e].since + Activity(e) <= Ticks + Period[e]
        BY <1>1 DEF High, Idle
      <3>3. Low(e) <=> Ticks <= task[e].since + Activity(e)
        BY <1>1 DEF Low, Idle
      <3>4. CASE task[e].since >= Period[e] /\ task'[e].pc = "enter"
        <4>1. High(e)' <=> Activity(e) <= Ticks
          BY <1>3, <2>4, <3>4 DEF High, Idle
        <4>2. Low(e)' <=> Ticks <= Activity(e) + Period[e]
          BY <1>3, <2>4, <3>4 DEF Low, Idle
        <4>. QED  BY <3>1, <3>2, <3>3, <3>4, <4>1, <4>2
      <3>5. CASE task'[e].pc = "wait" /\ task'[e].since = task[e].since
        <4>1. High(e)' <=> task[e].since + Activity(e) <= Ticks + Period[e]
          BY <1>3, <2>4, <3>5 DEF High, Idle
        <4>2. Low(e)' <=> Ticks <= task[e].since + Activity(e)
          BY <1>3, <2>4, <3>5 DEF Low, Idle
        <4>. QED  BY <3>2, <3>3, <4>1, <4>2
      <3>. QED  BY <1>1, <3>4, <3>5
    <2>6. /\ LowDue(e)' => LowDue(e)
          /\ HighDue(e)' => HighDue(e)
          /\ ~FlowDue(e)' /\ ~Torn(e)'
          /\ entity[e].last = CpExit => FlowDue(e)
      BY <1>1, <2>5 DEF LowDue, HighDue, FlowDue, Torn
    <2>7. Credit(e)' = Credit(e) /\ Credit(e) \in Nat /\ entity[e].failed \in Nat
      BY Quantities DEF Credit
    <2>8. Debt(e)' \in Nat /\ entity'[e].failed <= Debt(e)' /\ Debt(e)' <= Debt(e)
      <3>1. CASE entity[e].last = CpExit
        BY <2>3, <2>6, <2>7, <3>1 DEF Debt, One
      <3>2. CASE entity[e].last # CpExit
        BY <2>3, <2>6, <2>7, <3>2 DEF Debt, One
      <3>. QED  BY <3>1, <3>2
    <2>9. entity'[e].status # "expired" /\ Debt(e)' <= Allowance(e)
      <3>. HIDE DEF Debt, Allowance
      <3>. QED  BY <2>1, <2>3, <2>8, Solvent
    <2>10. Punctual(e)'
      <3>1. task'[e].since \in Nat /\ Period[e] \in Nat
        BY <1>1, Quantities
      <3>. QED  BY <1>1, <2>3, <3>1 DEF Punctual, Idle
    <2>. QED  BY <1>1, <1>3, <1>4, <1>5, <2>9, <2>10 DEF Fit, Idle
  <1>. QED  BY <1>6, <1>7

(* Enough activations, and not too many, if the count is not behind or     *)
(* ahead of time.                                                          *)
LEMMA NotTooFew ==
    ASSUME NEW a \in Nat, NEW P \in Nat, NEW D \in Nat, NEW m \in Nat, m * P < D, D <= a * P + P
    PROVE  m <= a
  <1>. SUFFICES ASSUME m >= a + 1 PROVE FALSE
    OBVIOUS
  <1>1. m * P >= (a + 1) * P /\ (a + 1) * P = a * P + P /\ a * P \in Nat /\ m * P \in Nat
    <2>1. \A x, y, z \in Nat : x >= y => x * z >= y * z
      OBVIOUS
    <2>2. a + 1 \in Nat
      OBVIOUS
    <2>. QED  BY <2>1, <2>2, ActivityGrows
  <1>. QED  BY <1>1

LEMMA NotTooMany ==
    ASSUME NEW a \in Nat, NEW P \in Nat, NEW D \in Nat, NEW m \in Nat, m * P > D, a * P <= D + P
    PROVE  a <= m
  <1>. SUFFICES ASSUME a >= m + 1 PROVE FALSE
    OBVIOUS
  <1>1. a * P >= (m + 1) * P /\ (m + 1) * P = m * P + P /\ a * P \in Nat /\ m * P \in Nat
    <2>1. \A x, y, z \in Nat : x >= y => x * z >= y * z
      OBVIOUS
    <2>2. m + 1 \in Nat
      OBVIOUS
    <2>. QED  BY <2>1, <2>2, ActivityGrows
  <1>. QED  BY <1>1

(* At the end of a cycle a count is out of its range only if that was due. *)
LEMMA BadWasDue ==
    ASSUME Schedulable, IInv, NEW e \in Entities, Ticks = Divider,
           e = Scheduler => task[e].pc = "body" /\ task[e].since = 0
    PROVE  /\ entity[e].alive < AliveMin[e] => LowDue(e)
           /\ entity[e].alive > AliveMax[e] => HighDue(e)
  <1>1. /\ Activity(e) \in Nat /\ Period[e] \in Nat /\ task[e].since \in Nat /\ task[e].since <= Period[e]
        /\ entity[e].alive \in Nat /\ Divider \in Nat /\ AliveMin[e] \in Nat /\ AliveMax[e] \in Nat
    BY Quantities
  <1>2. ASSUME Low(e) PROVE AliveMin[e] <= entity[e].alive
    <2>1. CASE e # Scheduler
      <3>1. Divider <= Activity(e) + Period[e]
        <4>1. CASE task[e].pc \in Idle
          BY <1>2, <4>1 DEF Low
        <4>2. CASE task[e].pc \notin Idle
          <5>1. Divider <= task[e].since + Activity(e)
            BY <1>2, <4>2 DEF Low
          <5>. QED  BY <1>1, <5>1
        <4>. QED  BY <4>1, <4>2
      <3>2. AliveMin[e] * Period[e] < Divider
        BY <2>1 DEF Schedulable
      <3>. QED  BY <1>1, <3>1, <3>2, NotTooFew DEF Activity
    <2>2. CASE e = Scheduler
      <3>1. Divider <= 0 + Activity(e)
        BY <1>2, <2>2 DEF Low, Idle
      <3>2. Activity(e) = entity[e].alive
        BY <1>1, <2>2, SchedulerIs DEF Activity
      <3>3. AliveMin[e] <= Divider
        BY <2>2 DEF Schedulable
      <3>. QED  BY <1>1, <3>1, <3>2, <3>3
    <2>. QED  BY <2>1, <2>2
  <1>3. ASSUME High(e) PROVE entity[e].alive <= AliveMax[e]
    <2>1. Activity(e) <= Divider + Period[e]
      <3>1. CASE task[e].pc \in Idle
        <4>1. Activity(e) <= Divider
          BY <1>3, <3>1 DEF High
        <4>. QED  BY <1>1, <4>1
      <3>2. CASE task[e].pc \notin Idle
        <4>1. task[e].since + Activity(e) <= Divider + Period[e]
          BY <1>3, <3>2 DEF High
        <4>. QED  BY <1>1, <4>1
      <3>. QED  BY <3>1, <3>2
    <2>2. AliveMax[e] * Period[e] > Divider
      BY DEF Schedulable
    <2>. QED  BY <1>1, <2>1, <2>2, NotTooMany DEF Activity
  <1>4. entity[e].alive < AliveMin[e] => ~Low(e) /\ AliveMin[e] > 0
    BY <1>1, <1>2
  <1>5. entity[e].alive > AliveMax[e] => ~High(e)
    BY <1>1, <1>3
  <1>. QED  BY <1>4, <1>5 DEF LowDue, HighDue

(* The evaluation turns what was due into a failed cycle. *)
LEMMA EvaluationFits ==
    ASSUME Schedulable, IInv, active, WdgMainFunction, races' = races, NEW e \in Entities, Fit(e),
           Ticks = Divider, Ticks' = 0,
           task'[e].since = task[e].since, task'[e].read = task[e].read,
           \/ e # Scheduler /\ task'[e].pc = task[e].pc
           \/ e = Scheduler /\ task[e].pc = "body" /\ task'[e].pc = "leave" /\ task[e].since = 0
    PROVE  Fit(e)'
  <1>0. WdgTypeOK /\ SchTypeOK
    BY DEF IInv
  <1>1. /\ entity'[e] = Evaluated(e, entity[e]) /\ entity[e] \in EntityStatus
        /\ entity'[e].failed \in Nat
        /\ entity'[e].status = "expired" =>
              entity'[e].failed >= Tolerance \/ entity[e].status = "expired"
        /\ entity[e].status = "deactivated" => entity'[e] = entity[e]
    BY <1>0, EvaluationIs
  <1>2. /\ task'[e].pc \in Idle <=> task[e].pc \in Idle
        /\ task'[e].pc = "count" <=> task[e].pc = "count"
        /\ task'[e].pc \in {"body", "leave"} <=> task[e].pc \in {"body", "leave"}
        /\ task[e].pc # "stuck" /\ task'[e].pc # "stuck"
    BY DEF Idle, Fit
  <1>3. entity'[e].last = entity[e].last /\ entity'[e].age = entity[e].age
    BY <1>1, EvaluatedIs
  <1>4. task'[e].pc \in Idle => task'[e].since = 0
    BY <1>2 DEF Fit
  <1>5. CASE entity[e].status = "deactivated"
    BY <1>1, <1>2, <1>4, <1>5 DEF Fit, Punctual
  <1>6. CASE entity[e].status # "deactivated"
    <2>1. entity[e].status # "expired" /\ Debt(e) <= Allowance(e)
      BY <1>6 DEF Fit
    <2>. DEFINE bad == entity[e].alive < AliveMin[e] \/ entity[e].alive > AliveMax[e]
    <2>2. /\ entity'[e].alive = 0
          /\ bad => entity'[e].failed <= entity[e].failed + 1
          /\ ~bad => entity'[e].failed <= entity[e].failed
      <3>1. entity[e].failed \in Nat
        BY Quantities
      <3>2. /\ Evaluated(e, entity[e]).alive = 0
            /\ bad => Evaluated(e, entity[e]).failed <= entity[e].failed + 1
            /\ ~bad => Evaluated(e, entity[e]).failed
                         = IF entity[e].failed > 0 THEN entity[e].failed - 1 ELSE 0
        BY <1>1, <1>6, EvaluatedIs
      <3>. QED  BY <1>1, <3>1, <3>2
    <2>3. bad => LowDue(e) \/ HighDue(e)
      BY BadWasDue
    <2>. HIDE DEF bad
    <2>4. Activity(e)' = 0 /\ Loaded(e)' = Loaded(e) /\ Loaded(e) \in Nat
      <3>1. Period[e] \in Nat /\ 0 * Period[e] = 0
        BY Quantities
      <3>. QED  BY <2>2, <3>1, Quantities DEF Activity, Loaded
    <2>5. High(e)' /\ Low(e)'
      <3>1. task[e].since \in Nat /\ task[e].since <= Period[e] /\ Period[e] \in Nat
        BY Quantities
      <3>2. High(e)' <=> IF task'[e].pc \in Idle THEN Activity(e)' <= 0
                         ELSE task[e].since + Activity(e)' <= 0 + Period[e]
        BY DEF High
      <3>3. Low(e)' <=> IF task'[e].pc \in Idle
                        THEN /\ 0 <= Activity(e)' + Period[e]
                             /\ task'[e].pc = "count" => 0 <= Loaded(e)' + Period[e]
                        ELSE 0 <= task[e].since + Activity(e)'
        BY DEF Low
      <3>. HIDE DEF Activity, Loaded, High, Low
      <3>. QED  BY <2>4, <3>1, <3>2, <3>3
    <2>6. ~LowDue(e)' /\ ~HighDue(e)' /\ (FlowDue(e)' <=> FlowDue(e)) /\ (Torn(e)' <=> Torn(e))
      BY <1>2, <1>3, <2>5 DEF LowDue, HighDue, FlowDue, Torn
    <2>7. Credit(e)' = Credit(e) /\ Credit(e) \in Nat /\ entity[e].failed \in Nat
      BY Quantities DEF Credit
    <2>8. Debt(e)' \in Nat /\ entity'[e].failed <= Debt(e)' /\ Debt(e)' <= Debt(e)
      <3>1. CASE bad
        BY <1>1, <2>2, <2>3, <2>6, <2>7, <3>1 DEF Debt, One
      <3>2. CASE ~bad
        BY <1>1, <2>2, <2>6, <2>7, <3>2 DEF Debt, One
      <3>. QED  BY <3>1, <3>2
    <2>9. entity'[e].status # "expired" /\ Debt(e)' <= Allowance(e)
      <3>. HIDE DEF Debt, Allowance
      <3>. QED  BY <1>1, <2>1, <2>8, Solvent
    <2>10. Punctual(e)'
      BY <1>2, <1>3, <1>6 DEF Fit, Punctual
    <2>. QED  BY <1>2, <1>4, <2>9, <2>10 DEF Fit
  <1>. QED  BY <1>5, <1>6

(* A tick: everyone waits, or is within its budget. *)
LEMMA TickFits ==
    ASSUME Schedulable, IInv, TimePasses, races' = races, NEW e \in Entities, Fit(e), Patient(e),
           task[e].pc # "off", task[e].pc = "wait" => task[e].since < Period[e], Ticks' = Ticks + 1
    PROVE  /\ Fit(e)'
           /\ task'[e].pc = "wait" => task'[e].since < Period[e]
           /\ task'[e].pc # "off"
  <1>0. WdgTypeOK /\ SchTypeOK
    BY DEF IInv
  <1>1. /\ task[e].since \in Nat /\ task[e].since <= Period[e] /\ Period[e] \in Nat /\ Period[e] > 0
        /\ Activity(e) \in Nat /\ Ticks \in Nat /\ Budget[e] \in Nat
        /\ entity[e].age \in Nat /\ entity[e].failed \in Nat
    BY Quantities
  <1>2. task'[e] = OneTickOlder(e)
    BY DEF TimePasses
  <1>3. /\ entity'[e].status = entity[e].status /\ entity'[e].alive = entity[e].alive
        /\ entity'[e].failed = entity[e].failed /\ entity'[e].last = entity[e].last
        /\ entity'[e].age <= entity[e].age + 1 /\ entity'[e].age \in Nat
    BY <1>0, AgedIs
  <1>4. task[e].pc = "wait" \/ (task[e].pc = "body" /\ task[e].since < Period[e])
    <2>1. Budget[e] <= Period[e]
      BY DEF Schedulable
    <2>. QED  BY <1>1, <2>1 DEF Patient, Fit
  <1>5. /\ task[e].since < Period[e] /\ task[e].pc \notin Idle
        /\ \/ /\ task[e].pc = "wait" /\ task[e].since + 1 = Period[e]
              /\ task'[e].pc = "enter" /\ task'[e].since = 0
           \/ /\ task'[e].pc = task[e].pc /\ task'[e].since = task[e].since + 1
              /\ task[e].pc = "wait" => task[e].since + 1 < Period[e]
    <2>1. CASE task[e].pc = "wait" /\ task[e].since + 1 >= Period[e]
      BY <1>0, <1>1, <1>2, <2>1, OlderIs DEF Idle
    <2>2. CASE ~(task[e].pc = "wait" /\ task[e].since + 1 >= Period[e])
      BY <1>0, <1>1, <1>2, <1>4, <2>2, OlderIs DEF Idle
    <2>. QED  BY <2>1, <2>2
  <1>6. Activity(e)' = Activity(e)
    BY <1>3 DEF Activity
  <1>7. /\ High(e) <=> task[e].since + Activity(e) <= Ticks + Period[e]
        /\ Low(e) <=> Ticks <= task[e].since + Activity(e)
    BY <1>5 DEF High, Low
  <1>8. (High(e) => High(e)') /\ (Low(e) => Low(e)')
    <2>1. CASE task'[e].pc = "enter" /\ task[e].since + 1 = Period[e]
      <3>1. High(e)' <=> Activity(e) <= Ticks + 1
        BY <1>6, <2>1 DEF High, Idle
      <3>2. Low(e)' <=> Ticks + 1 <= Activity(e) + Period[e]
        BY <1>6, <2>1 DEF Low, Idle
      <3>. QED  BY <1>1, <1>7, <2>1, <3>1, <3>2
    <2>2. CASE task'[e].pc = task[e].pc /\ task'[e].since = task[e].since + 1
      <3>1. High(e)' <=> task[e].since + 1 + Activity(e) <= Ticks + 1 + Period[e]
        BY <1>5, <1>6, <2>2 DEF High
      <3>2. Low(e)' <=> Ticks + 1 <= task[e].since + 1 + Activity(e)
        BY <1>5, <1>6, <2>2 DEF Low
      <3>. QED  BY <1>1, <1>7, <3>1, <3>2
    <2>. QED  BY <1>5, <2>1, <2>2
  <1>9. /\ LowDue(e)' => LowDue(e)
        /\ HighDue(e)' => HighDue(e)
        /\ FlowDue(e)' => FlowDue(e)
        /\ ~Torn(e)'
    BY <1>3, <1>4, <1>5, <1>8 DEF LowDue, HighDue, FlowDue, Torn
  <1>10. Credit(e)' = Credit(e) /\ Credit(e) \in Nat
    BY Quantities DEF Credit
  <1>11. Debt(e)' \in Nat /\ entity'[e].failed <= Debt(e)' /\ Debt(e)' <= Debt(e)
    BY <1>1, <1>3, <1>9, <1>10 DEF Debt, One
  <1>12. entity[e].status # "deactivated" => entity'[e].status # "expired" /\ Debt(e)' <= Allowance(e)
    <2>1. entity[e].status # "deactivated" => entity[e].status # "expired" /\ Debt(e) <= Allowance(e)
      BY DEF Fit
    <2>. HIDE DEF Debt, Allowance
    <2>. QED  BY <1>1, <1>3, <1>11, <2>1, Solvent
  <1>13. Punctual(e)'
    <2>1. entity[e].status # "deactivated" => entity[e].age <= task[e].since
          /\ (task[e].pc \notin {"body", "leave"} => entity[e].last = CpExit)
      BY <1>5 DEF Fit, Punctual
    <2>2. CASE task'[e].pc = "enter" /\ task'[e].since = 0 /\ task[e].pc = "wait"
               /\ task[e].since + 1 = Period[e]
      <3>1. entity[e].status # "deactivated" => entity'[e].age <= Period[e]
        BY <1>1, <1>3, <2>1, <2>2
      <3>. QED  BY <1>3, <2>1, <2>2, <3>1 DEF Punctual, Idle
    <2>3. CASE task'[e].pc = task[e].pc /\ task'[e].since = task[e].since + 1
      <3>1. entity[e].status # "deactivated" => entity'[e].age <= task'[e].since
        BY <1>1, <1>3, <2>1, <2>3
      <3>. QED  BY <1>3, <1>4, <1>5, <2>1, <2>3, <3>1 DEF Punctual, Idle
    <2>. QED  BY <1>5, <2>2, <2>3
  <1>14. task'[e].pc # "stuck" /\ (task'[e].pc \in Idle => task'[e].since = 0)
    BY <1>4, <1>5 DEF Idle
  <1>. QED  BY <1>1, <1>3, <1>4, <1>5, <1>12, <1>13, <1>14 DEF Fit

(* Supervision begins: an activation that is under way may owe its entry   *)
(* checkpoint, and its count comes too late for this cycle.                *)
LEMMA ActivationFits ==
    ASSUME Schedulable, IInv, SupInv, ~active, NEW e \in Entities, Fit(e), entity[e].last = CpExit,
           entity' = [f \in Entities |-> Activated(entity[f])], UNCHANGED <<task, runs, races>>
    PROVE  Fit(e)'
  <1>1. entity[e] \in EntityStatus /\ entity'[e] = Activated(entity[e])
    BY DEF IInv, WdgTypeOK
  <1>2. /\ entity'[e].status = "ok" /\ entity'[e].alive = 0 /\ entity'[e].failed = 0
        /\ entity'[e].age = 0 /\ entity'[e].last = CpExit
    BY <1>1, ActivatedIs
  <1>3. task[e].pc # "count" /\ Ticks' = Ticks
    BY DEF SupInv, Ticks
  <1>4. /\ task[e].since \in Nat /\ task[e].since <= Period[e] /\ Period[e] \in Nat /\ Ticks \in Nat
        /\ races \in Nat /\ MaxRaces \in Nat /\ races <= MaxRaces
    BY Quantities
  <1>5. Activity(e)' = 0
    <2>1. 0 * Period[e] = 0
      BY <1>4
    <2>. QED  BY <1>2, <2>1 DEF Activity
  <1>6. High(e)'
    <2>1. High(e)' <=> IF task[e].pc \in Idle THEN Activity(e)' <= Ticks
                       ELSE task[e].since + Activity(e)' <= Ticks + Period[e]
      BY <1>3 DEF High
    <2>. HIDE DEF High, Activity
    <2>. QED  BY <1>4, <1>5, <2>1
  <1>7. ~HighDue(e)' /\ ~Torn(e)' /\ (LowDue(e)' => AliveMin[e] > 0)
    BY <1>3, <1>6 DEF HighDue, Torn, LowDue
  <1>8. Debt(e)' <= Allowance(e)
    <2>1. Credit(e)' = IF e = Scheduler THEN 0 ELSE MaxRaces - races
      BY DEF Credit
    <2>2. One(LowDue(e))' <= One(AliveMin[e] > 0) /\ One(FlowDue(e))' <= 1
          /\ One(AliveMin[e] > 0) \in {0, 1} /\ One(FlowDue(e))' \in {0, 1} /\ One(LowDue(e))' \in {0, 1}
      BY <1>7 DEF One
    <2>3. Debt(e)' = One(FlowDue(e))' + One(LowDue(e))' + Credit(e)'
      <3>1. One(HighDue(e))' = 0 /\ One(Torn(e))' = 0
        BY <1>7 DEF One
      <3>2. Credit(e)' \in Int
        BY <1>4, <2>1
      <3>. QED  BY <1>2, <2>2, <3>1, <3>2 DEF Debt
    <2>4. Allowance(e) = 1 + One(AliveMin[e] > 0) + (IF e = Scheduler THEN 0 ELSE MaxRaces)
      BY DEF Allowance
    <2>. HIDE DEF Debt, Allowance, One, Credit
    <2>. QED  BY <1>4, <2>1, <2>2, <2>3, <2>4
  <1>9. Punctual(e)'
    BY <1>2, <1>4 DEF Punctual
  <1>. QED  BY <1>2, <1>8, <1>9 DEF Fit

(* Supervision ends. *)
LEMMA DeactivationFits ==
    ASSUME IInv, NEW e \in Entities, Fit(e),
           entity' = [f \in Entities |-> Deactivated(entity[f])], task' = task
    PROVE  Fit(e)'
  <1>1. entity[e] \in EntityStatus /\ entity'[e] = Deactivated(entity[e])
    BY DEF IInv, WdgTypeOK
  <1>. DEFINE d == [entity[e] EXCEPT !.status = "deactivated"]
  <1>2. d \in EntityStatus /\ d.status = "deactivated" /\ d.last = entity[e].last /\ d.age = entity[e].age
    BY <1>1 DEF EntityStatus
  <1>3. entity'[e] = [d EXCEPT !.alive = 0]
    BY <1>1 DEF Deactivated
  <1>. HIDE DEF d
  <1>4. /\ entity'[e].status = "deactivated" /\ entity'[e].last = entity[e].last
        /\ entity'[e].age = entity[e].age
    BY <1>2, <1>3 DEF EntityStatus
  <1>5. Punctual(e)'
    BY <1>4 DEF Fit, Punctual, Idle
  <1>. QED  BY <1>4, <1>5 DEF Fit

(* What a task's step leaves of the places. *)
LEMMA PlaceTask ==
    ASSUME IInv, SupInv, PlaceInv, UNCHANGED phase, NEW e \in Entities,
           RunTask(e) \/ LoadCount(e) \/ Sticks(e)
    PROVE  PlaceInv'
  <1>0. WdgTypeOK /\ SchTypeOK /\ entity \in [Entities -> EntityStatus]
    BY DEF IInv, WdgTypeOK
  <1>1. /\ \A f \in Entities : f # e => task'[f] = task[f]
        /\ task'[e].pc # "off" /\ (task'[e].pc = "wait" => task'[e].since < Period[e])
    <2>0. {"body", "leave", "stuck"} \subseteq Where
      BY DEF Where
    <2>1. CASE Enter(e)
      <3>1. Goto(e, "body")
        BY <2>1 DEF Enter
      <3>. QED  BY <1>0, <2>0, <3>1, GotoIs
    <2>2. CASE Body(e)
      <3>1. Goto(e, "leave")
        BY <2>2 DEF Body
      <3>. QED  BY <1>0, <2>0, <3>1, GotoIs
    <2>3. CASE Sticks(e)
      <3>1. Goto(e, "stuck")
        BY <2>3 DEF Sticks
      <3>. QED  BY <1>0, <2>0, <3>1, GotoIs
    <2>4. CASE StoreCount(e)
      BY <1>0, <2>4, StoreIs
    <2>5. CASE LoadCount(e)
      BY <1>0, <2>5, LoadIs
    <2>6. CASE Leave(e)
      BY <1>0, <2>6, LeaveIs
    <2>. QED  BY <2>1, <2>2, <2>3, <2>4, <2>5, <2>6 DEF RunTask
  <1>2. active' = active
    BY DEF RunTask, Enter, StoreCount, Body, Leave, LoadCount, Sticks, WdgMainFunction, wdgVars
  <1>3. ASSUME ~active, NEW f \in Entities PROVE entity'[f].last = CpExit
    <2>1. entity[f].last = CpExit /\ entity[e].status = "deactivated" /\ task[e].pc # "count"
      BY <1>3 DEF PlaceInv, SupInv
    <2>2. CASE Enter(e) \/ Leave(e)
      <3>1. PICK cp \in {CpEntry, CpExit} : entity' = [entity EXCEPT ![e] = Reached(e, entity[e], cp)]
        BY <2>2, SchedulerIs DEF Enter, Leave
      <3>2. Reached(e, entity[e], cp).last = entity[e].last
        BY <1>0, <2>1, ReachedIs
      <3>. QED  BY <1>0, <1>3, <2>1, <3>1, <3>2 DEF PlaceInv
    <2>3. CASE ~(Enter(e) \/ Leave(e))
      <3>1. entity' = entity
        BY <1>3, <2>1, <2>3 DEF RunTask, StoreCount, Body, LoadCount, Sticks, WdgMainFunction, wdgVars
      <3>. QED  BY <2>1, <3>1
    <2>. QED  BY <2>2, <2>3
  <1>4. phase' \in {"supervise", "run", "flush"} => \A f \in Entities : task'[f].pc # "off"
    BY <1>1 DEF PlaceInv
  <1>5. \A f \in Entities : task'[f].pc = "wait" => task'[f].since < Period[f]
    BY <1>1 DEF PlaceInv
  <1>. QED  BY <1>2, <1>3, <1>4, <1>5 DEF PlaceInv

(* One task has moved, the others are where they were. *)
LEMMA OneMoved ==
    ASSUME IInv, CalmInv, NEW e \in Entities, Fit(e)', Ticks' = Ticks,
           races' \in Nat, races <= races', task'[Scheduler].since = 0,
           subscribed' = {} => subscribed = {} /\ unfed' = unfed,
           subscribed' \subseteq {Scheduler} => subscribed \subseteq {Scheduler} /\ unfed' = unfed,
           \A f \in Entities : f # e => task'[f] = task[f] /\ entity'[f] = entity[f]
    PROVE  CalmInv'
  <1>1. ASSUME NEW f \in Entities PROVE Fit(f)'
    <2>1. CASE f = e
      BY <2>1
    <2>2. CASE f # e
      <3>1. Fit(f)
        BY DEF CalmInv
      <3>. QED  BY <2>2, <3>1, Unmoved
    <2>. QED  BY <2>1, <2>2
  <1>2. subscribed' = {} => unfed' = 0
    BY DEF CalmInv
  <1>3. subscribed' \subseteq {Scheduler} => unfed' <= Ticks'
    BY DEF CalmInv
  <1>. QED  BY <1>1, <1>2, <1>3 DEF CalmInv

LEMMA CheckInCalm ==
    ASSUME Schedulable, IInv, CalmInv, NEW e \in Entities,
           \/ (Enter(e) \/ StoreCount(e) \/ Leave(e)) /\ races' = races
           \/ LoadCount(e) /\ races < MaxRaces /\ races' = races + 1
    PROVE  CalmInv'
  <1>0. WdgTypeOK /\ SchTypeOK /\ Fit(e) /\ task[Scheduler].since = 0
    BY DEF IInv, CalmInv
  <1>1. UNCHANGED <<subscribed, unfed>>
    BY DEF Enter, StoreCount, Leave, LoadCount, wdgVars
  <1>2. races \in Nat /\ races' \in Nat /\ races <= races'
    <2>1. races \in Nat
      BY Quantities
    <2>. QED  BY <2>1
  <1>3. /\ Fit(e)' /\ Ticks' = Ticks /\ task'[Scheduler].since = 0
        /\ \A f \in Entities : f # e => task'[f] = task[f] /\ entity'[f] = entity[f]
    <2>1. CASE Enter(e) /\ races' = races
      <3>1. Goto(e, "body") /\ "body" \in Where
        BY <2>1 DEF Enter, Where
      <3>2. task'[e].since = task[e].since
        BY <1>0, <3>1, GotoIs
      <3>3. /\ Fit(e)' /\ Ticks' = Ticks
            /\ \A f \in Entities : f # e => task'[f] = task[f] /\ entity'[f] = entity[f]
        BY <1>0, <2>1, EnterFits
      <3>. QED  BY <1>0, <3>2, <3>3, SchedulerIs
    <2>2. CASE StoreCount(e) /\ races' = races
      <3>1. task'[e].since = task[e].since
        BY <1>0, <2>2, StoreIs
      <3>2. /\ Fit(e)' /\ Ticks' = Ticks
            /\ \A f \in Entities : f # e => task'[f] = task[f] /\ entity'[f] = entity[f]
        BY <1>0, <2>2, StoreFits
      <3>. QED  BY <1>0, <3>1, <3>2, SchedulerIs
    <2>3. CASE Leave(e) /\ races' = races
      BY <1>0, <2>3, LeaveFits
    <2>4. CASE LoadCount(e) /\ races < MaxRaces /\ races' = races + 1
      <3>1. task'[e].since = task[e].since
        BY <1>0, <2>4, LoadIs
      <3>2. /\ Fit(e)' /\ Ticks' = Ticks
            /\ \A f \in Entities : f # e => task'[f] = task[f] /\ entity'[f] = entity[f]
        BY <1>0, <2>4, LoadFits
      <3>. QED  BY <1>0, <3>1, <3>2, SchedulerIs
    <2>. QED  BY <2>1, <2>2, <2>3, <2>4
  <1>. QED  BY <1>1, <1>2, <1>3, OneMoved

(* The scheduler triggers the hardware if it is watched alone. *)
LEMMA TriggerFeeds ==
    ASSUME WdgTypeOK, Trigger(Scheduler), subscribed' = subscribed
    PROVE  /\ subscribed = {} => unfed' = unfed
           /\ subscribed = {Scheduler} => unfed' = 0
  <1>1. triggered \subseteq subscribed
    BY DEF WdgTypeOK
  <1>2. CASE subscribed = {}
    BY <1>2 DEF Trigger
  <1>3. CASE subscribed = {Scheduler}
    <2>1. triggered \cup ({Scheduler} \cap subscribed) = subscribed /\ subscribed # {}
      BY <1>1, <1>3
    <2>. QED  BY <1>3, <2>1 DEF Trigger
  <1>. QED  BY <1>2, <1>3

LEMMA BodyCalm ==
    ASSUME Schedulable, IInv, SupInv, CalmInv, NEW e \in Entities, Body(e), races' = races
    PROVE  CalmInv'
  <1>0. WdgTypeOK /\ SchTypeOK /\ (\A f \in Entities : Fit(f)) /\ task[Scheduler].since = 0
    BY DEF IInv, CalmInv
  <1>1. /\ Goto(e, "leave") /\ task[e].pc = "body"
        /\ e # Scheduler => UNCHANGED <<wdgVars, runs>>
        /\ e = Scheduler => /\ runs' = (runs + 1) % Divider
                            /\ runs' = 0 => WdgMainFunction
                            /\ runs' # 0 => UNCHANGED wdgVars
    BY DEF Body
  <1>2. /\ \A f \in Entities : f # e => task'[f] = task[f]
        /\ task'[e].pc = "leave" /\ task'[e].since = task[e].since /\ task'[e].read = task[e].read
    <2>1. "leave" \in Where
      BY DEF Where
    <2>. QED  BY <1>0, <1>1, <2>1, GotoIs
  <1>3. races \in Nat /\ task'[Scheduler].since = 0
    BY <1>0, <1>2, Quantities, SchedulerIs
  <1>4. CASE UNCHANGED wdgVars /\ (e # Scheduler \/ runs' # 0)
    <2>1. Ticks' = Ticks
      <3>1. CASE e # Scheduler
        BY <1>1, <1>2, <3>1, TicksStay
      <3>2. CASE e = Scheduler /\ runs' # 0
        <4>1. runs' = runs + 1 /\ runs \in Nat
          BY <1>0, <1>1, <3>2, Rounds, OwedIs
        <4>. QED  BY <1>1, <1>2, <3>2, <4>1 DEF Ticks, One
      <3>. QED  BY <1>4, <3>1, <3>2
    <2>2. entity' = entity /\ subscribed' = subscribed /\ unfed' = unfed
      BY <1>4 DEF wdgVars
    <2>3. Fit(e)'
      BY <1>0, <1>1, <1>2, <2>1, <2>2, MovedFits
    <2>. QED  BY <1>2, <1>3, <2>1, <2>2, <2>3, OneMoved
  <1>5. CASE e = Scheduler /\ runs' = 0 /\ WdgMainFunction
    <2>1. runs + 1 = Divider /\ runs \in Nat
      BY <1>0, <1>1, <1>5, Rounds, OwedIs
    <2>2. Ticks = Divider /\ Ticks' = 0
      BY <1>1, <1>2, <1>5, <2>1 DEF Ticks, One
    <2>3. UNCHANGED <<active, subscribed>>
      BY <1>5 DEF WdgMainFunction
    <2>4. \A f \in Entities : Fit(f)'
      <3>. SUFFICES ASSUME NEW f \in Entities PROVE Fit(f)'
        OBVIOUS
      <3>1. CASE active
        <4>1. /\ task'[f].since = task[f].since /\ task'[f].read = task[f].read
              /\ \/ f # Scheduler /\ task'[f].pc = task[f].pc
                 \/ f = Scheduler /\ task[f].pc = "body" /\ task'[f].pc = "leave" /\ task[f].since = 0
          BY <1>0, <1>1, <1>2, <1>5
        <4>. QED  BY <1>0, <1>5, <2>2, <3>1, <4>1, EvaluationFits
      <3>2. CASE ~active
        <4>1. entity'[f] = entity[f] /\ entity[f].status = "deactivated" /\ task[f].pc # "count"
          BY <1>5, <3>2 DEF WdgMainFunction, SupInv
        <4>2. task'[f].since = task[f].since /\ (task'[f].pc = task[f].pc \/ task'[f].pc = "leave")
          BY <1>2
        <4>3. Fit(f)
          BY <1>0
        <4>. QED  BY <4>1, <4>2, <4>3 DEF Fit, Punctual, Idle
      <3>. QED  BY <3>1, <3>2
    <2>5. Trigger(Scheduler)
      <3>1. CASE active
        <4>1. Expired(entity') = {}
          BY <2>4 DEF Expired, Fit
        <4>. QED  BY <1>5, <3>1, <4>1 DEF WdgMainFunction
      <3>2. CASE ~active
        BY <1>5, <3>2 DEF WdgMainFunction
      <3>. QED  BY <3>1, <3>2
    <2>6. /\ subscribed' = {} => unfed' = 0
          /\ subscribed' \subseteq {Scheduler} => unfed' <= Ticks'
      <3>1. /\ subscribed = {} => unfed' = unfed
            /\ subscribed = {Scheduler} => unfed' = 0
        BY <1>0, <2>3, <2>5, TriggerFeeds
      <3>2. subscribed = {} => unfed = 0
        BY DEF CalmInv
      <3>3. subscribed \subseteq {Scheduler} => subscribed = {} \/ subscribed = {Scheduler}
        OBVIOUS
      <3>. QED  BY <2>2, <2>3, <3>1, <3>2, <3>3
    <2>. QED  BY <1>3, <2>4, <2>6 DEF CalmInv
  <1>. QED  BY <1>1, <1>4, <1>5

LEMMA PlaceTick ==
    ASSUME IInv, PlaceInv, TimePasses, UNCHANGED phase
    PROVE  PlaceInv'
  <1>0. WdgTypeOK /\ SchTypeOK /\ active' = active
    BY DEF IInv, TimePasses
  <1>1. ASSUME NEW f \in Entities
        PROVE  /\ entity'[f].last = entity[f].last
               /\ task[f].pc # "off" => task'[f].pc # "off"
               /\ task'[f].pc = "wait" => task'[f].since < Period[f]
    <2>1. task'[f] = OneTickOlder(f)
      BY DEF TimePasses
    <2>2. task[f].since \in Nat /\ Period[f] \in Nat /\ task[f].since <= Period[f]
      BY Quantities
    <2>3. entity'[f].last = entity[f].last
      BY <1>0, AgedIs
    <2>4. CASE task[f].pc = "off"
      BY <1>0, <2>1, <2>3, <2>4, OlderIs
    <2>5. CASE task[f].pc = "wait" /\ task[f].since + 1 >= Period[f]
      BY <1>0, <2>1, <2>3, <2>5, OlderIs
    <2>6. CASE task[f].pc # "off" /\ ~(task[f].pc = "wait" /\ task[f].since + 1 >= Period[f])
      <3>1. /\ task'[f].pc = task[f].pc
            /\ task'[f].since = IF task[f].since < Period[f] THEN task[f].since + 1 ELSE Period[f]
        BY <1>0, <2>1, <2>6, OlderIs
      <3>. QED  BY <2>2, <2>3, <2>6, <3>1
    <2>. QED  BY <2>4, <2>5, <2>6
  <1>. QED  BY <1>0, <1>1 DEF PlaceInv

LEMMA TickCalm ==
    ASSUME Schedulable, IInv, PlaceInv, CalmInv, phase \in {"supervise", "run", "flush"},
           Tick, races' = races
    PROVE  CalmInv'
  <1>0. /\ SchTypeOK /\ (\A f \in Entities : Fit(f)) /\ task[Scheduler].since = 0
        /\ \A f \in Entities : task[f].pc # "off" /\ (task[f].pc = "wait" => task[f].since < Period[f])
    BY DEF IInv, PlaceInv, CalmInv
  <1>1. /\ TimePasses /\ (\A f \in Entities : Patient(f)) /\ UNCHANGED <<subscribed, runs>>
        /\ unfed' = IF subscribed = {} THEN 0 ELSE unfed + 1
    BY DEF Tick, TimePasses
  <1>2. task[Scheduler].pc = "wait" /\ task'[Scheduler].pc = "enter" /\ task'[Scheduler].since = 0
    <2>1. task[Scheduler].pc = "wait"
      BY <1>0, <1>1, SchedulerIs DEF Patient, Fit
    <2>2. task'[Scheduler] = OneTickOlder(Scheduler)
      BY <1>1, SchedulerIs DEF TimePasses
    <2>. QED  BY <1>0, <2>1, <2>2, SchedulerIs, OlderIs
  <1>3. Ticks' = Ticks + 1 /\ Ticks \in Nat
    <2>1. runs \in Nat
      BY SchedulerIs, Quantities
    <2>. QED  BY <1>1, <1>2, <2>1 DEF Ticks, One
  <1>4. \A f \in Entities : Fit(f)'
    BY <1>0, <1>1, <1>3, TickFits
  <1>5. unfed \in Nat
    BY WdgMAssumption DEF IInv, WdgTypeOK
  <1>6. subscribed' \subseteq {Scheduler} => unfed' <= Ticks'
    BY <1>1, <1>3, <1>5 DEF CalmInv
  <1>. QED  BY <1>1, <1>2, <1>4, <1>6 DEF CalmInv

(* A task is created, or subscribes. *)
LEMMA StartHealthy ==
    ASSUME Schedulable, IInv, HealthInv, NEW e \in Entities, NEW p \in {"subscribe", "enter"},
           Goto(e, p), task[e].pc \in {"off", "subscribe"},
           UNCHANGED <<entity, active, unfed, runs, late, races>>, subscribed \subseteq subscribed',
           phase' \in {"supervise", "run", "flush"} =>
               phase \in {"supervise", "run", "flush"} \/ \A f \in Entities : task'[f].pc # "off"
    PROVE  HealthInv'
  <1>0. SchTypeOK /\ PlaceInv
    BY DEF IInv, HealthInv
  <1>1. /\ \A f \in Entities : f # e => task'[f] = task[f]
        /\ task'[e].pc = p /\ task'[e].since = task[e].since
    <2>1. p \in Where
      BY DEF Where
    <2>. QED  BY <1>0, <2>1, GotoIs
  <1>2. PlaceInv'
    BY <1>0, <1>1 DEF PlaceInv
  <1>3. ASSUME CalmInv PROVE CalmInv'
    <2>1. Fit(e) /\ task[Scheduler].since = 0
      BY <1>3 DEF CalmInv
    <2>2. Ticks' = Ticks
      BY <1>1, TicksStay
    <2>3. Fit(e)'
      BY <1>1, <2>1, <2>2, MovedFits
    <2>4. races' \in Nat /\ races <= races'
      BY Quantities
    <2>5. task'[Scheduler].since = 0
      BY <1>1, <2>1, SchedulerIs
    <2>6. /\ subscribed' = {} => subscribed = {} /\ unfed' = unfed
          /\ subscribed' \subseteq {Scheduler} => subscribed \subseteq {Scheduler} /\ unfed' = unfed
      OBVIOUS
    <2>7. \A f \in Entities : f # e => task'[f] = task[f] /\ entity'[f] = entity[f]
      BY <1>1
    <2>. QED  BY <1>3, <2>2, <2>3, <2>4, <2>5, <2>6, <2>7, OneMoved
  <1>. QED  BY <1>2, <1>3 DEF HealthInv

LEMMA QuietHealthy ==
    ASSUME HealthInv, UNCHANGED <<wdgVars, schVars, races>>,
           phase' \in {"supervise", "run", "flush"} => phase \in {"supervise", "run", "flush"}
    PROVE  HealthInv'
  <1>1. PlaceInv'
    BY DEF HealthInv, PlaceInv, wdgVars, schVars
  <1>2. ASSUME CalmInv PROVE CalmInv'
    <2>1. Ticks' = Ticks
      BY DEF Ticks, schVars
    <2>2. ASSUME NEW f \in Entities PROVE Fit(f)'
      <3>1. Fit(f)
        BY <1>2 DEF CalmInv
      <3>2. Debt(f)' = Debt(f)
        BY <2>1 DEF Debt, FlowDue, LowDue, HighDue, Torn, High, Low, Activity, Loaded, Credit,
                    wdgVars, schVars
      <3>. QED  BY <3>1, <3>2 DEF Fit, Punctual, wdgVars, schVars
    <2>. QED  BY <1>2, <2>1, <2>2 DEF CalmInv, wdgVars, schVars
  <1>. QED  BY <1>1, <1>2 DEF HealthInv, schVars

LEMMA ResetHealthy ==
    ASSUME WdgReset, SchReset, phase' \notin {"supervise", "run", "flush"}, SchTypeOK'
    PROVE  HealthInv'
  <1>1. /\ unfed' = 0 /\ subscribed' = {} /\ runs' = 0 /\ late' = FALSE
        /\ entity' = [f \in Entities |-> Fresh] /\ task' = [f \in Entities |-> NoTask]
    BY DEF WdgReset, SchReset
  <1>2. /\ Fresh.status = "deactivated" /\ Fresh.last = CpExit
        /\ NoTask.pc = "off" /\ NoTask.since = 0
    BY DEF Fresh, NoTask
  <1>3. \A f \in Entities : /\ entity'[f].status = "deactivated" /\ entity'[f].last = CpExit
                            /\ task'[f].pc = "off" /\ task'[f].since = 0
    BY <1>1, <1>2
  <1>4. PlaceInv'
    BY <1>3 DEF PlaceInv
  <1>5. CalmInv'
    <2>1. \A f \in Entities : Fit(f)'
      BY <1>3 DEF Fit, Punctual
    <2>2. Ticks' >= 0
      BY <1>1 DEF Ticks, One
    <2>. QED  BY <1>1, <1>3, <2>1, <2>2, SchedulerIs DEF CalmInv
  <1>. QED  BY <1>4, <1>5 DEF HealthInv

LEMMA HealthInitially == Init => HealthInv
  <1>. SUFFICES ASSUME Init PROVE HealthInv
    OBVIOUS
  <1>1. /\ unfed = 0 /\ subscribed = {} /\ runs = 0 /\ phase = "drivers"
        /\ entity = [f \in Entities |-> Fresh] /\ task = [f \in Entities |-> NoTask]
    BY DEF Init, WdgInit, SchInit
  <1>2. /\ Fresh.status = "deactivated" /\ Fresh.last = CpExit
        /\ NoTask.pc = "off" /\ NoTask.since = 0
    BY DEF Fresh, NoTask
  <1>3. \A f \in Entities : /\ entity[f].status = "deactivated" /\ entity[f].last = CpExit
                            /\ task[f].pc = "off" /\ task[f].since = 0
    BY <1>1, <1>2
  <1>4. PlaceInv
    BY <1>1, <1>3 DEF PlaceInv
  <1>5. CalmInv
    <2>1. \A f \in Entities : Fit(f)
      BY <1>3 DEF Fit, Punctual
    <2>2. Ticks >= 0
      BY <1>1 DEF Ticks, One
    <2>. QED  BY <1>1, <1>3, <2>1, <2>2, SchedulerIs DEF CalmInv
  <1>. QED  BY <1>4, <1>5 DEF HealthInv

(* The steps of the start-up, and the shutdown. *)
LEMMA BootHealthy ==
    ASSUME Schedulable, IInv, SupInv, HealthInv, Boot \/ Shutdown
    PROVE  HealthInv'
  <1>0. UNCHANGED races /\ SchTypeOK /\ WdgTypeOK
    BY DEF Boot, Shutdown, InitDrivers, InitMemory, InitClock, EvaluateCrashLoop, InitSensors,
           InitServices, StartTask, Supervise, Frame, IInv
  <1>1. CASE InitDrivers
    <2>1. /\ phase = "drivers" /\ phase' = "memory" /\ UNCHANGED schVars
          /\ unfed' = 0 /\ subscribed' = {} /\ entity' = [f \in Entities |-> Fresh]
      BY <1>1 DEF InitDrivers, At, WdgReset
    <2>2. Fresh.status = "deactivated" /\ Fresh.last = CpExit
      BY DEF Fresh
    <2>3. \A f \in Entities : /\ entity'[f].status = "deactivated" /\ entity'[f].last = CpExit
                              /\ task'[f].pc = "off" /\ task'[f].since = task[f].since
      BY <2>1, <2>2 DEF SupInv, Before, schVars
    <2>4. PlaceInv'
      BY <2>1, <2>3 DEF PlaceInv
    <2>5. ASSUME CalmInv PROVE CalmInv'
      <3>1. \A f \in Entities : task'[f].since = 0
        BY <2>1, <2>3, <2>5 DEF CalmInv, Fit, Idle, schVars
      <3>2. \A f \in Entities : Fit(f)'
        BY <2>3, <3>1 DEF Fit, Punctual
      <3>3. Ticks' >= 0
        <4>1. Ticks' = Ticks
          BY <2>1 DEF Ticks, schVars
        <4>2. Ticks \in Nat
          BY SchedulerIs, Quantities
        <4>. HIDE DEF Ticks
        <4>. QED  BY <4>1, <4>2
      <3>. QED  BY <2>1, <3>1, <3>2, <3>3, SchedulerIs DEF CalmInv
    <2>. QED  BY <2>1, <2>4, <2>5 DEF HealthInv, schVars
  <1>2. CASE InitMemory \/ InitClock \/ EvaluateCrashLoop \/ InitSensors \/ InitServices
    <2>1. UNCHANGED <<wdgVars, schVars>> /\ phase' \notin {"supervise", "run", "flush"}
      BY <1>2 DEF InitMemory, InitClock, EvaluateCrashLoop, InitSensors, InitServices, At
    <2>. QED  BY <1>0, <2>1, QuietHealthy
  <1>3. CASE StartTask
    <2>1. PICK e \in Entities : CreateTask(e)
      BY <1>3 DEF StartTask
    <2>2. /\ UNCHANGED <<wdgVars, runs, late>> /\ task[e].pc = "off" /\ Goto(e, "subscribe")
          /\ phase' = IF \A f \in Entities : task'[f].pc # "off" THEN "supervise" ELSE "tasks"
      BY <1>3, <2>1 DEF StartTask, CreateTask
    <2>3. UNCHANGED <<entity, active, unfed, subscribed>>
      BY <2>2 DEF wdgVars
    <2>. QED  BY <1>0, <2>2, <2>3, StartHealthy
  <1>4. CASE Supervise
    <2>1. /\ phase = "supervise" /\ phase' = "run" /\ active' = TRUE /\ UNCHANGED <<schVars, subscribed>>
          /\ entity' = [f \in Entities |-> Activated(entity[f])] /\ unfed' = 0
      BY <1>4 DEF Supervise, At, ActivateSupervision, SetMode
    <2>2. ~active
      BY <2>1 DEF SupInv
    <2>3. PlaceInv'
      BY <2>1 DEF HealthInv, PlaceInv, schVars
    <2>4. ASSUME CalmInv PROVE CalmInv'
      <3>1. \A f \in Entities : Fit(f)'
        <4>. SUFFICES ASSUME NEW f \in Entities PROVE Fit(f)'
          OBVIOUS
        <4>1. Fit(f) /\ entity[f].last = CpExit
          BY <2>2, <2>4 DEF CalmInv, HealthInv, PlaceInv
        <4>. QED  BY <1>0, <2>1, <2>2, <4>1, ActivationFits DEF schVars
      <3>2. Ticks' >= 0
        <4>1. Ticks' = Ticks
          BY <2>1 DEF Ticks, schVars
        <4>2. Ticks \in Nat
          BY SchedulerIs, Quantities
        <4>. HIDE DEF Ticks
        <4>. QED  BY <4>1, <4>2
      <3>. QED  BY <2>1, <2>4, <3>1, <3>2 DEF CalmInv, schVars
    <2>. QED  BY <2>1, <2>3, <2>4 DEF HealthInv, schVars
  <1>5. CASE Shutdown
    <2>1. /\ phase = "run" /\ phase' = "flush" /\ active' = active /\ UNCHANGED <<schVars, subscribed, unfed>>
          /\ entity' = [f \in Entities |-> Deactivated(entity[f])]
      BY <1>5 DEF Shutdown, At
    <2>2. PlaceInv'
      <3>1. \A f \in Entities : entity'[f].last = entity[f].last
        BY <1>0, <2>1, ActivatedIs DEF WdgTypeOK
      <3>. QED  BY <2>1, <3>1 DEF HealthInv, PlaceInv, schVars
    <2>3. ASSUME CalmInv PROVE CalmInv'
      <3>1. \A f \in Entities : Fit(f)'
        BY <2>1, <2>3, DeactivationFits DEF CalmInv, schVars
      <3>2. Ticks' = Ticks
        BY <2>1 DEF Ticks, schVars
      <3>. QED  BY <2>1, <2>3, <3>1, <3>2 DEF CalmInv, schVars
    <2>. QED  BY <2>1, <2>2, <2>3 DEF HealthInv, schVars
  <1>. QED  BY <1>1, <1>2, <1>3, <1>4, <1>5 DEF Boot

(* The tasks and time. *)
LEMMA TasksHealthy ==
    ASSUME Schedulable, IInv, SupInv, HealthInv, TaskStep \/ TaskFault \/ TimeStep
    PROVE  HealthInv'
  <1>1. PlaceInv /\ (~late => CalmInv) /\ UNCHANGED phase /\ SchTypeOK
    BY DEF HealthInv, TaskStep, TaskFault, TimeStep, stillBoot, bootVars, IInv
  <1>2. ASSUME NEW e \in Entities, RunTask(e), races' = races
        PROVE  HealthInv'
    <2>1. PlaceInv'
      BY <1>1, <1>2, PlaceTask
    <2>2. late' = late
      BY <1>2 DEF RunTask, Enter, StoreCount, Body, Leave
    <2>3. CalmInv => CalmInv'
      BY <1>2, CheckInCalm, BodyCalm DEF RunTask
    <2>. QED  BY <1>1, <2>1, <2>2, <2>3 DEF HealthInv
  <1>3. ASSUME NEW e \in Entities, LoadCount(e), races < MaxRaces, races' = races + 1
        PROVE  HealthInv'
    <2>1. PlaceInv'
      BY <1>1, <1>3, PlaceTask
    <2>2. late' = late
      BY <1>3 DEF LoadCount
    <2>3. CalmInv => CalmInv'
      BY <1>3, CheckInCalm
    <2>. QED  BY <1>1, <2>1, <2>2, <2>3 DEF HealthInv
  <1>4. ASSUME NEW e \in Entities, Sticks(e)
        PROVE  HealthInv'
    <2>1. PlaceInv'
      BY <1>1, <1>4, PlaceTask
    <2>2. late' = TRUE
      BY <1>4 DEF Sticks
    <2>. QED  BY <2>1, <2>2 DEF HealthInv
  <1>5. ASSUME LateTick
        PROVE  HealthInv'
    <2>1. TimePasses /\ late' = TRUE
      BY <1>5 DEF LateTick
    <2>. QED  BY <1>1, <2>1, PlaceTick DEF HealthInv
  <1>6. CASE TimeStep
    <2>1. Tick /\ TimePasses /\ late' = late /\ races' = races /\ phase \in {"supervise", "run", "flush"}
      BY <1>6 DEF TimeStep, Tick
    <2>2. PlaceInv'
      BY <1>1, <2>1, PlaceTick
    <2>3. CalmInv => CalmInv'
      BY <1>1, <2>1, TickCalm
    <2>. QED  BY <1>1, <2>1, <2>2, <2>3 DEF HealthInv
  <1>7. ASSUME NEW e \in Entities, SubscribeTask(e, e \in Watched), races' = races
        PROVE  HealthInv'
    <2>1. /\ Goto(e, "enter") /\ task[e].pc = "subscribe"
          /\ UNCHANGED <<entity, active, unfed, runs, late>> /\ subscribed \subseteq subscribed'
      BY <1>7 DEF SubscribeTask, Subscribe
    <2>. QED  BY <1>1, <1>7, <2>1, StartHealthy
  <1>8. CASE TaskStep
    BY <1>2, <1>7, <1>8 DEF TaskStep, Proceed
  <1>9. CASE TaskFault
    BY <1>3, <1>4, <1>5, <1>9 DEF TaskFault
  <1>. QED  BY <1>6, <1>8, <1>9

LEMMA StepHealthy ==
    ASSUME Schedulable, IInv, IInv', SupInv, HealthInv, [Next]_vars
    PROVE  HealthInv'
  <1>1. CASE Boot \/ Shutdown
    BY <1>1, BootHealthy
  <1>2. CASE CreateFails \/ ShutdownEnds \/ Bite \/ Reset
    <2>1. WdgReset /\ SchReset /\ phase' \notin {"supervise", "run", "flush"}
      BY <1>2 DEF CreateFails, ShutdownEnds, Bite, Reset, Restart
    <2>. QED  BY <2>1, ResetHealthy DEF IInv
  <1>3. CASE TaskStep \/ TaskFault \/ TimeStep
    BY <1>3, TasksHealthy
  <1>4. CASE ClearCrashLoopCounter \/ PowerOn \/ Day \/ UNCHANGED vars
    <2>1. /\ UNCHANGED <<wdgVars, schVars, races>>
          /\ phase' \in {"supervise", "run", "flush"} => phase \in {"supervise", "run", "flush"}
      BY <1>4 DEF ClearCrashLoopCounter, PowerOn, Day, vars, bootVars, counts, At, Frame
    <2>. QED  BY <2>1, QuietHealthy
  <1>. QED  BY <1>1, <1>2, <1>3, <1>4 DEF Next

(* Tasks that keep their budgets are never taken for stuck: no entity      *)
(* expires, and the hardware does not bite while it watches the scheduler  *)
(* task only, for every set of tasks, every configuration with room for    *)
(* them, and every order of their checkpoints, torn increments and the     *)
(* activation of the supervision (WdgM_MainFunction, WdgM_SetMode).        *)
THEOREM HealthyAreLeftAlone ==
    ASSUME Schedulable
    PROVE  Spec => []HealthyUndisturbed
  <1>1. IInv /\ SupInv /\ HealthInv => HealthyUndisturbed
    <2>. SUFFICES ASSUME IInv, HealthInv, ~late
                  PROVE  Expired(entity) = {} /\ (subscribed \subseteq {Scheduler} => ~Bites)
      BY DEF HealthyUndisturbed
    <2>1. CalmInv
      BY DEF HealthInv
    <2>2. Expired(entity) = {}
      BY <2>1 DEF Expired, CalmInv, Fit
    <2>3. ASSUME subscribed \subseteq {Scheduler} PROVE unfed # timeout
      <3>1. unfed <= Ticks /\ Ticks <= Divider /\ Ticks \in Nat /\ Divider \in Nat
        BY <2>1, <2>3, SchedulerIs, Quantities DEF CalmInv
      <3>2. Divider < timeout /\ timeout \in Nat /\ unfed \in Nat
        BY WdgMAssumption DEF IInv, WdgTypeOK, Schedulable
      <3>. HIDE DEF Ticks
      <3>. QED  BY <3>1, <3>2
    <2>. QED  BY <2>2, <2>3 DEF Bites
  <1>2. IInv /\ SupInv /\ IInv' /\ HealthInv /\ [Next]_vars => HealthInv'
    BY StepHealthy
  <1>. QED  BY <1>1, <1>2, HealthInitially, SupervisionHolds, PTL DEF Spec

-----------------------------------------------------------------------------
(* Crash loops.  A tail of starts whose clocks were right, whose records   *)
(* were stored, that lie within a window and in none of which a loop was   *)
(* found, has been counted from its first start on, or from one at which a *)
(* window opened: that one comes before the count of the tail reached the  *)
(* limit.                                                                  *)

QuietFrom(k) ==
    /\ \A i \in k .. Len(starts) : starts[i].right /\ starts[i].stored /\ ~starts[i].loop
    /\ \A i, j \in k .. Len(starts) : starts[i].day - starts[j].day <= Window

Dated == \A i \in 1 .. Len(starts) : starts[i].day \in FirstDay .. today

Marked ==
    Len(starts) > 0 /\ starts[Len(starts)].stored
        => (starts[Len(starts)].loop <=> info.count >= Count)

CountedSince(k) ==
    \/ info.count >= Len(starts) - k + 1
    \/ \E j \in k .. Len(starts) :
          /\ info.window = starts[j].day
          /\ info.count >= Len(starts) - j + 1
          /\ j - k <= Count - 1

QuietCounted == \A k \in 1 .. Len(starts) : QuietFrom(k) => CountedSince(k)

(* What is counted was stored, after the window had opened. *)
Backed == info.count <= Cardinality(StoredStarts(Len(starts)))

Opened ==
    \A k \in LatestStored(Len(starts), info.count) :
        starts[k].right => info.window # 0 /\ info.window <= starts[k].day

NotYet == phase \in Uncounted => ~status.loop

RecordInv ==
    /\ Dated /\ Marked /\ QuietCounted /\ Backed /\ Opened /\ NotYet
    /\ LoopDetected /\ LoopIsReal

LEMMA Numbers ==
    ASSUME IInv
    PROVE  /\ Len(starts) \in Nat /\ Count \in Nat /\ Count >= 1 /\ Window \in Nat
           /\ info.count \in Nat /\ info.window \in Nat /\ info.window <= today
           /\ today \in Nat /\ FirstDay \in Nat /\ FirstDay > 0 /\ FirstDay <= today
           /\ Enough \in Nat /\ Enough = 2 * Count - 1 /\ Enough >= 1
           /\ \A i \in 1 .. Len(starts) : starts[i] \in Start
  <1>1. Count \in Nat /\ Count >= 1 /\ Window \in Nat
    BY EcuMAssumption
  <1>2. today \in Nat /\ FirstDay \in Nat /\ FirstDay > 0 /\ FirstDay <= today
    BY TimeAbsAssumption DEF IInv, TimeInv
  <1>3. starts \in Seq(Start)
    BY DEF IInv, BootInv
  <1>4. info.count \in Nat /\ info.window \in Nat /\ info.window <= today
    <2>1. info.count \in 0 .. boots /\ info.window \in 0 .. today
      BY DEF IInv, BootInv
    <2>. QED  BY <1>2, <2>1
  <1>5. Len(starts) \in Nat /\ \A i \in 1 .. Len(starts) : starts[i] \in Start
    BY <1>3
  <1>. QED  BY <1>1, <1>2, <1>4, <1>5 DEF Enough

LEMMA StartIs ==
    ASSUME NEW s \in Start
    PROVE  s.day \in Nat /\ s.right \in BOOLEAN /\ s.loop \in BOOLEAN /\ s.stored \in BOOLEAN
  <1>1. s.day \in 0 .. LastDay /\ LastDay \in Nat
    BY TimeAbsAssumption DEF Start
  <1>. QED  BY <1>1 DEF Start

(* The detection of loops, by positions. *)
LEMMA DetectedIs ==
    LoopDetected <=>
        \A i \in 1 .. Len(starts) - Enough + 1 :
           (\A j, k \in i .. i + Enough - 1 :
               starts[j].right /\ starts[j].stored /\ starts[j].day - starts[k].day <= Window)
           => \E j \in i .. i + Enough - 1 : starts[j].loop
  BY DEF LoopDetected

LEMMA StoredFinite ==
    ASSUME NEW n \in Nat
    PROVE  /\ IsFiniteSet(StoredStarts(n))
           /\ \A k : /\ IsFiniteSet({j \in StoredStarts(n) : j >= k})
                     /\ Cardinality({j \in StoredStarts(n) : j >= k}) \in Nat
           /\ Cardinality(StoredStarts(n)) \in Nat
  <1>1. IsFiniteSet(1 .. n)
    BY FS_Interval
  <1>2. StoredStarts(n) \in SUBSET (1 .. n)
    BY DEF StoredStarts
  <1>3. IsFiniteSet(StoredStarts(n))
    BY <1>1, <1>2, FS_Subset
  <1>4. ASSUME NEW k PROVE IsFiniteSet({j \in StoredStarts(n) : j >= k})
    <2>1. {j \in StoredStarts(n) : j >= k} \in SUBSET StoredStarts(n)
      OBVIOUS
    <2>. QED  BY <1>3, <2>1, FS_Subset
  <1>. QED  BY <1>3, <1>4, FS_CardinalityType

(* A start that is among the latest none is not there. *)
LEMMA LatestNone ==
    ASSUME NEW n \in Nat
    PROVE  LatestStored(n, 0) = {}
  <1>. SUFFICES ASSUME NEW k \in LatestStored(n, 0) PROVE FALSE
    OBVIOUS
  <1>. DEFINE T == {j \in StoredStarts(n) : j >= k}
  <1>1. k \in StoredStarts(n) /\ Cardinality(T) <= 0
    BY DEF LatestStored
  <1>2. k \in Nat
    BY <1>1 DEF StoredStarts
  <1>3. k \in T
    BY <1>1, <1>2
  <1>4. IsFiniteSet(T) /\ Cardinality(T) \in Nat
    BY StoredFinite
  <1>. HIDE DEF T
  <1>5. T = {}
    BY <1>1, <1>4, FS_EmptySet
  <1>. QED  BY <1>3, <1>5

(* What a start appends. *)
Appended ==
    /\ Len(starts') = Len(starts) + 1
    /\ \A i \in 1 .. Len(starts) : starts'[i] = starts[i]
    /\ starts'[Len(starts) + 1].day = today
    /\ starts'[Len(starts) + 1].right <=> clock.valid /\ Reading = today
    /\ starts'[Len(starts) + 1].loop <=> Counted.count >= Count
    /\ starts'[Len(starts) + 1].stored <=> info' = Counted
    /\ info' = Counted \/ info' = info
    /\ status'.loop <=> Counted.count >= Count
    /\ today' = today

LEMMA EvaluationAppends ==
    ASSUME IInv, EvaluateCrashLoop, "nvm" \in status.up
    PROVE  Appended
  <1>. DEFINE loop == Counted.count >= Count
              new == [day |-> today, right |-> clock.valid /\ Reading = today,
                      loop |-> loop, stored |-> info' = Counted]
  <1>1. /\ status' = [status EXCEPT !.loop = loop, !.degraded = Degraded(loop)]
        /\ info' = Counted \/ info' = info
        /\ starts' = Append(starts, new) /\ UNCHANGED timeVars
    BY DEF EvaluateCrashLoop
  <1>2. starts \in Seq(Start) /\ status \in [degraded : SUBSET Subsystems, loop : BOOLEAN, up : SUBSET Devices]
    BY DEF IInv, BootInv
  <1>3. /\ new.day = today /\ new.right = (clock.valid /\ Reading = today)
        /\ new.loop = loop /\ new.stored = (info' = Counted)
    OBVIOUS
  <1>4. status'.loop = loop
    <2>. HIDE DEF loop
    <2>. QED  BY <1>1, <1>2
  <1>. HIDE DEF new
  <1>5. /\ Len(starts') = Len(starts) + 1 /\ starts'[Len(starts) + 1] = new
        /\ \A i \in 1 .. Len(starts) : starts'[i] = starts[i]
    BY <1>1, <1>2
  <1>6. today' = today
    BY <1>1 DEF timeVars
  <1>. QED  BY <1>1, <1>3, <1>4, <1>5, <1>6 DEF Appended

(* The count, in numbers. *)
LEMMA CountedCases ==
    ASSUME IInv
    PROVE  /\ WindowExpired => Counted.count = 1 /\ Counted.window = Reading
           /\ ~WindowExpired => /\ Counted.count = info.count + 1
                                /\ info.window = 0 => Counted.window = Reading
                                /\ info.window # 0 => Counted.window = info.window
           /\ clock.valid /\ Reading = today
                => (WindowExpired <=> info.window # 0 /\ today - info.window > Window)
           /\ Counted.count \in Nat /\ Counted.count >= 1 /\ Counted.count <= info.count + 1
  <1>1. info.count \in Nat /\ info.window \in Nat /\ info.window <= today /\ today \in Nat /\ Window \in Nat
    BY Numbers
  <1>2. CASE WindowExpired
    <2>1. Counted.count = 1 /\ Counted.window = Reading
      BY <1>2 DEF Counted
    <2>2. clock.valid /\ info.window # 0 /\ Reading - info.window \notin 0 .. Window
      BY <1>2 DEF WindowExpired
    <2>3. Reading = today => today - info.window > Window
      BY <1>1, <2>2
    <2>. QED  BY <1>1, <1>2, <2>1, <2>2, <2>3
  <1>3. CASE ~WindowExpired
    <2>1. /\ Counted.count = info.count + 1
          /\ info.window = 0 => Counted.window = Reading
          /\ info.window # 0 => Counted.window = info.window
      BY <1>3 DEF Counted
    <2>2. ASSUME clock.valid, Reading = today, info.window # 0
          PROVE  ~(today - info.window > Window)
      <3>1. today - info.window \in 0 .. Window
        BY <1>3, <2>2 DEF WindowExpired
      <3>. QED  BY <1>1, <3>1
    <2>. QED  BY <1>1, <1>3, <2>1, <2>2
  <1>. QED  BY <1>2, <1>3

LEMMA QuietStep ==
    ASSUME IInv, RecordInv, Appended
    PROVE  QuietCounted'
  <1>. DEFINE n == Len(starts)
  <1>0. /\ n \in Nat /\ Count \in Nat /\ Count >= 1 /\ Window \in Nat
        /\ info.count \in Nat /\ info.window \in Nat /\ info.window <= today /\ today \in Nat
        /\ FirstDay \in Nat /\ FirstDay > 0
    BY Numbers
  <1>1. /\ Len(starts') = n + 1 /\ today' = today
        /\ \A i \in 1 .. n : starts'[i] = starts[i]
        /\ starts'[n + 1].day = today
        /\ starts'[n + 1].right <=> clock.valid /\ Reading = today
        /\ starts'[n + 1].loop <=> Counted.count >= Count
        /\ starts'[n + 1].stored <=> info' = Counted
    BY DEF Appended
  <1>2. \A i \in 1 .. n : starts[i] \in Start /\ starts[i].day \in Nat
                          /\ starts[i].day <= today /\ starts[i].day > 0
    <2>1. \A i \in 1 .. n : starts[i].day \in FirstDay .. today
      BY DEF RecordInv, Dated
    <2>. QED  BY <1>0, <2>1, Numbers
  <1>. SUFFICES ASSUME NEW k \in 1 .. n + 1, QuietFrom(k)'
                PROVE  CountedSince(k)'
    BY <1>1 DEF QuietCounted
  <1>3. /\ \A i \in k .. n + 1 : starts'[i].right /\ starts'[i].stored /\ ~starts'[i].loop
        /\ \A i, j \in k .. n + 1 : starts'[i].day - starts'[j].day <= Window
    BY <1>1 DEF QuietFrom
  <1>. HIDE DEF n
  <1>4. n + 1 \in k .. n + 1 /\ k \in Nat /\ 1 <= k
    BY <1>0
  <1>5. info' = Counted /\ clock.valid /\ Reading = today
    BY <1>1, <1>3, <1>4
  <1>6. /\ WindowExpired => info'.count = 1 /\ info'.window = today
        /\ ~WindowExpired => /\ info'.count = info.count + 1
                             /\ info.window # 0 => info'.window = info.window
        /\ WindowExpired <=> info.window # 0 /\ today - info.window > Window
        /\ info'.count \in Nat /\ info'.count >= 1
    <2>. HIDE DEF WindowExpired, Counted, Reading
    <2>. QED  BY <1>5, CountedCases
  <1>7. SUFFICES \/ info'.count >= n + 1 - k + 1
                 \/ \E j \in k .. n + 1 :
                       /\ info'.window = starts'[j].day
                       /\ info'.count >= n + 1 - j + 1
                       /\ j - k <= Count - 1
    BY <1>1 DEF CountedSince, n
  <1>8. CASE k = n + 1
    <2>1. n + 1 - k + 1 = 1
      BY <1>0, <1>8
    <2>. QED  BY <1>6, <2>1
  <1>9. CASE k <= n
    <2>1. QuietFrom(k)
      <3>1. \A i \in k .. n : i \in 1 .. n /\ i \in k .. n + 1
        BY <1>0, <1>4
      <3>2. \A i \in k .. n : starts[i].right /\ starts[i].stored /\ ~starts[i].loop
        BY <1>1, <1>3, <3>1
      <3>3. \A i, j \in k .. n : starts[i].day - starts[j].day <= Window
        BY <1>1, <1>3, <3>1
      <3>. QED  BY <3>2, <3>3 DEF QuietFrom, n
    <2>2. CountedSince(k)
      <3>1. k \in 1 .. Len(starts)
        BY <1>0, <1>4, <1>9 DEF n
      <3>. QED  BY <2>1, <3>1 DEF RecordInv, QuietCounted
    <2>3. info.count < Count
      <3>1. n > 0 /\ n \in k .. n
        BY <1>0, <1>4, <1>9
      <3>2. starts[n].stored /\ ~starts[n].loop
        BY <2>1, <3>1 DEF QuietFrom, n
      <3>3. starts[n].loop <=> info.count >= Count
        BY <3>1, <3>2 DEF RecordInv, Marked, n
      <3>. QED  BY <1>0, <3>2, <3>3
    <2>4. CASE info.count >= n - k + 1
      <3>1. CASE WindowExpired
        <4>1. PICK m \in k .. n + 1 : m = n + 1
          BY <1>4
        <4>2. info'.window = starts'[m].day
          BY <1>1, <1>6, <3>1, <4>1
        <4>3. info'.count >= n + 1 - m + 1 /\ m - k <= Count - 1
          BY <1>0, <1>4, <1>6, <2>3, <2>4, <3>1, <4>1
        <4>. QED  BY <4>2, <4>3
      <3>2. CASE ~WindowExpired
        <4>1. info'.count >= n + 1 - k + 1
          BY <1>0, <1>4, <1>6, <2>4, <3>2
        <4>. QED  BY <4>1
      <3>. QED  BY <3>1, <3>2
    <2>5. ASSUME NEW j \in k .. n, info.window = starts[j].day,
                 info.count >= n - j + 1, j - k <= Count - 1
          PROVE  \E i \in k .. n + 1 :
                       /\ info'.window = starts'[i].day
                       /\ info'.count >= n + 1 - i + 1
                       /\ i - k <= Count - 1
      <3>1. j \in 1 .. n /\ j \in k .. n + 1 /\ j \in Nat
        BY <1>0, <1>4
      <3>2. starts'[j] = starts[j] /\ starts[j].day > 0
        BY <1>1, <1>2, <3>1
      <3>3. starts'[n + 1].day - starts'[j].day <= Window
        BY <1>3, <1>4, <3>1
      <3>4. today - info.window <= Window /\ info.window # 0
        BY <1>1, <2>5, <3>2, <3>3
      <3>5. ~WindowExpired
        <4>. HIDE DEF WindowExpired
        <4>. QED  BY <1>0, <1>6, <3>4
      <3>6. info'.window = starts'[j].day /\ info'.count = info.count + 1
        BY <1>6, <2>5, <3>2, <3>4, <3>5
      <3>7. info'.count >= n + 1 - j + 1
        BY <1>0, <2>5, <3>1, <3>6
      <3>. QED  BY <2>5, <3>1, <3>6, <3>7
    <2>. QED  BY <2>2, <2>4, <2>5 DEF CountedSince, n
  <1>. QED  BY <1>0, <1>8, <1>9

LEMMA DetectedStep ==
    ASSUME IInv, RecordInv, Appended, QuietCounted'
    PROVE  LoopDetected'
  <1>. DEFINE n == Len(starts)
  <1>0. /\ n \in Nat /\ Count \in Nat /\ Count >= 1 /\ Enough \in Nat /\ Enough = 2 * Count - 1 /\ Enough >= 1
    BY Numbers
  <1>1. /\ Len(starts') = n + 1 /\ Enough' = Enough
        /\ \A i \in 1 .. n : starts'[i] = starts[i]
        /\ starts'[n + 1].loop <=> Counted.count >= Count
        /\ starts'[n + 1].stored <=> info' = Counted
    BY DEF Appended, Enough
  <1>. HIDE DEF n
  <1>. DEFINE Near(i) == \A j, k \in i .. i + Enough - 1 :
                            starts'[j].right /\ starts'[j].stored
                            /\ starts'[j].day - starts'[k].day <= Window
              Found(i) == \E j \in i .. i + Enough - 1 : starts'[j].loop
  <1>2. ASSUME NEW i \in 1 .. n + 1 - Enough + 1, Near(i)
        PROVE  Found(i)
    <2>1. i \in Nat /\ 1 <= i /\ i + Enough - 1 <= n + 1 /\ i <= n + 1
      BY <1>0
    <2>2. CASE i + Enough - 1 <= n
      <3>1. \A j \in i .. i + Enough - 1 : j \in 1 .. n
        BY <1>0, <2>1, <2>2
      <3>2. i \in 1 .. n - Enough + 1
        BY <1>0, <2>1, <2>2
      <3>3. \A j, k \in i .. i + Enough - 1 :
               starts[j].right /\ starts[j].stored /\ starts[j].day - starts[k].day <= Window
        BY <1>1, <1>2, <3>1
      <3>4. \E j \in i .. i + Enough - 1 : starts[j].loop
        BY <3>2, <3>3, DetectedIs DEF RecordInv, n
      <3>. QED  BY <1>1, <3>1, <3>4
    <2>3. CASE i + Enough - 1 = n + 1
      <3>. SUFFICES ASSUME \A j \in i .. n + 1 : ~starts'[j].loop PROVE FALSE
        BY <2>3
      <3>1. QuietFrom(i)'
        BY <1>1, <1>2, <2>3 DEF QuietFrom
      <3>2. i \in 1 .. Len(starts')
        BY <1>0, <1>1, <2>1
      <3>3. CountedSince(i)'
        BY <3>1, <3>2 DEF QuietCounted
      <3>4. \/ info'.count >= Len(starts') - i + 1
            \/ \E j \in i .. Len(starts') : info'.count >= Len(starts') - j + 1 /\ j - i <= Count - 1
        BY <3>3 DEF CountedSince
      <3>5. n + 1 \in i .. n + 1
        BY <1>0, <2>1
      <3>6. info' = Counted /\ ~(Counted.count >= Count) /\ Counted.count \in Nat
        BY <1>1, <1>2, <2>3, <3>5, CountedCases
      <3>7. info'.count < Count /\ info'.count \in Nat
        BY <1>0, <3>6
      <3>8. ~(info'.count >= n + 1 - i + 1)
        BY <1>0, <2>1, <2>3, <3>7
      <3>9. ASSUME NEW j \in i .. n + 1, info'.count >= n + 1 - j + 1, j - i <= Count - 1
            PROVE  FALSE
        BY <1>0, <2>1, <2>3, <3>7, <3>9
      <3>. QED  BY <1>0, <1>1, <2>1, <3>4, <3>8, <3>9
    <2>. QED  BY <1>0, <2>1, <2>2, <2>3
  <1>3. LoopDetected' <=> \A i \in 1 .. Len(starts') - Enough + 1 : Near(i) => Found(i)
    BY <1>1 DEF LoopDetected
  <1>. HIDE DEF Near, Found
  <1>. QED  BY <1>0, <1>1, <1>2, <1>3

LEMMA MarkedStep ==
    ASSUME IInv, RecordInv, Appended
    PROVE  Dated' /\ Marked'
  <1>1. /\ Len(starts) \in Nat /\ today \in Nat /\ FirstDay \in Nat /\ FirstDay <= today
    BY Numbers
  <1>2. /\ Len(starts') = Len(starts) + 1 /\ today' = today
        /\ \A i \in 1 .. Len(starts) : starts'[i] = starts[i]
        /\ starts'[Len(starts) + 1].day = today
        /\ starts'[Len(starts) + 1].loop <=> Counted.count >= Count
        /\ starts'[Len(starts) + 1].stored <=> info' = Counted
    BY DEF Appended
  <1>3. Dated'
    <2>. SUFFICES ASSUME NEW i \in 1 .. Len(starts) + 1 PROVE starts'[i].day \in FirstDay .. today
      BY <1>2 DEF Dated
    <2>1. CASE i = Len(starts) + 1
      BY <1>1, <1>2, <2>1
    <2>2. CASE i # Len(starts) + 1
      <3>1. i \in 1 .. Len(starts)
        BY <1>1, <2>2
      <3>. QED  BY <1>2, <3>1 DEF RecordInv, Dated
    <2>. QED  BY <2>1, <2>2
  <1>4. Marked'
    BY <1>2 DEF Marked
  <1>. QED  BY <1>3, <1>4

(* The stored starts behind a start that was appended. *)
LEMMA StoredAppended ==
    ASSUME IInv, Appended
    PROVE  /\ StoredStarts(Len(starts))' = StoredStarts(Len(starts)) \cup
                 (IF info' = Counted THEN {Len(starts) + 1} ELSE {})
           /\ {k \in 1 .. Len(starts) : starts'[k].stored} = StoredStarts(Len(starts))
           /\ Len(starts) + 1 \notin StoredStarts(Len(starts))
           /\ StoredStarts(Len(starts)) \subseteq 1 .. Len(starts)
  <1>. DEFINE n == Len(starts)
  <1>1. n \in Nat
    BY Numbers
  <1>2. /\ Len(starts') = n + 1
        /\ \A i \in 1 .. n : starts'[i] = starts[i]
        /\ starts'[n + 1].stored <=> info' = Counted
    BY DEF Appended
  <1>3. StoredStarts(n) = {k \in 1 .. n : starts[k].stored}
    BY DEF StoredStarts
  <1>4. StoredStarts(Len(starts))' = {k \in 1 .. n + 1 : starts'[k].stored}
    BY <1>2 DEF StoredStarts
  <1>. HIDE DEF n
  <1>5. 1 .. n + 1 = (1 .. n) \cup {n + 1} /\ n + 1 \notin 1 .. n
    BY <1>1
  <1>. QED  BY <1>2, <1>3, <1>4, <1>5 DEF n

LEMMA OpenedStep ==
    ASSUME IInv, RecordInv, Appended
    PROVE  Backed' /\ Opened'
  <1>. DEFINE n == Len(starts)
              S == StoredStarts(n)
  <1>0. /\ n \in Nat /\ info.count \in Nat /\ info.window \in Nat /\ info.window <= today
        /\ today \in Nat /\ today > 0 /\ Window \in Nat
    BY Numbers
  <1>1. /\ Len(starts') = n + 1
        /\ \A i \in 1 .. n : starts'[i] = starts[i]
        /\ starts'[n + 1].day = today
        /\ starts'[n + 1].right <=> clock.valid /\ Reading = today
        /\ info' = Counted \/ info' = info
        /\ StoredStarts(Len(starts))' = S \cup (IF info' = Counted THEN {n + 1} ELSE {})
        /\ n + 1 \notin S /\ S \subseteq 1 .. n
    <2>1. Len(starts)' = n + 1
      BY DEF Appended
    <2>. QED  BY <2>1, StoredAppended DEF Appended
  <1>2. /\ IsFiniteSet(S) /\ Cardinality(S) \in Nat
        /\ \A k : IsFiniteSet({j \in S : j >= k}) /\ Cardinality({j \in S : j >= k}) \in Nat
    BY <1>0, StoredFinite
  <1>3. info.count <= Cardinality(S)
    BY DEF RecordInv, Backed
  <1>4. \A k \in S : Cardinality({j \in S : j >= k}) <= info.count /\ starts[k].right
                       => info.window # 0 /\ info.window <= starts[k].day
    BY DEF RecordInv, Opened, LatestStored
  <1>. DEFINE T == StoredStarts(Len(starts))'
  <1>5. Backed' <=> info'.count <= Cardinality(T)
    BY <1>1 DEF Backed
  <1>6. Opened' <=> \A k \in T : Cardinality({j \in T : j >= k}) <= info'.count
                                   => (starts'[k].right => info'.window # 0 /\ info'.window <= starts'[k].day)
    <2>1. LatestStored(Len(starts), info.count)' =
             {k \in T : Cardinality({j \in T : j >= k}) <= info'.count}
      BY <1>1 DEF LatestStored
    <2>. HIDE DEF T
    <2>. QED  BY <2>1 DEF Opened
  <1>. HIDE DEF n, S, T
  <1>7. CASE info' # Counted
    <2>1. T = S /\ info' = info
      BY <1>1, <1>7 DEF T
    <2>2. \A k \in S : starts'[k] = starts[k]
      BY <1>1
    <2>. QED  BY <1>3, <1>4, <1>5, <1>6, <2>1, <2>2
  <1>8. CASE info' = Counted
    <2>1. T = S \cup {n + 1}
      BY <1>1, <1>8 DEF T
    <2>2. Cardinality(T) = Cardinality(S) + 1
      BY <1>1, <1>2, <2>1, FS_AddElement
    <2>3. Backed'
      <3>1. Counted.count \in Nat /\ Counted.count <= info.count + 1
        BY CountedCases
      <3>. QED  BY <1>0, <1>2, <1>3, <1>5, <1>8, <2>2, <3>1
    <2>4. ASSUME NEW k \in T, Cardinality({j \in T : j >= k}) <= info'.count, starts'[k].right
          PROVE  info'.window # 0 /\ info'.window <= starts'[k].day
      <3>1. CASE k = n + 1
        <4>1. clock.valid /\ Reading = today /\ starts'[k].day = today
          BY <1>1, <2>4, <3>1
        <4>2. info'.window = today \/ (info.window # 0 /\ info'.window = info.window)
          <5>. HIDE DEF WindowExpired, Counted, Reading
          <5>. QED  BY <1>8, <4>1, CountedCases
        <4>. QED  BY <1>0, <4>1, <4>2
      <3>2. CASE k # n + 1
        <4>1. k \in S /\ k \in Nat /\ k <= n /\ starts'[k] = starts[k]
          BY <1>0, <1>1, <2>1, <3>2
        <4>. DEFINE P == {j \in S : j >= k}
                    Q == {j \in T : j >= k}
        <4>2. Q = P \cup {n + 1} /\ n + 1 \notin P /\ k \in P
          BY <1>0, <1>1, <2>1, <4>1
        <4>3. IsFiniteSet(P) /\ Cardinality(P) \in Nat /\ Cardinality(Q) <= info'.count
          BY <1>2, <2>4
        <4>. HIDE DEF P, Q
        <4>4. Cardinality(P) + 1 <= info'.count
          BY <4>2, <4>3, FS_AddElement
        <4>5. Cardinality(P) # 0
          BY <4>2, <4>3, FS_EmptySet
        <4>6. ~WindowExpired /\ info'.count = info.count + 1
          <5>1. /\ WindowExpired => info'.count = 1
                /\ ~WindowExpired => info'.count = info.count + 1
            <6>. HIDE DEF WindowExpired, Counted
            <6>. QED  BY <1>8, CountedCases
          <5>. QED  BY <4>3, <4>4, <4>5, <5>1
        <4>7. info.window # 0 /\ info.window <= starts[k].day
          <5>1. Cardinality(P) <= info.count
            BY <1>0, <4>3, <4>4, <4>6
          <5>. QED  BY <1>4, <2>4, <4>1, <5>1 DEF P
        <4>8. info'.window = info.window
          <5>. HIDE DEF WindowExpired, Counted
          <5>. QED  BY <1>8, <4>6, <4>7, CountedCases
        <4>. QED  BY <4>1, <4>7, <4>8
      <3>. QED  BY <3>1, <3>2
    <2>. QED  BY <1>6, <2>3, <2>4
  <1>. QED  BY <1>7, <1>8

LEMMA RealStep ==
    ASSUME IInv, RecordInv, Appended
    PROVE  LoopIsReal'
  <1>. DEFINE n == Len(starts)
              S == StoredStarts(n)
              L == LatestStored(n, Count - 1)
  <1>0. /\ n \in Nat /\ Count \in Nat /\ Count >= 1 /\ Window \in Nat
        /\ info.count \in Nat /\ info.window \in Nat /\ today \in Nat
    BY Numbers
  <1>1. /\ Len(starts') = n + 1 /\ n + 1 - 1 = n
        /\ \A i \in 1 .. n : starts'[i] = starts[i]
        /\ starts'[n + 1].day = today
        /\ starts'[n + 1].right <=> clock.valid /\ Reading = today
        /\ status'.loop <=> Counted.count >= Count
    BY <1>0 DEF Appended
  <1>2. Len(starts') - 1 = n
    BY <1>0, <1>1
  <1>3. StoredStarts(Len(starts) - 1)' = S
    BY <1>2, StoredAppended DEF StoredStarts
  <1>4. LatestStored(Len(starts) - 1, Count - 1)' = L
    BY <1>3 DEF LatestStored
  <1>5. L = {k \in S : Cardinality({j \in S : j >= k}) <= Count - 1} /\ S \subseteq 1 .. n
    BY StoredAppended DEF LatestStored
  <1>6. Cardinality(S) \in Nat /\ \A k : Cardinality({j \in S : j >= k}) \in Nat
    BY <1>0, StoredFinite
  <1>7. info.count <= Cardinality(S)
    BY DEF RecordInv, Backed
  <1>8. \A k \in S : Cardinality({j \in S : j >= k}) <= info.count /\ starts[k].right
                       => info.window # 0 /\ info.window <= starts[k].day
    BY DEF RecordInv, Opened, LatestStored
  <1>9. LoopIsReal' <=>
          (status'.loop =>
              /\ Cardinality(S) >= Count - 1
              /\ (\A k \in L : starts'[k].right) /\ starts'[n + 1].right
                    => \A k \in L : starts'[n + 1].day - starts'[k].day <= Window)
    BY <1>1, <1>3, <1>4 DEF LoopIsReal
  <1>. SUFFICES ASSUME status'.loop
                PROVE  /\ Cardinality(S) >= Count - 1
                       /\ (\A k \in L : starts'[k].right) /\ starts'[n + 1].right
                             => \A k \in L : starts'[n + 1].day - starts'[k].day <= Window
    BY <1>9
  <1>. HIDE DEF n, S
  <1>10. Counted.count >= Count
    BY <1>1
  <1>11. CASE WindowExpired
    <2>1. Count = 1
      BY <1>0, <1>10, <1>11, CountedCases
    <2>2. L = {}
      BY <1>0, <2>1, LatestNone
    <2>. QED  BY <1>6, <2>1, <2>2
  <1>12. CASE ~WindowExpired
    <2>1. info.count >= Count - 1
      <3>1. Counted.count = info.count + 1
        BY <1>12, CountedCases
      <3>. QED  BY <1>0, <1>10, <3>1
    <2>2. Cardinality(S) >= Count - 1
      BY <1>0, <1>6, <1>7, <2>1
    <2>3. ASSUME NEW k \in L, starts'[k].right, starts'[n + 1].right
          PROVE  starts'[n + 1].day - starts'[k].day <= Window
      <3>1. k \in S /\ starts'[k] = starts[k] /\ k \in 1 .. n /\ Cardinality({j \in S : j >= k}) <= info.count
        <4>. DEFINE c == Cardinality({j \in S : j >= k})
        <4>1. k \in S /\ c <= Count - 1 /\ c \in Nat
          BY <1>5, <1>6
        <4>2. k \in 1 .. n
          BY <1>5
        <4>. HIDE DEF c
        <4>3. c <= info.count
          BY <1>0, <2>1, <4>1
        <4>. QED  BY <1>1, <4>1, <4>2, <4>3 DEF c
      <3>2. info.window # 0 /\ info.window <= starts[k].day
        BY <1>8, <2>3, <3>1
      <3>3. ~(today - info.window > Window)
        <4>1. clock.valid /\ Reading = today
          BY <1>1, <2>3
        <4>. HIDE DEF WindowExpired, Reading
        <4>. QED  BY <1>12, <3>2, <4>1, CountedCases
      <3>4. starts[k].day \in Nat
        BY <3>1, Numbers, StartIs DEF n
      <3>. QED  BY <1>0, <1>1, <3>1, <3>2, <3>3, <3>4
    <2>. HIDE DEF L
    <2>. QED  BY <2>2, <2>3
  <1>. QED  BY <1>11, <1>12

(* The record is left alone, or cleared. *)
LEMMA RecordStays ==
    ASSUME IInv, RecordInv, info' = info, starts' = starts,
           today' \in Nat, today <= today', status'.loop = status.loop \/ ~status'.loop,
           phase' \in Uncounted => phase \in Uncounted \/ ~status'.loop
    PROVE  RecordInv'
  <1>1. /\ Len(starts) \in Nat /\ today \in Nat /\ FirstDay \in Nat
    BY Numbers
  <1>2. Dated'
    <2>1. FirstDay .. today \subseteq FirstDay .. today'
      BY <1>1
    <2>. QED  BY <2>1 DEF RecordInv, Dated
  <1>3. Marked' /\ QuietCounted' /\ Backed' /\ Opened' /\ LoopDetected'
    BY DEF RecordInv, Marked, QuietCounted, CountedSince, QuietFrom, Backed, Opened,
           StoredStarts, LatestStored, LoopDetected, Enough
  <1>4. NotYet' /\ LoopIsReal'
    BY DEF RecordInv, NotYet, LoopIsReal, StoredStarts, LatestStored
  <1>. QED  BY <1>2, <1>3, <1>4 DEF RecordInv

LEMMA RecordCleared ==
    ASSUME starts' = <<>>, info'.count = 0, ~status'.loop
    PROVE  RecordInv'
  <1>1. Len(starts') = 0 /\ Enough \in Nat /\ Enough >= 1 /\ Enough' = Enough
    BY EcuMAssumption DEF Enough
  <1>2. StoredStarts(Len(starts))' = {}
    BY <1>1 DEF StoredStarts
  <1>3. Dated' /\ Marked' /\ QuietCounted'
    BY <1>1 DEF Dated, Marked, QuietCounted
  <1>4. Backed' /\ Opened'
    <2>1. Backed'
      BY <1>2, FS_EmptySet DEF Backed
    <2>2. LatestStored(Len(starts), info.count)' = {}
      BY <1>2 DEF LatestStored
    <2>. QED  BY <2>1, <2>2 DEF Opened
  <1>5. LoopDetected'
    <2>1. 1 .. Len(starts') - Enough' + 1 = {}
      BY <1>1
    <2>. QED  BY <2>1 DEF LoopDetected
  <1>6. NotYet' /\ LoopIsReal'
    BY DEF NotYet, LoopIsReal
  <1>. QED  BY <1>3, <1>4, <1>5, <1>6 DEF RecordInv

LEMMA RecordInitially == Init => RecordInv
  <1>. SUFFICES ASSUME Init PROVE RecordInv
    OBVIOUS
  <1>0. starts = <<>> /\ info.count = 0 /\ ~status.loop
    BY DEF Init, NoStatus
  <1>1. Len(starts) = 0 /\ Enough \in Nat /\ Enough >= 1
    BY <1>0, EcuMAssumption DEF Enough
  <1>2. StoredStarts(Len(starts)) = {}
    BY <1>1 DEF StoredStarts
  <1>3. Dated /\ Marked /\ QuietCounted
    BY <1>1 DEF Dated, Marked, QuietCounted
  <1>4. Backed /\ Opened
    <2>1. Backed
      BY <1>0, <1>2, FS_EmptySet DEF Backed
    <2>2. LatestStored(Len(starts), info.count) = {}
      BY <1>2 DEF LatestStored
    <2>. QED  BY <2>1, <2>2 DEF Opened
  <1>5. LoopDetected
    <2>1. 1 .. Len(starts) - Enough + 1 = {}
      BY <1>1
    <2>. QED  BY <2>1 DEF LoopDetected
  <1>6. NotYet /\ LoopIsReal
    BY <1>0 DEF NotYet, LoopIsReal
  <1>. QED  BY <1>3, <1>4, <1>5, <1>6 DEF RecordInv

LEMMA EvaluationRecords ==
    ASSUME IInv, RecordInv, EvaluateCrashLoop
    PROVE  RecordInv'
  <1>1. /\ phase' \notin Uncounted /\ UNCHANGED timeVars /\ today' = today /\ today \in Nat
    BY Numbers DEF EvaluateCrashLoop, At, Uncounted, timeVars
  <1>2. CASE "nvm" \notin status.up
    <2>1. UNCHANGED <<info, status, starts>>
      BY <1>2 DEF EvaluateCrashLoop
    <2>. QED  BY <1>1, <2>1, RecordStays
  <1>3. CASE "nvm" \in status.up
    <2>1. Appended
      BY <1>3, EvaluationAppends
    <2>2. NotYet'
      BY <1>1 DEF NotYet
    <2>. QED  BY <2>1, <2>2, QuietStep, DetectedStep, MarkedStep, OpenedStep, RealStep DEF RecordInv
  <1>. QED  BY <1>2, <1>3

LEMMA StepRecords ==
    ASSUME IInv, IInv', RecordInv, [Next]_vars
    PROVE  RecordInv'
  <1>1. /\ today \in Nat /\ today' \in Nat
        /\ status \in [degraded : SUBSET Subsystems, loop : BOOLEAN, up : SUBSET Devices]
    <2>1. today \in FirstDay .. LastDay /\ today' \in FirstDay .. LastDay
      BY DEF IInv, TimeInv
    <2>2. status \in [degraded : SUBSET Subsystems, loop : BOOLEAN, up : SUBSET Devices]
      BY DEF IInv, BootInv
    <2>. QED  BY <2>1, <2>2, TimeAbsAssumption
  <1>2. CASE EvaluateCrashLoop
    BY <1>2, EvaluationRecords
  <1>3. CASE CreateFails \/ ShutdownEnds \/ Bite \/ Reset
    <2>1. \E why, to : Restart(why, to)
      BY <1>3 DEF CreateFails, ShutdownEnds, Bite, Reset
    <2>2. info' = info /\ starts' = starts /\ today' = today /\ ~status'.loop
      BY <2>1 DEF Restart, RestartTime, NoStatus
    <2>. QED  BY <1>1, <2>2, RecordStays
  <1>4. CASE ClearCrashLoopCounter
    <2>1. starts' = <<>> /\ info'.count = 0 /\ ~status'.loop
      BY <1>1, <1>4 DEF ClearCrashLoopCounter
    <2>. QED  BY <2>1, RecordCleared
  <1>5. CASE InitMemory
    <2>1. /\ phase \in Uncounted /\ today' = today /\ ~status.loop
          /\ status'.loop = status.loop
      BY <1>1, <1>5 DEF InitMemory, At, Uncounted, timeVars, RecordInv, NotYet
    <2>2. CASE info' = info /\ starts' = starts
      BY <1>1, <2>1, <2>2, RecordStays
    <2>3. CASE info' = [count |-> 0, window |-> 0] /\ starts' = <<>>
      BY <2>1, <2>3, RecordCleared
    <2>. QED  BY <1>5, <2>2, <2>3 DEF InitMemory
  <1>6. CASE InitDrivers \/ InitClock \/ InitSensors \/ InitServices
    <2>1. /\ info' = info /\ starts' = starts /\ today' = today
          /\ phase' \in Uncounted => phase \in Uncounted
      BY <1>6 DEF InitDrivers, InitClock, InitSensors, InitServices, At, Uncounted, timeVars,
                  StartClock, StartClockFails
    <2>2. status'.loop = status.loop
      BY <1>1, <1>6 DEF InitDrivers, InitClock, InitSensors, InitServices, InitDevices
    <2>. QED  BY <1>1, <2>1, <2>2, RecordStays
  <1>7. CASE StartTask \/ Supervise \/ Shutdown \/ PowerOn
    <2>1. /\ info' = info /\ starts' = starts /\ today' = today /\ status' = status
          /\ phase' \in Uncounted => phase \in Uncounted
      BY <1>7 DEF StartTask, Supervise, Shutdown, PowerOn, At, Uncounted, timeVars
    <2>. QED  BY <1>1, <2>1, RecordStays
  <1>8. CASE TaskStep \/ TaskFault \/ TimeStep \/ UNCHANGED vars
    <2>1. info' = info /\ starts' = starts /\ today' = today /\ status' = status /\ phase' = phase
      BY <1>8 DEF TaskStep, TaskFault, TimeStep, stillBoot, bootVars, timeVars, vars
    <2>. QED  BY <1>1, <2>1, RecordStays
  <1>9. CASE Day
    <2>1. info' = info /\ starts' = starts /\ status' = status /\ phase' = phase
      BY <1>9 DEF Day, bootVars
    <2>2. today' = today \/ today' = today + 1
      BY <1>9 DEF Day, DayPasses, OscillatorStops, Synchronise
    <2>. QED  BY <1>1, <2>1, <2>2, RecordStays
  <1>. QED  BY <1>2, <1>3, <1>4, <1>5, <1>6, <1>7, <1>8, <1>9 DEF Next, Boot

(* Crash loops are found and are real, for every limit and window: of      *)
(* 2 * Count - 1 starts in one window, right and stored, one finds a loop  *)
(* even where a window ends among them, and no start finds one that had    *)
(* not Count starts, itself included, within a window - whatever resets,   *)
(* failed writes, lost records and clocks that are not valid or set back   *)
(* come in between (EcuM_EvaluateCrashLoop).                               *)
THEOREM LoopsAreTold == Spec => []LoopsTold
  <1>1. IInv /\ IInv' /\ RecordInv /\ [Next]_vars => RecordInv'
    BY StepRecords
  <1>2. RecordInv => LoopsTold
    BY DEF RecordInv, LoopsTold
  <1>. QED  BY <1>1, <1>2, RecordInitially, InvariantHolds, PTL DEF Spec

===============================================================================
