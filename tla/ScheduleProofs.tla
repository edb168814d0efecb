----------------------------- MODULE ScheduleProofs -----------------------------
(***************************************************************************)
(* The calculation of the next run and the loop over it, for a clock of    *)
(* any size and any regular schedule of ascending lists.                   *)
(***************************************************************************)
EXTENDS MCLoop, ListProofs

-----------------------------------------------------------------------------
(* Division with remainder                                                   *)

LEMMA DivFacts ==
    ASSUME NEW n \in Nat, NEW k \in Nat \ {0}
    PROVE  /\ n \div k \in Nat
           /\ n % k \in 0 .. k - 1
           /\ n = (n \div k) * k + (n % k)
OBVIOUS

\* Two numbers of two digits each compare digit by digit.
LEMMA TwoDigits ==
    ASSUME NEW N \in Nat \ {0}, NEW a \in Nat, NEW b \in 0 .. N - 1,
           NEW c \in Nat, NEW d \in 0 .. N - 1
    PROVE  a * N + b < c * N + d <=> a < c \/ (a = c /\ b < d)
<1>1. ASSUME NEW x \in Nat, NEW y \in Nat, NEW u \in 0 .. N - 1, NEW v \in 0 .. N - 1, x < y
      PROVE  x * N + u < y * N + v
  <2>1. PICK e \in Nat : y = x + 1 + e
    <3>1. y - x - 1 \in Nat /\ y = x + 1 + (y - x - 1)
      BY <1>1
    <3> QED
      BY <3>1
  <2>2. y * N = x * N + N + e * N
    BY <2>1
  <2>3. e * N \in Nat /\ x * N \in Nat
    OBVIOUS
  <2> QED
    BY <2>2, <2>3
<1>2. a * N \in Nat
  OBVIOUS
<1> QED
  BY <1>1, <1>2

LEMMA DivUnique ==
    ASSUME NEW k \in Nat \ {0}, NEW q \in Nat, NEW r \in 0 .. k - 1
    PROVE  (q * k + r) \div k = q /\ (q * k + r) % k = r
<1> DEFINE n == q * k + r
<1>1. n \in Nat
  OBVIOUS
<1>2. /\ n \div k \in Nat
      /\ n % k \in 0 .. k - 1
      /\ n = (n \div k) * k + (n % k)
  BY <1>1, DivFacts
<1>3. n \div k = q
  BY <1>2, TwoDigits
<1> QED
  BY <1>2, <1>3

\* The upper digit of a number below N * L is below L.
LEMMA UpperDigit ==
    ASSUME NEW N \in Nat \ {0}, NEW L \in Nat \ {0}, NEW r \in 0 .. L * N - 1
    PROVE  r \div N \in 0 .. L - 1
<1>1. /\ r \in Nat
      /\ r \div N \in Nat
      /\ r % N \in 0 .. N - 1
      /\ r = (r \div N) * N + (r % N)
  BY DivFacts
<1>2. (r \div N) * N + (r % N) < L * N + 0
  BY <1>1
<1>3. r \div N < L
  BY <1>1, <1>2, TwoDigits
<1> QED
  BY <1>1, <1>3

LEMMA DigitRange ==
    ASSUME NEW N \in Nat \ {0}, NEW L \in Nat \ {0}, NEW a \in 0 .. L - 1, NEW b \in 0 .. N - 1
    PROVE  a * N + b \in 0 .. L * N - 1
<1>1. a * N + b < L * N + 0
  BY TwoDigits
<1>2. a * N \in Nat /\ L * N \in Nat
  OBVIOUS
<1> QED
  BY <1>1, <1>2

-----------------------------------------------------------------------------
(* The digits of a moment                                                    *)

Tm == [day : Nat, hour : 0 .. HoursPerDay - 1, min : 0 .. MinutesPerHour - 1,
       sec : 0 .. SecondsPerMinute - 1]

Earlier(a, b) ==
    \/ a.day < b.day
    \/ a.day = b.day /\ a.hour < b.hour
    \/ a.day = b.day /\ a.hour = b.hour /\ a.min < b.min
    \/ a.day = b.day /\ a.hour = b.hour /\ a.min = b.min /\ a.sec < b.sec

LEMMA SizeFacts ==
    /\ HoursPerDay \in Nat /\ MinutesPerHour \in Nat /\ SecondsPerMinute \in Nat
    /\ HoursPerDay >= 2 /\ MinutesPerHour >= 2 /\ SecondsPerMinute >= 2
    /\ SecondsPerHour \in Nat \ {0} /\ SecondsPerDay \in Nat \ {0}
    /\ SecondsPerHour >= 2 /\ SecondsPerDay >= 2
<1>1. \A a, b \in Nat \ {0, 1} : a * b \in Nat \ {0, 1}
  OBVIOUS
<1> QED
  BY <1>1, ClockAssumption DEF SecondsPerHour, SecondsPerDay

LEMMA Digits ==
    ASSUME NEW n \in Nat
    PROVE  Localtime(n) \in Tm /\ Mktime(Localtime(n)) = n
<1> DEFINE D == SecondsPerDay
           P == SecondsPerHour
           S == SecondsPerMinute
           d == n \div D
           r == n % D
           h == r \div P
           q == r % P
           m == q \div S
           s == q % S
<1>1. /\ D \in Nat \ {0} /\ P \in Nat \ {0} /\ S \in Nat \ {0}
      /\ HoursPerDay \in Nat \ {0} /\ MinutesPerHour \in Nat \ {0}
  BY SizeFacts
<1>2. D = HoursPerDay * P /\ P = MinutesPerHour * S
  BY DEF SecondsPerDay, SecondsPerHour
<1>3. d \in Nat /\ r \in 0 .. D - 1 /\ n = d * D + r
  BY <1>1, DivFacts
<1>4. h \in 0 .. HoursPerDay - 1 /\ q \in 0 .. P - 1 /\ r = h * P + q
  <2> HIDE DEF r, P, D
  <2>1. r \in 0 .. HoursPerDay * P - 1 /\ r \in Nat
    BY <1>2, <1>3
  <2>2. h \in 0 .. HoursPerDay - 1
    BY <1>1, <2>1, UpperDigit
  <2> QED
    BY <1>1, <2>1, <2>2, DivFacts
<1>5. m \in 0 .. MinutesPerHour - 1 /\ s \in 0 .. S - 1 /\ q = m * S + s
  <2> HIDE DEF q, P, S
  <2>1. q \in 0 .. MinutesPerHour * S - 1 /\ q \in Nat
    BY <1>2, <1>4
  <2>2. m \in 0 .. MinutesPerHour - 1
    BY <1>1, <2>1, UpperDigit
  <2> QED
    BY <1>1, <2>1, <2>2, DivFacts
<1>6. n % P = q
  <2> HIDE DEF P, D, d, h, q, r
  <2>1. d * HoursPerDay + h \in Nat
    BY <1>1, <1>3, <1>4
  <2>2. d * D = d * HoursPerDay * P
    BY <1>1, <1>2, <1>3
  <2>3. n = (d * HoursPerDay + h) * P + q
    BY <1>1, <1>3, <1>4, <2>2
  <2> QED
    BY <1>1, <1>4, <2>1, <2>3, DivUnique
<1>7. n % S = s
  <2> HIDE DEF P, D, d, h, q, r, S, m, s
  <2>1. d * HoursPerDay + h \in Nat
    BY <1>1, <1>3, <1>4
  <2>2. PICK e \in Nat : e = d * HoursPerDay + h
    BY <2>1
  <2>3. d * D = d * HoursPerDay * P
    BY <1>1, <1>2, <1>3
  <2>4. n = e * P + q
    BY <1>1, <1>3, <1>4, <2>2, <2>3
  <2>5. e * P = e * MinutesPerHour * S
    BY <1>1, <1>2
  <2>6. n = (e * MinutesPerHour + m) * S + s
    BY <1>1, <1>5, <2>4, <2>5
  <2>7. e * MinutesPerHour + m \in Nat
    BY <1>1, <1>5
  <2> QED
    BY <1>1, <1>5, <2>6, <2>7, DivUnique
<1>8. Localtime(n) = [day |-> d, hour |-> h, min |-> m, sec |-> s]
  BY <1>6, <1>7 DEF Localtime
<1>9. Localtime(n) \in Tm
  BY <1>3, <1>4, <1>5, <1>8 DEF Tm
<1>10. Mktime(Localtime(n)) = d * D + h * P + m * S + s
  BY <1>8 DEF Mktime
<1> HIDE DEF D, P, S, d, r, h, q, m, s
<1>11. d * D \in Nat /\ h * P \in Nat /\ m * S \in Nat
  BY <1>1, <1>3, <1>4, <1>5
<1> QED
  BY <1>3, <1>4, <1>5, <1>9, <1>10, <1>11

LEMMA MktimeEarlier ==
    ASSUME NEW a \in Tm, NEW b \in Tm
    PROVE  Mktime(a) \in Nat /\ (Mktime(a) < Mktime(b) <=> Earlier(a, b))
<1> DEFINE P == SecondsPerHour
           S == SecondsPerMinute
           D == SecondsPerDay
           Low(x) == x.min * S + x.sec
           Mid(x) == x.hour * P + Low(x)
<1>1. /\ D \in Nat \ {0} /\ P \in Nat \ {0} /\ S \in Nat \ {0}
      /\ HoursPerDay \in Nat \ {0} /\ MinutesPerHour \in Nat \ {0}
  BY SizeFacts
<1>2. D = HoursPerDay * P /\ P = MinutesPerHour * S
  BY DEF SecondsPerDay, SecondsPerHour
<1>3. ASSUME NEW x \in Tm
      PROVE  /\ x.day \in Nat /\ x.hour \in 0 .. HoursPerDay - 1
             /\ x.min \in 0 .. MinutesPerHour - 1 /\ x.sec \in 0 .. S - 1
  BY DEF Tm
<1>4. \A x \in Tm : Low(x) \in 0 .. P - 1
  BY <1>1, <1>2, <1>3, DigitRange
<1>5. ASSUME NEW x \in Tm PROVE Mid(x) \in 0 .. D - 1
  <2> HIDE DEF Low, P, D
  <2>1. x.hour \in 0 .. HoursPerDay - 1 /\ Low(x) \in 0 .. P - 1
    BY <1>3, <1>4
  <2>2. x.hour * P + Low(x) \in 0 .. HoursPerDay * P - 1
    BY <1>1, <2>1, DigitRange
  <2> QED
    BY <1>2, <2>2
<1>6. ASSUME NEW x \in Tm PROVE Mktime(x) = x.day * D + Mid(x) /\ Mktime(x) \in Nat
  <2>1. x.hour * P \in Nat /\ x.min * S \in Nat /\ x.day * D \in Nat /\ x.sec \in Nat
    BY <1>1, <1>3
  <2> QED
    BY <2>1 DEF Mktime
<1>7. Low(a) < Low(b) <=> a.min < b.min \/ (a.min = b.min /\ a.sec < b.sec)
  BY <1>1, <1>3, TwoDigits, SMTT(30)
<1>8. Mid(a) < Mid(b) <=> a.hour < b.hour \/ (a.hour = b.hour /\ Low(a) < Low(b))
  <2> HIDE DEF P, Low
  <2> QED
    BY <1>1, <1>3, <1>4, TwoDigits
<1>9. Mktime(a) < Mktime(b) <=> a.day < b.day \/ (a.day = b.day /\ Mid(a) < Mid(b))
  <2> HIDE DEF D, Mid
  <2>1. /\ a.day \in Nat /\ Mid(a) \in 0 .. D - 1
        /\ b.day \in Nat /\ Mid(b) \in 0 .. D - 1
    BY <1>3, <1>5
  <2>2. \A x, y \in Nat : \A u, v \in 0 .. D - 1 :
            x * D + u < y * D + v <=> x < y \/ (x = y /\ u < v)
    BY <1>1, TwoDigits
  <2>3. a.day * D + Mid(a) < b.day * D + Mid(b)
            <=> a.day < b.day \/ (a.day = b.day /\ Mid(a) < Mid(b))
    BY <2>1, <2>2
  <2> QED
    BY <1>6, <2>3
<1> HIDE DEF Low, Mid
<1> QED
  BY <1>6, <1>7, <1>8, <1>9 DEF Earlier

LEMMA MktimeOrder ==
    ASSUME NEW a \in Tm, NEW b \in Tm
    PROVE  /\ Mktime(a) \in Nat
           /\ Mktime(a) < Mktime(b) <=> Earlier(a, b)
           /\ Mktime(a) = Mktime(b) <=> a = b
<1>1. /\ Mktime(a) \in Nat /\ Mktime(b) \in Nat
      /\ Mktime(a) < Mktime(b) <=> Earlier(a, b)
      /\ Mktime(b) < Mktime(a) <=> Earlier(b, a)
  BY MktimeEarlier
<1>2. \A x \in Tm : /\ x.day \in Int /\ x.hour \in Int /\ x.min \in Int /\ x.sec \in Int
                    /\ x = [day |-> x.day, hour |-> x.hour, min |-> x.min, sec |-> x.sec]
  BY SizeFacts DEF Tm
<1>3. ~ Earlier(a, b) /\ ~ Earlier(b, a)
          => a.day = b.day /\ a.hour = b.hour /\ a.min = b.min /\ a.sec = b.sec
  BY <1>2 DEF Earlier
<1> QED
  BY <1>1, <1>2, <1>3

LEMMA DigitsUnique ==
    ASSUME NEW tm \in Tm
    PROVE  Localtime(Mktime(tm)) = tm
BY Digits, MktimeOrder
-----------------------------------------------------------------------------
(* The lists of a schedule                                                   *)

\* The milliseconds of a second; named, so that a proof need not look into it.
Millis == 0 .. 999

Legal(s) ==
    /\ s \in [hour : Seq(Nat), minute : Seq(Nat), second : Seq(Nat)]
    /\ Listed(s.hour, HoursPerDay)
    /\ Listed(s.minute, MinutesPerHour)
    /\ Listed(s.second, SecondsPerMinute)

First(v) == v[1]
Final(v) == v[Len(v)]

LEMMA ListFacts ==
    ASSUME NEW max \in Nat, NEW v, Listed(v, max)
    PROVE  /\ Len(v) \in Nat \ {0} /\ DOMAIN v = 1 .. Len(v)
           /\ \A i \in 1 .. Len(v) : v[i] \in 0 .. max - 1
           /\ First(v) \in Elements(v) /\ Final(v) \in Elements(v)
           /\ \A e \in Elements(v) : e \in 0 .. max - 1 /\ First(v) <= e /\ e <= Final(v)
<1>1. Len(v) \in Nat \ {0} /\ DOMAIN v = 1 .. Len(v)
  BY DEF Listed
<1>2. \A i \in 1 .. Len(v) : v[i] \in 0 .. max - 1
  BY DEF Listed
<1>3. First(v) \in Elements(v) /\ Final(v) \in Elements(v)
  BY <1>1 DEF First, Final, Elements
<1>4. ASSUME NEW e \in Elements(v)
      PROVE  e \in 0 .. max - 1 /\ First(v) <= e /\ e <= Final(v)
  <2>1. PICK i \in 1 .. Len(v) : e = v[i]
    BY <1>1 DEF Elements
  <2>2. 1 < i => v[1] < v[i]
    BY <1>1 DEF Listed
  <2>3. i < Len(v) => v[i] < v[Len(v)]
    BY <1>1 DEF Listed
  <2> QED
    BY <1>1, <1>2, <2>1, <2>2, <2>3 DEF First, Final
<1> QED
  BY <1>1, <1>2, <1>3, <1>4

LEMMA MinIs ==
    ASSUME NEW T, T \subseteq Nat, NEW x \in T, \A y \in T : x <= y
    PROVE  Min(T) = x
<1>1. Min(T) \in T /\ \A n \in T : Min(T) <= n
  BY Smallest
<1>2. Min(T) \in Nat /\ x \in Nat /\ Min(T) <= x /\ x <= Min(T)
  BY <1>1
<1> QED
  BY <1>2

\* The first entry from c on, or the end of the clock when there is none.
LEMMA NextTimeFacts ==
    ASSUME NEW max \in Nat, NEW v, Listed(v, max), NEW c \in Nat
    PROVE  \/ /\ NextTime(v, c, max) \in Elements(v) /\ c <= NextTime(v, c, max)
              /\ \A e \in Elements(v) : c <= e => NextTime(v, c, max) <= e
           \/ NextTime(v, c, max) = max /\ \A e \in Elements(v) : e < c
<1> DEFINE L == {e \in Elements(v) : c <= e /\ e <= max}
<1>1. \A e \in Elements(v) : e \in Nat /\ e < max
  BY ListFacts
<1>2. CASE L = {}
  BY <1>1, <1>2 DEF NextTime
<1>3. CASE L # {}
  <2>1. Min(L) \in L /\ \A e \in L : Min(L) <= e
    BY <1>1, <1>3, Smallest
  <2>2. NextTime(v, c, max) = Min(L)
    BY <1>3 DEF NextTime
  <2> QED
    BY <1>1, <2>1, <2>2
<1> QED
  BY <1>2, <1>3

LEMMA NextTimeFromZero ==
    ASSUME NEW max \in Nat, NEW v, Listed(v, max)
    PROVE  NextTime(v, 0, max) = First(v)
<1>1. \A e \in Elements(v) : e \in Nat /\ First(v) <= e
  BY ListFacts
<1>2. First(v) \in Elements(v)
  BY ListFacts
<1> QED
  BY <1>1, <1>2, NextTimeFacts

-----------------------------------------------------------------------------
(* The calculation                                                           *)

\* Its states, in their order.
AtDay(s, now, ms) == SwitchDay(FirstOfDay(s, now, ms), now, ms)
AtHour(s, now, ms) == ClearMinute(MinuteCarry(SetHour(AtDay(s, now, ms), s)), now, ms)
AtMinute(s, now, ms) == SetMinute(AtHour(s, now, ms), s, now, ms)
AtSecond(s, now, ms) ==
    SetSecond(AtMinute(s, now, ms), s, Mktime(AtHour(s, now, ms).last), now, ms)

LastRunOf(s, day) ==
    [day |-> day, hour |-> Final(s.hour), min |-> Final(s.minute), sec |-> Final(s.second)]

InLists(s, tm) ==
    tm.hour \in Elements(s.hour) /\ tm.min \in Elements(s.minute) /\ tm.sec \in Elements(s.second)

LEMMA ScheduleFacts ==
    ASSUME NEW s, Legal(s), Regular(s)
    PROVE  /\ Elements(s.hour) = 0 .. HoursPerDay - 1
           /\ First(s.hour) = 0 /\ Final(s.hour) = HoursPerDay - 1
           /\ First(s.minute) \in Elements(s.minute) /\ Final(s.minute) \in Elements(s.minute)
           /\ First(s.second) \in Elements(s.second) /\ Final(s.second) \in Elements(s.second)
           /\ \A e \in Elements(s.minute) :
                 e \in 0 .. MinutesPerHour - 1 /\ First(s.minute) <= e /\ e <= Final(s.minute)
           /\ \A e \in Elements(s.second) :
                 e \in 0 .. SecondsPerMinute - 1 /\ First(s.second) <= e /\ e <= Final(s.second)
           /\ \/ Elements(s.minute) = 0 .. MinutesPerHour - 1
              \/ First(s.second) = Final(s.second)
<1>1. /\ First(s.hour) \in Elements(s.hour) /\ Final(s.hour) \in Elements(s.hour)
      /\ \A e \in Elements(s.hour) : First(s.hour) <= e /\ e <= Final(s.hour)
  BY SizeFacts, ListFacts DEF Legal
<1>2. 0 \in Elements(s.hour) /\ HoursPerDay - 1 \in Elements(s.hour)
  BY SizeFacts DEF Regular
<1>3. First(s.hour) = 0 /\ Final(s.hour) = HoursPerDay - 1
  BY <1>1, <1>2, SizeFacts DEF Regular
<1>4. Len(s.second) = 1 => First(s.second) = Final(s.second)
  BY DEF First, Final
<1> QED
  BY <1>3, <1>4, SizeFacts, ListFacts DEF Legal, Regular

LEMMA LastRunTm ==
    ASSUME NEW s, Legal(s), Regular(s), NEW d \in Nat
    PROVE  LastRunOf(s, d) \in Tm
<1>1. /\ Final(s.hour) \in 0 .. HoursPerDay - 1 /\ Final(s.minute) \in 0 .. MinutesPerHour - 1
      /\ Final(s.second) \in 0 .. SecondsPerMinute - 1
  BY ScheduleFacts, SizeFacts
<1> QED
  BY <1>1 DEF LastRunOf, Tm

LEMMA TmRecord ==
    ASSUME NEW tm \in Tm
    PROVE  tm = [day |-> tm.day, hour |-> tm.hour, min |-> tm.min, sec |-> tm.sec]
BY DEF Tm

LEMMA FirstOfDayIs ==
    ASSUME NEW s, NEW now \in Nat, NEW ms
    PROVE  FirstOfDay(s, now, ms) =
              [tm |-> Localtime(now), cm |-> ms, last |-> LastRunOf(s, Localtime(now).day)]
BY DEF FirstOfDay, LastRunOf, Final

\* The last run of the day is over: the calculation begins with the next day.
LEMMA WhenPassed ==
    ASSUME NEW s, Legal(s), Regular(s), NEW now \in Nat, NEW ms \in Millis,
           Passed(LastRunOf(s, Localtime(now).day), now, ms)
    PROVE  AtSecond(s, now, ms) =
              [tm |-> [day |-> Localtime(now).day + 1, hour |-> 0, min |-> First(s.minute),
                       sec |-> First(s.second)],
               cm |-> 0]
<1> USE DEF Millis
<1> DEFINE tm == Localtime(now)
           last == LastRunOf(s, tm.day)
           next == LastRunOf(s, tm.day + 1)
           start == [day |-> tm.day + 1, hour |-> 0, min |-> 0, sec |-> 0]
<1>1. tm \in Tm /\ last \in Tm /\ next \in Tm /\ Mktime(tm) = now
  <2>1. tm \in Tm /\ Mktime(tm) = now
    BY Digits
  <2>2. tm.day \in Nat /\ tm.day + 1 \in Nat
    BY <2>1 DEF Tm
  <2> QED
    BY <2>1, <2>2, LastRunTm
<1>2. FirstOfDay(s, now, ms) = [tm |-> tm, cm |-> ms, last |-> last]
  BY FirstOfDayIs
<1>3. AtDay(s, now, ms) = [tm |-> start, cm |-> 0, last |-> next]
  BY <1>2 DEF AtDay, SwitchDay, LastRunOf
<1>4. ~ Passed(next, now, ms)
  <2>1. Earlier(tm, next)
    BY <1>1 DEF Earlier, Tm, LastRunOf
  <2>2. Mktime(tm) < Mktime(next) /\ Mktime(next) \in Nat
    BY <1>1, <2>1, MktimeOrder
  <2> QED
    BY <1>1, <2>2 DEF Passed
<1>5. AtHour(s, now, ms) = [tm |-> start, cm |-> 0, last |-> next]
  <2>1. NextTime(s.hour, 0, HoursPerDay) = 0
    <3>1. Listed(s.hour, HoursPerDay) /\ HoursPerDay \in Nat
      BY SizeFacts DEF Legal
    <3>2. NextTime(s.hour, 0, HoursPerDay) = First(s.hour)
      BY <3>1, NextTimeFromZero, SMTT(40)
    <3>3. First(s.hour) = 0
      BY ScheduleFacts, SMTT(40)
    <3> QED
      BY <3>2, <3>3
  <2>2. SetHour(AtDay(s, now, ms), s) = [tm |-> start, cm |-> 0, last |-> next]
    BY <1>3, <2>1 DEF SetHour
  <2>3. ~ (0 > next.sec)
    BY <1>1, SizeFacts DEF Tm
  <2>4. MinuteCarry([tm |-> start, cm |-> 0, last |-> next]) = [tm |-> start, cm |-> 0, last |-> next]
    BY <2>3 DEF MinuteCarry
  <2> QED
    BY <1>4, <2>2, <2>4 DEF AtHour, ClearMinute
<1>6. AtMinute(s, now, ms) =
         [tm |-> [day |-> tm.day + 1, hour |-> 0, min |-> First(s.minute), sec |-> 0],
          cm |-> 0, last |-> next]
  <2>1. NextTime(s.minute, 0, MinutesPerHour) = First(s.minute)
    BY NextTimeFromZero, SizeFacts DEF Legal
  <2>2. First(s.minute) # MinutesPerHour
    BY ScheduleFacts, SizeFacts
  <2> QED
    BY <1>4, <1>5, <2>1, <2>2 DEF AtMinute, SetMinute
<1>7. NextTime(s.second, 0, SecondsPerMinute) = First(s.second)
  BY NextTimeFromZero, SizeFacts DEF Legal
<1> QED
  BY <1>6, <1>7 DEF AtSecond, SetSecond

\* The last run of the day is still to come (or begins now): the minute the calculation
\* looks from, and the moment it finds.
FromMinute(s, tm) == IF tm.sec > Final(s.second) THEN tm.min + 1 ELSE tm.min
FromSecond(s, tm) == IF tm.sec > Final(s.second) THEN 0 ELSE tm.sec

OpenEnd(s, tm, ms) ==
    LET min == NextTime(s.minute, FromMinute(s, tm), MinutesPerHour)
    IN  IF min = MinutesPerHour
        THEN [tm |-> [day |-> tm.day, hour |-> tm.hour + 1, min |-> First(s.minute),
                      sec |-> First(s.second)],
              cm |-> 0]
        ELSE [tm |-> [day |-> tm.day, hour |-> tm.hour, min |-> min,
                      sec |-> NextTime(s.second, FromSecond(s, tm), SecondsPerMinute)],
              cm |-> IF tm.sec > Final(s.second) THEN 0 ELSE ms]

LEMMA WhenOpen ==
    ASSUME NEW s, Legal(s), Regular(s), NEW now \in Nat, NEW ms \in Millis,
           ~ Passed(LastRunOf(s, Localtime(now).day), now, ms)
    PROVE  AtSecond(s, now, ms) = OpenEnd(s, Localtime(now), ms)
<1> USE DEF Millis
<1> DEFINE tm == Localtime(now)
           last == LastRunOf(s, tm.day)
           late == tm.sec > Final(s.second)
           cm == IF late THEN 0 ELSE ms
           min == NextTime(s.minute, FromMinute(s, tm), MinutesPerHour)
           from == [day |-> tm.day, hour |-> tm.hour, min |-> FromMinute(s, tm),
                    sec |-> FromSecond(s, tm)]
<1>1. tm \in Tm
  BY Digits
<1>2. AtDay(s, now, ms) = [tm |-> tm, cm |-> ms, last |-> last]
  BY FirstOfDayIs DEF AtDay, SwitchDay
<1>3. SetHour(AtDay(s, now, ms), s) = [tm |-> tm, cm |-> ms, last |-> last]
  <2>1. tm.hour \in Elements(s.hour) /\ tm.hour \in Nat
    BY <1>1, ScheduleFacts, SizeFacts DEF Tm
  <2>2. \A e \in Elements(s.hour) : e \in Nat /\ e < HoursPerDay
    BY ScheduleFacts, SizeFacts
  <2>3. NextTime(s.hour, tm.hour, HoursPerDay) = tm.hour
    <3>1. Listed(s.hour, HoursPerDay) /\ HoursPerDay \in Nat
      BY SizeFacts DEF Legal
    <3> QED
      BY <2>1, <2>2, <3>1, NextTimeFacts
  <2>4. [tm EXCEPT !.hour = tm.hour] = tm
    BY <1>1 DEF Tm
  <2> HIDE DEF tm, last
  <2> QED
    BY <1>2, <2>3, <2>4 DEF SetHour
<1>4. MinuteCarry([tm |-> tm, cm |-> ms, last |-> last]) = [tm |-> from, cm |-> cm, last |-> last]
  <2>1. last.sec = Final(s.second)
    BY DEF LastRunOf
  <2>2. ~ late => from = tm
    BY <1>1, TmRecord DEF FromMinute, FromSecond
  <2> QED
    BY <2>1, <2>2 DEF MinuteCarry, FromMinute, FromSecond
<1>5. AtHour(s, now, ms) = [tm |-> from, cm |-> cm, last |-> last]
  BY <1>3, <1>4 DEF AtHour, ClearMinute
<1>6. CASE min = MinutesPerHour
  <2>1. AtMinute(s, now, ms) =
           [tm |-> [day |-> tm.day, hour |-> tm.hour + 1, min |-> First(s.minute), sec |-> 0],
            cm |-> 0, last |-> [last EXCEPT !.sec = 0]]
    BY <1>5, <1>6 DEF AtMinute, SetMinute, First
  <2>2. NextTime(s.second, 0, SecondsPerMinute) = First(s.second)
    BY NextTimeFromZero, SizeFacts DEF Legal
  <2> QED
    BY <1>6, <2>1, <2>2 DEF AtSecond, SetSecond, OpenEnd
<1>7. CASE min # MinutesPerHour
  <2>1. AtMinute(s, now, ms) =
           [tm |-> [day |-> tm.day, hour |-> tm.hour, min |-> min, sec |-> FromSecond(s, tm)],
            cm |-> cm, last |-> last]
    BY <1>5, <1>7 DEF AtMinute, SetMinute
  <2>2. ~ (ms >= 1 /\ Mktime(last) = now)
    BY DEF Passed
  <2> QED
    BY <1>5, <1>7, <2>1, <2>2 DEF AtSecond, SetSecond, OpenEnd
<1> QED
  BY <1>6, <1>7

\* The first scheduled second from one on.
IsNext(s, from, t) ==
    /\ t \in Nat /\ from <= t /\ Scheduled(s, t)
    /\ \A u \in Nat : from <= u /\ Scheduled(s, u) => t <= u

LEMMA NextByDigits ==
    ASSUME NEW s, NEW from \in Nat, NEW tm \in Tm, InLists(s, tm), from <= Mktime(tm),
           \A x \in Tm : InLists(s, x) /\ from <= Mktime(x) => ~ Earlier(x, tm)
    PROVE  IsNext(s, from, Mktime(tm))
<1>1. Mktime(tm) \in Nat
  BY MktimeOrder
<1>2. Scheduled(s, Mktime(tm))
  BY DigitsUnique DEF Scheduled, InLists
<1>3. ASSUME NEW u \in Nat, from <= u, Scheduled(s, u) PROVE Mktime(tm) <= u
  <2>1. Localtime(u) \in Tm /\ Mktime(Localtime(u)) = u /\ InLists(s, Localtime(u))
    BY <1>3, Digits DEF Scheduled, InLists
  <2>2. ~ Earlier(Localtime(u), tm)
    BY <1>3, <2>1
  <2> QED
    BY <1>1, <2>1, <2>2, MktimeOrder
<1> QED
  BY <1>1, <1>2, <1>3 DEF IsNext

\* The order of moments, in the two directions the proofs need.
LEMMA NotEarlier ==
    ASSUME NEW a \in Tm, NEW b \in Tm
    PROVE  /\ Mktime(a) <= Mktime(b) <=> ~ Earlier(b, a)
           /\ Mktime(a) \in Nat
BY MktimeOrder

LEMMA DayShift ==
    ASSUME NEW tm \in Tm, NEW u \in Tm, u.day = tm.day + 1, u.hour = tm.hour, u.min = tm.min,
           u.sec = tm.sec
    PROVE  Mktime(u) = Mktime(tm) + SecondsPerDay
<1>1. /\ tm.day \in Nat /\ tm.hour \in Nat /\ tm.min \in Nat /\ tm.sec \in Nat
      /\ SecondsPerDay \in Nat /\ SecondsPerHour \in Nat /\ SecondsPerMinute \in Nat
  BY SizeFacts DEF Tm
<1>2. /\ tm.hour * SecondsPerHour \in Nat /\ tm.min * SecondsPerMinute \in Nat
      /\ tm.day * SecondsPerDay \in Nat
      /\ (tm.day + 1) * SecondsPerDay = tm.day * SecondsPerDay + SecondsPerDay
  BY <1>1
<1> QED
  BY <1>1, <1>2 DEF Mktime

\* The last run of a day is the latest of its moments in the lists.
LEMMA LastOfToday ==
    ASSUME NEW s, Legal(s), Regular(s), NEW d \in Nat
    PROVE  /\ LastRunOf(s, d) \in Tm /\ InLists(s, LastRunOf(s, d))
           /\ \A x \in Tm : InLists(s, x) /\ x.day <= d => ~ Earlier(LastRunOf(s, d), x)
<1> DEFINE last == LastRunOf(s, d)
<1>1. last \in Tm
  BY LastRunTm
<1>2. /\ last.day = d /\ last.hour = HoursPerDay - 1
      /\ last.min = Final(s.minute) /\ last.sec = Final(s.second)
  BY ScheduleFacts DEF LastRunOf
<1>3. InLists(s, last)
  BY <1>2, ScheduleFacts, SizeFacts DEF InLists
<1>4. ASSUME NEW x \in Tm, InLists(s, x), x.day <= d PROVE ~ Earlier(last, x)
  <2>1. x.day \in Nat /\ x.hour \in 0 .. HoursPerDay - 1
    BY DEF Tm
  <2>2. /\ x.min \in Nat /\ Final(s.minute) \in Nat /\ x.min <= Final(s.minute)
        /\ x.sec \in Nat /\ Final(s.second) \in Nat /\ x.sec <= Final(s.second)
    BY <1>4, ScheduleFacts, SizeFacts DEF InLists
  <2> HIDE DEF last
  <2> QED
    BY <1>2, <1>4, <2>1, <2>2, SizeFacts DEF Earlier
<1> QED
  BY <1>1, <1>3, <1>4

LEMMA NotBeforeFirst ==
    ASSUME NEW s, Legal(s), Regular(s), NEW x, InLists(s, x)
    PROVE  /\ x.min \in Nat /\ First(s.minute) \in Nat /\ First(s.minute) <= x.min
           /\ x.sec \in Nat /\ First(s.second) \in Nat /\ First(s.second) <= x.sec
BY ScheduleFacts, SizeFacts DEF InLists

\* What the calculation finds when the last run of the day is over.
EndsTomorrow(s, now, ms) ==
    LET end == AtSecond(s, now, ms)
        t == Mktime(end.tm)
        last == Mktime(LastRunOf(s, Localtime(now).day))
    IN  /\ end.cm = 0
        /\ \A from \in {now, now + 1} : last < from => IsNext(s, from, t)
        /\ now < t /\ t <= now + SecondsPerDay

LEMMA FoundTomorrow ==
    ASSUME NEW s, Legal(s), Regular(s), NEW now \in Nat, NEW ms \in Millis,
           Passed(LastRunOf(s, Localtime(now).day), now, ms)
    PROVE  EndsTomorrow(s, now, ms)
<1> DEFINE tm == Localtime(now)
           last == LastRunOf(s, tm.day)
           first == [day |-> tm.day, hour |-> 0, min |-> First(s.minute), sec |-> First(s.second)]
           next == [day |-> tm.day + 1, hour |-> 0, min |-> First(s.minute),
                    sec |-> First(s.second)]
<1>1. AtSecond(s, now, ms) = [tm |-> next, cm |-> 0]
  BY WhenPassed, Zenon
<1>2. tm \in Tm /\ Mktime(tm) = now /\ tm.day \in Nat
  <2>1. tm \in Tm /\ Mktime(tm) = now
    BY Digits
  <2> QED
    BY <2>1 DEF Tm
<1>3. last \in Tm /\ InLists(s, last)
      /\ \A x \in Tm : InLists(s, x) /\ x.day <= tm.day => ~ Earlier(last, x)
  BY <1>2, LastOfToday
<1>4. Mktime(last) <= now
  BY <1>2, <1>3, MktimeOrder DEF Passed
<1>5. first \in Tm /\ next \in Tm /\ InLists(s, first) /\ InLists(s, next)
  BY <1>2, ScheduleFacts, SizeFacts DEF Tm, InLists
<1>6. Earlier(tm, next)
  BY <1>2 DEF Earlier
<1>7. now < Mktime(next) /\ Mktime(next) \in Nat
  BY <1>2, <1>5, <1>6, MktimeOrder
<1>8. Mktime(next) <= now + SecondsPerDay
  <2>1. Mktime(first) <= Mktime(last) /\ Mktime(first) \in Nat /\ Mktime(last) \in Nat
    BY <1>2, <1>3, <1>5, NotEarlier
  <2>2. Mktime(next) = Mktime(first) + SecondsPerDay
    BY <1>5, DayShift
  <2> QED
    BY <1>4, <2>1, <2>2, SizeFacts
<1>9. ASSUME NEW from \in {now, now + 1}, Mktime(last) < from PROVE IsNext(s, from, Mktime(next))
  <2>1. ASSUME NEW x \in Tm, InLists(s, x), from <= Mktime(x) PROVE ~ Earlier(x, next)
    <3>1. Mktime(last) < Mktime(x)
      BY <1>3, <1>9, <2>1, MktimeOrder
    <3>2. x.day > tm.day
      BY <1>2, <1>3, <2>1, <3>1, MktimeOrder DEF Tm
    <3>3. x.day \in Nat /\ x.hour \in Nat
      BY SizeFacts DEF Tm
    <3>4. /\ x.min \in Nat /\ First(s.minute) \in Nat /\ First(s.minute) <= x.min
          /\ x.sec \in Nat /\ First(s.second) \in Nat /\ First(s.second) <= x.sec
      BY <2>1, NotBeforeFirst
    <3>5. /\ next.day = tm.day + 1 /\ next.hour = 0
          /\ next.min = First(s.minute) /\ next.sec = First(s.second)
      OBVIOUS
    <3> HIDE DEF tm, next
    <3> QED
      BY <1>2, <3>2, <3>3, <3>4, <3>5 DEF Earlier
  <2>2. from \in Nat /\ from <= Mktime(next)
    BY <1>7
  <2> QED
    BY <1>5, <2>1, <2>2, NextByDigits
<1> QED
  BY <1>1, <1>7, <1>8, <1>9 DEF EndsTomorrow

\* What it finds when the last run of the day is still to come.
EndsToday(s, now, ms) ==
    LET end == AtSecond(s, now, ms)
        t == Mktime(end.tm)
    IN  /\ end.cm \in {0, ms} /\ (t = now => end.cm = ms)
        /\ IsNext(s, now, t)
        /\ t <= now + SecondsPerDay

LEMMA FoundToday ==
    ASSUME NEW s, Legal(s), Regular(s), NEW now \in Nat, NEW ms \in Millis,
           ~ Passed(LastRunOf(s, Localtime(now).day), now, ms)
    PROVE  EndsToday(s, now, ms)
<1> DEFINE tm == Localtime(now)
           last == LastRunOf(s, tm.day)
           min == NextTime(s.minute, FromMinute(s, tm), MinutesPerHour)
           sec == NextTime(s.second, FromSecond(s, tm), SecondsPerMinute)
<1>1. AtSecond(s, now, ms) = OpenEnd(s, tm, ms)
  BY WhenOpen, Zenon
<1>2. tm \in Tm /\ Mktime(tm) = now
  BY Digits
<1>3. tm.day \in Nat /\ tm.hour \in 0 .. HoursPerDay - 1 /\ tm.min \in Nat /\ tm.sec \in Nat
      /\ tm.min < MinutesPerHour
  BY <1>2, SizeFacts DEF Tm
<1>4. last \in Tm /\ InLists(s, last)
  BY <1>3, LastOfToday
<1>5. now <= Mktime(last) /\ ~ Earlier(last, tm)
  BY <1>2, <1>4, MktimeOrder DEF Passed
<1>6. Mktime(last) <= now + SecondsPerDay
  <2> DEFINE later == [tm EXCEPT !.day = @ + 1]
  <2>1. /\ later \in Tm /\ later.day = tm.day + 1 /\ later.hour = tm.hour /\ later.min = tm.min
        /\ later.sec = tm.sec
    BY <1>2, <1>3 DEF Tm
  <2>2. ~ Earlier(later, last)
    BY <1>3, <2>1 DEF Earlier, LastRunOf
  <2> HIDE DEF later
  <2> QED
    BY <1>2, <1>4, <2>1, <2>2, DayShift, NotEarlier
\* No run before the minute and second looked from.
<1>7. ASSUME NEW x \in Tm, InLists(s, x), now <= Mktime(x), x.day = tm.day, x.hour = tm.hour
      PROVE  /\ x.min \in Nat /\ x.min >= FromMinute(s, tm)
             /\ x.min = tm.min => x.sec >= tm.sec
  <2>1. ~ Earlier(x, tm)
    BY <1>2, <1>7, NotEarlier
  <2>2. x.min \in Nat /\ x.sec \in Nat /\ Final(s.second) \in Nat /\ x.sec <= Final(s.second)
    BY <1>7, ScheduleFacts, SizeFacts DEF InLists, Tm
  <2> QED
    BY <1>3, <1>7, <2>1, <2>2 DEF Earlier, FromMinute
<1>8. FromMinute(s, tm) \in Nat /\ FromSecond(s, tm) \in Nat
  BY <1>3 DEF FromMinute, FromSecond
<1>9. CASE min = MinutesPerHour
  <2> DEFINE next == [day |-> tm.day, hour |-> tm.hour + 1, min |-> First(s.minute),
                      sec |-> First(s.second)]
  <2>1. AtSecond(s, now, ms) = [tm |-> next, cm |-> 0]
    BY <1>1, <1>9 DEF OpenEnd
  <2>2. \A e \in Elements(s.minute) : e \in Nat /\ e < FromMinute(s, tm)
    <3>1. Listed(s.minute, MinutesPerHour) /\ MinutesPerHour \in Nat
      BY SizeFacts DEF Legal
    <3>2. \A e \in Elements(s.minute) : e \in Nat /\ e < MinutesPerHour
      BY <3>1, ListFacts
    <3>3. NextTime(s.minute, FromMinute(s, tm), MinutesPerHour) = MinutesPerHour
      BY <1>9
    <3> QED
      BY <1>8, <3>1, <3>2, <3>3, NextTimeFacts
  <2>3. ASSUME NEW x \in Tm, InLists(s, x), now <= Mktime(x), x.day = tm.day
        PROVE  x.hour # tm.hour
    <3>1. x.min < FromMinute(s, tm) /\ x.min \in Nat
      BY <2>2, <2>3 DEF InLists
    <3> QED
      BY <1>7, <1>8, <2>3, <3>1
  <2>4. tm.hour + 1 < HoursPerDay
    <3>1. last.hour = HoursPerDay - 1 /\ last.day = tm.day
      BY ScheduleFacts DEF LastRunOf
    <3>2. tm.hour # HoursPerDay - 1
      BY <1>4, <1>5, <2>3, <3>1
    <3> QED
      BY <1>3, <3>2, SizeFacts
  <2>5. next \in Tm /\ InLists(s, next)
    BY <1>3, <2>4, ScheduleFacts, SizeFacts DEF Tm, InLists
  <2>6. Earlier(tm, next)
    BY <1>3 DEF Earlier
  <2>7. now < Mktime(next) /\ Mktime(next) \in Nat
    BY <1>2, <2>5, <2>6, MktimeOrder
  <2>8. ASSUME NEW x \in Tm, InLists(s, x), now <= Mktime(x) PROVE ~ Earlier(x, next)
    <3>1. ~ Earlier(x, tm)
      BY <1>2, <2>8, NotEarlier
    <3>2. x.day \in Nat /\ x.hour \in Nat
      BY SizeFacts DEF Tm
    <3>3. /\ x.min \in Nat /\ First(s.minute) \in Nat /\ First(s.minute) <= x.min
          /\ x.sec \in Nat /\ First(s.second) \in Nat /\ First(s.second) <= x.sec
      BY <2>8, NotBeforeFirst
    <3>4. x.day = tm.day => x.hour # tm.hour
      BY <2>3, <2>8
    <3> QED
      BY <1>3, <3>1, <3>2, <3>3, <3>4 DEF Earlier
  <2>9. IsNext(s, now, Mktime(next))
    BY <2>5, <2>7, <2>8, NextByDigits
  <2>10. Mktime(next) <= Mktime(last)
    BY <1>4, <1>5, <2>5, <2>8, NotEarlier
  <2> QED
    BY <1>4, <1>6, <2>1, <2>7, <2>9, <2>10, MktimeOrder, SizeFacts DEF EndsToday
<1>10. CASE min # MinutesPerHour
  <2> DEFINE next == [day |-> tm.day, hour |-> tm.hour, min |-> min, sec |-> sec]
             late == tm.sec > Final(s.second)
  <2>1. AtSecond(s, now, ms) = [tm |-> next, cm |-> IF late THEN 0 ELSE ms]
    BY <1>1, <1>10 DEF OpenEnd
  <2>2. /\ min \in Elements(s.minute) /\ FromMinute(s, tm) <= min
        /\ \A e \in Elements(s.minute) : FromMinute(s, tm) <= e => min <= e
    <3>1. Listed(s.minute, MinutesPerHour) /\ MinutesPerHour \in Nat
      BY SizeFacts DEF Legal
    <3> QED
      BY <1>8, <1>10, <3>1, NextTimeFacts
  <2>3. /\ sec \in Elements(s.second) /\ FromSecond(s, tm) <= sec
        /\ \A e \in Elements(s.second) : FromSecond(s, tm) <= e => sec <= e
    <3>1. Listed(s.second, SecondsPerMinute) /\ SecondsPerMinute \in Nat
      BY SizeFacts DEF Legal
    <3>2. Final(s.second) \in Elements(s.second) /\ Final(s.second) \in Nat
      BY ScheduleFacts, SizeFacts
    <3>3. FromSecond(s, tm) <= Final(s.second)
      BY <1>3, <3>2 DEF FromSecond
    <3> QED
      BY <1>8, <3>1, <3>2, <3>3, NextTimeFacts
  <2> HIDE DEF min, sec
  <2>4. /\ min \in 0 .. MinutesPerHour - 1 /\ sec \in 0 .. SecondsPerMinute - 1
        /\ min \in Nat /\ sec \in Nat
    BY <2>2, <2>3, ScheduleFacts, SizeFacts
  <2>5. next \in Tm /\ InLists(s, next)
    BY <1>3, <2>2, <2>3, <2>4, ScheduleFacts DEF Tm, InLists
  <2>6. ~ Earlier(next, tm) /\ (next = tm => ~ late)
    BY <1>3, <2>2, <2>3, <2>4 DEF Earlier, FromMinute, FromSecond
  <2>7. now <= Mktime(next) /\ Mktime(next) \in Nat /\ (Mktime(next) = now => next = tm)
    BY <1>2, <2>5, <2>6, MktimeOrder
  <2>8. ASSUME NEW x \in Tm, InLists(s, x), now <= Mktime(x) PROVE ~ Earlier(x, next)
    <3>1. ~ Earlier(x, tm)
      BY <1>2, <2>8, NotEarlier
    <3>2. x.day \in Nat /\ x.hour \in Nat /\ x.min \in Nat /\ x.sec \in Nat
      BY SizeFacts DEF Tm
    <3>3. CASE x.day = tm.day /\ x.hour = tm.hour
      <4>1. x.min >= FromMinute(s, tm) /\ (x.min = tm.min => x.sec >= tm.sec)
        BY <1>7, <2>8, <3>3
      <4>2. min <= x.min
        BY <1>8, <2>2, <2>8, <3>2, <4>1 DEF InLists
      <4>3. x.min = min => sec <= x.sec
        <5> SUFFICES ASSUME x.min = min PROVE sec <= x.sec
          OBVIOUS
        <5>1. CASE FromSecond(s, tm) <= x.sec
          BY <2>3, <2>8, <5>1 DEF InLists
        <5>2. CASE ~ (FromSecond(s, tm) <= x.sec)
          <6>1. ~ late /\ FromMinute(s, tm) = tm.min /\ min # tm.min
            BY <1>3, <3>2, <4>1, <5>2 DEF FromSecond, FromMinute
          <6>2. tm.min \notin Elements(s.minute)
            BY <1>3, <2>2, <2>4, <6>1
          <6>3. First(s.second) = Final(s.second)
            BY <1>3, <6>2, ScheduleFacts, SizeFacts
          <6>4. sec = First(s.second) /\ x.sec = First(s.second)
            <7>1. \A e \in Elements(s.second) : e \in Nat /\ First(s.second) <= e
                                                /\ e <= First(s.second)
              BY <6>3, ScheduleFacts, SizeFacts
            <7>2. First(s.second) \in Elements(s.second)
              BY ScheduleFacts
            <7>3. sec \in Elements(s.second) /\ x.sec \in Elements(s.second)
              BY <2>3, <2>8 DEF InLists
            <7> QED
              BY <7>1, <7>2, <7>3
          <6> QED
            BY <2>4, <6>4
        <5> QED
          BY <5>1, <5>2
      <4> QED
        BY <1>3, <2>4, <3>2, <3>3, <4>2, <4>3 DEF Earlier
    <3>4. CASE ~ (x.day = tm.day /\ x.hour = tm.hour)
      BY <1>3, <2>4, <3>1, <3>2, <3>4 DEF Earlier
    <3> QED
      BY <3>3, <3>4
  <2>9. IsNext(s, now, Mktime(next))
    BY <2>5, <2>7, <2>8, NextByDigits
  <2>10. Mktime(next) <= Mktime(last)
    BY <1>4, <1>5, <2>5, <2>8, NotEarlier
  <2> QED
    BY <1>4, <1>6, <2>1, <2>6, <2>7, <2>9, <2>10, MktimeOrder, SizeFacts DEF EndsToday
<1> QED
  BY <1>9, <1>10

-----------------------------------------------------------------------------
(* The longest gap of a list                                                 *)

LEMMA GapFacts ==
    ASSUME NEW max \in Nat \ {0}, NEW v, Listed(v, max)
    PROVE  /\ MaxGap(v, max) \in 1 .. max
           /\ \A i \in 1 .. Len(v) - 1 : v[i + 1] - v[i] <= MaxGap(v, max)
           /\ First(v) + max - Final(v) <= MaxGap(v, max)
<1> DEFINE G == {v[i + 1] - v[i] : i \in 1 .. Len(v) - 1} \cup {v[1] + max - v[Len(v)], 0}
<1>1. /\ Len(v) \in Nat \ {0} /\ DOMAIN v = 1 .. Len(v) /\ v # <<>>
      /\ \A i \in 1 .. Len(v) : v[i] \in 0 .. max - 1
  BY ListFacts DEF Listed
<1>2. v[1] + max - v[Len(v)] \in 1 .. max
  <2>1. First(v) <= Final(v)
    BY <1>1, ListFacts
  <2>2. v[1] \in 0 .. max - 1 /\ v[Len(v)] \in 0 .. max - 1
    BY <1>1
  <2> QED
    BY <2>1, <2>2 DEF First, Final
<1>3. CASE Len(v) = 1
  BY <1>1, <1>2, <1>3 DEF MaxGap, First, Final
<1>4. CASE Len(v) # 1
  <2>1. \A i \in 1 .. Len(v) - 1 : v[i + 1] - v[i] \in 0 .. max
    <3> SUFFICES ASSUME NEW i \in 1 .. Len(v) - 1 PROVE v[i + 1] - v[i] \in 0 .. max
      OBVIOUS
    <3>1. i \in DOMAIN v /\ i + 1 \in DOMAIN v /\ i < i + 1
      BY <1>1
    <3>2. v[i] < v[i + 1] /\ v[i] \in 0 .. max - 1 /\ v[i + 1] \in 0 .. max - 1
      BY <1>1, <3>1 DEF Listed
    <3> QED
      BY <3>2
  <2>2. G \subseteq 0 .. max
    BY <1>2, <2>1
  <2>3. v[1] + max - v[Len(v)] \in G
    OBVIOUS
  <2>4. \A i \in 1 .. Len(v) - 1 : v[i + 1] - v[i] \in G
    OBVIOUS
  <2>5. MaxGap(v, max) = Max(G)
    BY <1>1, <1>4 DEF MaxGap
  <2> HIDE DEF G
  <2>6. Max(G) \in G /\ \A n \in G : n <= Max(G)
    BY <2>2, <2>3, Largest
  <2>7. Max(G) \in 0 .. max /\ v[1] + max - v[Len(v)] <= Max(G)
    BY <2>2, <2>3, <2>6
  <2> QED
    BY <1>2, <2>4, <2>5, <2>6, <2>7 DEF First, Final
<1> QED
  BY <1>3, <1>4

\* From any moment the next entry is at most the longest gap away.
LEMMA ListGap ==
    ASSUME NEW max \in Nat \ {0}, NEW v, Listed(v, max), NEW c \in 0 .. max - 1
    PROVE  \E e \in Elements(v), d \in 1 .. MaxGap(v, max) : e = c + d \/ e + max = c + d
<1> DEFINE g == MaxGap(v, max)
<1>1. /\ Len(v) \in Nat \ {0} /\ DOMAIN v = 1 .. Len(v)
      /\ \A i \in 1 .. Len(v) : v[i] \in 0 .. max - 1 /\ v[i] \in Elements(v)
  BY ListFacts DEF Elements
<1>2. /\ g \in 1 .. max
      /\ \A i \in 1 .. Len(v) - 1 : v[i + 1] - v[i] <= g
      /\ v[1] + max - v[Len(v)] <= g
  BY GapFacts DEF First, Final
<1>3. v[1] \in 0 .. max - 1 /\ v[1] \in Elements(v) /\ v[Len(v)] \in 0 .. max - 1
  BY <1>1
<1> HIDE DEF g
<1>4. CASE v[Len(v)] <= c
  <2>1. v[1] + max - c \in 1 .. g /\ v[1] + max = c + (v[1] + max - c)
    BY <1>2, <1>3, <1>4
  <2> QED
    BY <1>3, <2>1 DEF g
<1>5. CASE c < v[1]
  <2>1. v[1] - c \in 1 .. g /\ v[1] = c + (v[1] - c)
    BY <1>2, <1>3, <1>5
  <2> QED
    BY <1>3, <2>1 DEF g
<1>6. CASE v[1] <= c /\ c < v[Len(v)]
  <2> DEFINE I == {i \in 1 .. Len(v) : c < v[i]}
  <2>1. I \subseteq Nat /\ Len(v) \in I
    BY <1>1, <1>6
  <2>2. PICK k \in I : \A i \in I : k <= i
    <3> HIDE DEF I
    <3>1. Min(I) \in I /\ \A i \in I : Min(I) <= i
      BY <2>1, Smallest
    <3> QED
      BY <3>1
  <2>3. k \in 1 .. Len(v) /\ c < v[k] /\ k # 1
    BY <1>1, <1>3, <1>6, <2>2
  <2>4. k - 1 \in 1 .. Len(v) - 1 /\ k - 1 \in 1 .. Len(v) /\ (k - 1) + 1 = k
    BY <1>1, <2>3
  <2>5. v[k - 1] <= c
    <3>1. k - 1 \notin I
      BY <2>2, <2>3, <2>4
    <3> QED
      BY <1>1, <2>4, <3>1
  <2>6. v[k] - v[k - 1] <= g
    BY <1>2, <2>4
  <2>7. v[k] \in 0 .. max - 1 /\ v[k - 1] \in 0 .. max - 1 /\ v[k] \in Elements(v)
    BY <1>1, <2>3, <2>4
  <2>8. v[k] - c \in 1 .. g /\ v[k] = c + (v[k] - c)
    BY <1>2, <2>3, <2>5, <2>6, <2>7, SMTT(30)
  <2> QED
    BY <2>7, <2>8 DEF g
<1> QED
  BY <1>1, <1>3, <1>4, <1>5, <1>6

-----------------------------------------------------------------------------
(* What the calculation answers                                              *)

\* The wait it may give back is a number of seconds, and at least one.
LEMMA MaxWaitFacts ==
    ASSUME NEW s, Legal(s)
    PROVE  \E k \in Nat \ {0} :
              /\ MaxWaitTime(s) = 1000 * k
              /\ MaxGap(s.minute, MinutesPerHour) > 1
                    => k >= MaxGap(s.minute, MinutesPerHour) * SecondsPerMinute
              /\ k >= MaxGap(s.second, SecondsPerMinute)
<1> DEFINE h == MaxGap(s.hour, HoursPerDay)
           m == MaxGap(s.minute, MinutesPerHour)
           x == MaxGap(s.second, SecondsPerMinute)
<1>1. h \in 1 .. HoursPerDay /\ m \in 1 .. MinutesPerHour /\ x \in 1 .. SecondsPerMinute
  <2>1. /\ HoursPerDay \in Nat \ {0} /\ MinutesPerHour \in Nat \ {0}
        /\ SecondsPerMinute \in Nat \ {0}
    BY SizeFacts
  <2> QED
    BY <2>1, GapFacts DEF Legal
<1>2. MaxWaitTime(s) = IF h > 1 THEN h * SecondsPerHour * 1000
                       ELSE IF m > 1 THEN m * SecondsPerMinute * 1000 ELSE x * 1000
  <2>1. h # -1 /\ m # -1 /\ x # -1
    BY <1>1
  <2>2. h > 1 \/ h <= 1
    BY <1>1
  <2>3. m > 1 \/ m <= 1
    BY <1>1
  <2> HIDE DEF h, m, x
  <2>4. CASE h > 1
    <3>1. ~ (h <= 1)
      BY <1>1, <2>4
    <3> QED
      BY <2>1, <2>4, <3>1 DEF MaxWaitTime, h, m, x
  <2>5. CASE h <= 1 /\ m > 1
    <3>1. ~ (h > 1) /\ ~ (m <= 1)
      BY <1>1, <2>5
    <3> QED
      BY <2>1, <2>5, <3>1 DEF MaxWaitTime, h, m, x
  <2>6. CASE h <= 1 /\ m <= 1
    <3>1. ~ (h > 1) /\ ~ (m > 1)
      BY <1>1, <2>6
    <3> QED
      BY <2>1, <2>6, <3>1 DEF MaxWaitTime, h, m, x
  <2> QED
    BY <2>2, <2>3, <2>4, <2>5, <2>6
<1> HIDE DEF h, m, x
<1>3. \A a, b, c \in Nat \ {0} : b <= c => a * b \in Nat \ {0} /\ b * a <= c * a /\ a * b >= b
  <2> SUFFICES ASSUME NEW a \in Nat \ {0}, NEW b \in Nat \ {0}, NEW c \in Nat \ {0}, b <= c
               PROVE  a * b \in Nat \ {0} /\ b * a <= c * a /\ a * b >= b
    OBVIOUS
  <2>1. PICK d \in Nat : c = b + d
    <3>1. c - b \in Nat /\ c = b + (c - b)
      OBVIOUS
    <3> QED
      BY <3>1
  <2>2. PICK e \in Nat : a = 1 + e
    <3>1. a - 1 \in Nat /\ a = 1 + (a - 1)
      OBVIOUS
    <3> QED
      BY <3>1
  <2>3. c * a = b * a + d * a
    BY <2>1
  <2>4. a * b = b + e * b
    BY <2>2
  <2>5. d * a \in Nat /\ e * b \in Nat /\ b * a \in Nat
    OBVIOUS
  <2> QED
    BY <2>3, <2>4, <2>5
<1>4. m * SecondsPerMinute \in Nat \ {0} /\ SecondsPerMinute <= m * SecondsPerMinute
  BY <1>1, <1>3, SizeFacts
<1>5. m * SecondsPerMinute <= SecondsPerHour
  BY <1>1, <1>3, SizeFacts DEF SecondsPerHour
<1>6. h * SecondsPerHour \in Nat \ {0} /\ SecondsPerHour <= h * SecondsPerHour
  BY <1>1, <1>3, SizeFacts
<1>7. CASE h > 1
  <2>1. MaxWaitTime(s) = 1000 * (h * SecondsPerHour)
    BY <1>2, <1>6, <1>7
  <2>2. h * SecondsPerHour >= m * SecondsPerMinute /\ h * SecondsPerHour >= x
    BY <1>1, <1>4, <1>5, <1>6, SizeFacts
  <2> QED
    BY <1>6, <2>1, <2>2 DEF m, x
<1>8. CASE ~ (h > 1) /\ m > 1
  <2>1. MaxWaitTime(s) = 1000 * (m * SecondsPerMinute)
    BY <1>2, <1>4, <1>8
  <2>2. m * SecondsPerMinute >= m * SecondsPerMinute /\ m * SecondsPerMinute >= x
    BY <1>1, <1>4, SizeFacts
  <2> QED
    BY <1>4, <2>1, <2>2 DEF m, x
<1>9. CASE ~ (h > 1) /\ ~ (m > 1)
  <2>1. MaxWaitTime(s) = 1000 * x /\ x \in Nat \ {0} /\ x >= x
    BY <1>1, <1>2, <1>9
  <2> QED
    BY <1>9, <2>1 DEF m, x
<1> QED
  BY <1>7, <1>8, <1>9

LEMMA MaxWaitSeconds ==
    ASSUME NEW s, Legal(s)
    PROVE  \E k \in Nat \ {0} : MaxWaitTime(s) = 1000 * k
BY MaxWaitFacts

\* What it answers, in terms of the moment it finds.
\* The moment it finds, and the milliseconds it subtracts.
FoundAt(s, now, ms) == Mktime(AtSecond(s, now, ms).tm)
LeftOver(s, now, ms) == AtSecond(s, now, ms).cm

\* The second from which on it looks for a run.
LookFrom(s, now, ms) == IF LastOfDay(s, now) /\ ms > 0 THEN now + 1 ELSE now

FindsNext(s, now, ms, t, cm) ==
    /\ t \in Nat /\ now <= t
    /\ cm \in {0, ms} /\ (t = now => cm = ms)
    /\ IsNext(s, LookFrom(s, now, ms), t) /\ t <= LookFrom(s, now, ms) + SecondsPerDay
    /\ FirstScheduled(s, LookFrom(s, now, ms)) = t

Answers(s, now, ms, took, t, cm, wait) ==
    /\ wait \in Nat \cup {-1}
    /\ wait # -1 /\ ms + took < 1000
          => /\ Second(now * 1000 + ms + took + wait) = t
             /\ wait = 0 <=> t = now
    /\ wait = -1 => now < t /\ (t - now) * 1000 >= MaxWaitTime(s)
    /\ wait = -1 /\ ms + took < 1000 => (t - now) * 1000 >= MaxWaitTime(s) + took + cm

LEMMA Answer ==
    ASSUME NEW s, Legal(s), NEW now \in Nat, NEW ms \in Millis, NEW took \in Nat,
           NEW t, t = FoundAt(s, now, ms), NEW cm, cm = LeftOver(s, now, ms),
           FindsNext(s, now, ms, t, cm)
    PROVE  Answers(s, now, ms, took, t, cm, MilliSecondsToNextRun(s, now, ms, took))
<1> USE DEF Millis
<1> DEFINE gap == (t - now) * 1000 - ConsumedTime(ms, took)
           w == IF gap > cm THEN gap - cm ELSE 0
           wait == MilliSecondsToNextRun(s, now, ms, took)
<1>0. t \in Nat /\ now <= t /\ cm \in {0, ms} /\ (t = now => cm = ms)
  BY DEF FindsNext
<1>1. wait = IF Within(w, MaxWaitTime(s)) THEN w ELSE -1
  <2>1. ~ \E v \in {s.hour, s.minute, s.second} : v = <<>>
    BY DEF Legal, Listed
  <2> QED
    BY <2>1 DEF MilliSecondsToNextRun, FoundAt, LeftOver, AtSecond, AtMinute, AtHour, AtDay
<1>2. PICK k \in Nat \ {0} : MaxWaitTime(s) = 1000 * k
  BY MaxWaitSeconds
<1>3. ConsumedTime(ms, took) = IF ms + took < 1000 THEN took ELSE took - 1000
  BY DEF ConsumedTime
<1>4. w \in Nat /\ cm \in 0 .. 999
  BY <1>0, <1>3
<1>5. wait \in Nat \cup {-1}
  BY <1>0, <1>1, <1>4
<1>6. ASSUME ms + took < 1000, wait # -1
      PROVE  Second(now * 1000 + ms + took + wait) = t /\ (wait = 0 <=> t = now)
  <2>1. wait = w /\ gap = (t - now) * 1000 - took
    BY <1>0, <1>1, <1>3, <1>6
  <2>2. CASE t = now
    BY <1>0, <2>1, <2>2, <1>6 DEF Second
  <2>3. CASE now < t
    <3>1. gap > cm
      BY <1>0, <1>4, <1>6, <2>1, <2>3, SMTT(40)
    <3>2. wait = (t - now) * 1000 - took - cm
      BY <1>0, <2>1, <3>1
    <3>3. now * 1000 + ms + took + wait = t * 1000 + (ms - cm)
      BY <1>0, <1>4, <3>2
    <3>4. ms - cm \in 0 .. 999
      <4>1. CASE cm = 0
        BY <1>0, <4>1
      <4>2. CASE cm = ms
        BY <1>0, <4>2
      <4> QED
        BY <1>0, <4>1, <4>2
    <3>5. Second(t * 1000 + (ms - cm)) = t
      <4>1. PICK r \in 0 .. 999 : r = ms - cm
        BY <3>4
      <4>2. (t * 1000 + r) \div 1000 = t
        BY <1>0, SMTT(40)
      <4> QED
        BY <4>1, <4>2 DEF Second
    <3>6. wait # 0
      BY <1>0, <1>4, <2>1, <3>1, <3>2
    <3>7. Second(now * 1000 + ms + took + wait) = t
      <4> HIDE DEF wait
      <4> QED
        BY <3>3, <3>5
    <3> QED
      BY <1>0, <2>3, <3>6, <3>7
  <2> QED
    BY <1>0, <2>2, <2>3
<1>7. ASSUME wait = -1
      PROVE  /\ now < t /\ (t - now) * 1000 >= MaxWaitTime(s)
             /\ ms + took < 1000 => (t - now) * 1000 >= MaxWaitTime(s) + took + cm
  <2>1. w >= 1000 * k
    BY <1>0, <1>1, <1>2, <1>4, <1>7 DEF Within
  <2>2. gap > cm /\ w = gap - cm
    BY <1>0, <2>1
  <2>3. (t - now) * 1000 >= 1000 * k + cm + ConsumedTime(ms, took)
    BY <1>0, <1>3, <1>4, <2>1, <2>2
  <2>4. now < t
    <3>1. t = now => 0 >= 1000 * k + ms + ConsumedTime(ms, took)
      BY <1>0, <1>3, <2>3
    <3>2. 1000 * k + ms + ConsumedTime(ms, took) > 0
      BY <1>0, <1>3
    <3> QED
      BY <1>0, <1>3, <3>1, <3>2
  <2>5. (t - now) * 1000 > 1000 * k - 1000
    BY <1>0, <1>3, <1>4, <2>3
  <2>6. t - now >= k
    BY <1>0, <2>5
  <2> QED
    BY <1>0, <1>2, <1>3, <2>3, <2>4, <2>6
<1> QED
  BY <1>5, <1>6, <1>7 DEF Answers

-----------------------------------------------------------------------------
(* The calculation and the reference                                         *)

LEMMA LastOfDayIs ==
    ASSUME NEW s, Legal(s), Regular(s), NEW now \in Nat
    PROVE  LastOfDay(s, now) <=> Mktime(LastRunOf(s, Localtime(now).day)) = now
<1> DEFINE R == {t \in 0 .. SecondsPerDay - 1 : Scheduled(s, t)}
           first == Mktime(LastRunOf(s, 0))
           d == now \div SecondsPerDay
<1>1. /\ LastRunOf(s, 0) \in Tm /\ InLists(s, LastRunOf(s, 0)) /\ LastRunOf(s, 0).day = 0
      /\ \A x \in Tm : InLists(s, x) /\ x.day <= 0 => ~ Earlier(LastRunOf(s, 0), x)
  <2>1. LastRunOf(s, 0).day = 0
    BY DEF LastRunOf
  <2> QED
    BY <2>1, LastOfToday
<1>2. ASSUME NEW t \in Nat PROVE t < SecondsPerDay <=> Localtime(t).day = 0
  <2>1. /\ t \div SecondsPerDay \in Nat /\ t % SecondsPerDay \in 0 .. SecondsPerDay - 1
        /\ t = (t \div SecondsPerDay) * SecondsPerDay + (t % SecondsPerDay)
    BY SizeFacts, DivFacts
  <2>2. Localtime(t).day = t \div SecondsPerDay
    BY DEF Localtime
  <2>3. t < SecondsPerDay => t \div SecondsPerDay = 0
    <3>1. t < SecondsPerDay => t \in 0 .. SecondsPerDay - 1 /\ t = 0 * SecondsPerDay + t
      BY SizeFacts
    <3>2. \A r \in 0 .. SecondsPerDay - 1 : (0 * SecondsPerDay + r) \div SecondsPerDay = 0
      BY SizeFacts, DivUnique
    <3> QED
      BY <3>1, <3>2
  <2>4. t \div SecondsPerDay = 0 => t < SecondsPerDay
    BY <2>1, SizeFacts
  <2> QED
    BY <2>2, <2>3, <2>4
<1>3. first \in R
  <2>1. first \in Nat /\ Localtime(first) = LastRunOf(s, 0)
    BY <1>1, DigitsUnique, MktimeOrder
  <2> HIDE DEF first
  <2>2. Scheduled(s, first) /\ first < SecondsPerDay
    BY <1>1, <1>2, <2>1 DEF Scheduled, InLists
  <2> QED
    BY <2>1, <2>2, SizeFacts
<1>4. \A t \in R : t <= first
  <2> SUFFICES ASSUME NEW t \in R PROVE t <= first
    OBVIOUS
  <2>1. t \in Nat /\ t < SecondsPerDay /\ Scheduled(s, t)
    BY SizeFacts
  <2>2. Localtime(t) \in Tm /\ Mktime(Localtime(t)) = t /\ InLists(s, Localtime(t))
    BY <2>1, Digits DEF Scheduled, InLists
  <2>3. Localtime(t).day = 0
    BY <1>2, <2>1
  <2>4. ~ Earlier(LastRunOf(s, 0), Localtime(t))
    BY <1>1, <2>2, <2>3
  <2> QED
    BY <1>1, <2>2, <2>4, NotEarlier
<1>5. Max(R) = first
  <2>1. Max(R) \in R /\ \A n \in R : n <= Max(R)
    <3>1. R \subseteq 0 .. SecondsPerDay - 1 /\ R # {} /\ SecondsPerDay - 1 \in Nat
      BY <1>3, SizeFacts
    <3> HIDE DEF R
    <3> QED
      BY <3>1, Largest
  <2>2. Max(R) <= first /\ first <= Max(R) /\ Max(R) \in Int /\ first \in Int
    BY <1>3, <1>4, <2>1
  <2> QED
    BY <2>2
<1>6. Mktime(LastRunOf(s, d)) = d * SecondsPerDay + first /\ first \in Nat
  <2>1. d \in Nat /\ SecondsPerDay \in Nat
    BY SizeFacts, DivFacts
  <2>2. /\ Final(s.hour) \in Nat /\ Final(s.minute) \in Nat /\ Final(s.second) \in Nat
        /\ SecondsPerHour \in Nat /\ SecondsPerMinute \in Nat
    BY ScheduleFacts, SizeFacts
  <2>3. /\ d * SecondsPerDay \in Nat /\ 0 * SecondsPerDay = 0
        /\ Final(s.hour) * SecondsPerHour \in Nat /\ Final(s.minute) * SecondsPerMinute \in Nat
    BY <2>1, <2>2
  <2> HIDE DEF d
  <2> QED
    BY <2>1, <2>2, <2>3 DEF Mktime, LastRunOf
<1>7. now = d * SecondsPerDay + (now % SecondsPerDay) /\ now % SecondsPerDay \in Nat
      /\ d * SecondsPerDay \in Nat
  BY SizeFacts, DivFacts
<1>8. LastOfDay(s, now) <=> first = now % SecondsPerDay
  BY <1>5 DEF LastOfDay
<1>9. Localtime(now).day = d
  BY DEF Localtime
<1> HIDE DEF first, d
<1> QED
  BY <1>6, <1>7, <1>8, <1>9

LEMMA FirstScheduledIs ==
    ASSUME NEW s, NEW from \in Nat, NEW t, IsNext(s, from, t), t <= from + SecondsPerDay
    PROVE  FirstScheduled(s, from) = t
<1> DEFINE R == {u \in from .. from + SecondsPerDay : Scheduled(s, u)}
<1>1. t \in R /\ R \subseteq Nat /\ \A u \in R : t <= u
  BY SizeFacts DEF IsNext
<1> HIDE DEF R
<1>2. Min(R) = t
  BY <1>1, MinIs
<1> QED
  BY <1>2 DEF R, FirstScheduled

LEMMA Found ==
    ASSUME NEW s, Legal(s), Regular(s), NEW now \in Nat, NEW ms \in Millis
    PROVE  FindsNext(s, now, ms, FoundAt(s, now, ms), LeftOver(s, now, ms))
<1> DEFINE end == AtSecond(s, now, ms)
           t == Mktime(end.tm)
           last == LastRunOf(s, Localtime(now).day)
           from == LookFrom(s, now, ms)
<1>1. from \in {now, now + 1} /\ from \in Nat
  BY DEF LookFrom
<1>2. LastOfDay(s, now) <=> Mktime(last) = now
  BY LastOfDayIs
<1>3. Mktime(last) \in Nat
  <2>1. Localtime(now).day \in Nat
    BY Digits DEF Tm
  <2> QED
    BY <2>1, LastOfToday, MktimeOrder
<1>4. CASE Passed(last, now, ms)
  <2>1. /\ end.cm = 0 /\ now < t /\ t <= now + SecondsPerDay
        /\ \A f \in {now, now + 1} : Mktime(last) < f => IsNext(s, f, t)
    <3>1. EndsTomorrow(s, now, ms)
      BY <1>4, FoundTomorrow, Zenon
    <3> QED
      BY <3>1 DEF EndsTomorrow
  <2>2. Mktime(last) < from
    BY <1>2, <1>3, <1>4 DEF Millis, Passed, LookFrom
  <2>3. IsNext(s, from, t) /\ t \in Nat
    BY <1>1, <2>1, <2>2 DEF IsNext
  <2>4. t <= from + SecondsPerDay
    BY <1>1, <2>1, <2>3, SizeFacts
  <2>5. FirstScheduled(s, from) = t
    BY <1>1, <2>3, <2>4, FirstScheduledIs
  <2> QED
    BY <2>1, <2>3, <2>4, <2>5 DEF FoundAt, LeftOver, FindsNext
<1>5. CASE ~ Passed(last, now, ms)
  <2>1. /\ end.cm \in {0, ms} /\ (t = now => end.cm = ms)
        /\ IsNext(s, now, t) /\ t <= now + SecondsPerDay
    <3>1. EndsToday(s, now, ms)
      BY <1>5, FoundToday, Zenon
    <3> QED
      BY <3>1 DEF EndsToday
  <2>2. from = now
    BY <1>2, <1>3, <1>5 DEF Millis, Passed, LookFrom
  <2>3. FirstScheduled(s, now) = t
    BY <2>1, FirstScheduledIs
  <2> QED
    BY <2>1, <2>2, <2>3 DEF IsNext, FoundAt, LeftOver, FindsNext
<1> QED
  BY <1>4, <1>5

-----------------------------------------------------------------------------
(* The loop                                                                  *)

TypeInv ==
    /\ schedule \in Schedules
    /\ time \in Nat /\ wakeAt \in Nat /\ asked \in Nat
    /\ lastRun \in Nat \cup {-1}
    /\ upset \in 0 .. 2
    /\ pc \in {"ask", "wait", "execute", "stopped"}

LEMMA SecondFacts ==
    ASSUME NEW t \in Nat
    PROVE  /\ Second(t) \in Nat /\ Milli(t) \in Millis /\ Milli(t) \in 0 .. 999
           /\ t = Second(t) * 1000 + Milli(t)
BY DEF Second, Milli, Millis

LEMMA MilliFacts ==
    ASSUME NEW t \in Nat
    PROVE  Milli(t) \in Millis
BY DEF Milli, Millis

LEMMA ConstantFacts ==
    /\ \A s \in Schedules : Legal(s)
    /\ Starts \subseteq Nat /\ Took \subseteq Nat /\ Late \subseteq Nat
    /\ RunMillis \subseteq Nat /\ Waited \subseteq Nat /\ Shifts \subseteq Int
BY ScheduleAssumption DEF Legal

\* What the thread learns when it asks from a second on.
AskedFrom(s, now, ms, took, wait, t) ==
    /\ wait \in Nat \cup {-1}
    /\ t \in Nat /\ now <= t
    /\ IsNext(s, LookFrom(s, now, ms), t) /\ t <= LookFrom(s, now, ms) + SecondsPerDay
    /\ wait # -1 /\ ms + took < 1000
          => /\ Second(now * 1000 + ms + took + wait) = t
             /\ wait = 0 <=> t = now
    /\ wait = -1 => now < t /\ (t - now) * 1000 >= MaxWaitTime(s)
    /\ wait = -1 /\ ms + took < 1000 => (t - now) * 1000 >= MaxWaitTime(s) + took

LEMMA CalculationFacts ==
    ASSUME NEW s, Legal(s), Regular(s), NEW now \in Nat, NEW ms \in Millis, NEW took \in Nat
    PROVE  AskedFrom(s, now, ms, took, MilliSecondsToNextRun(s, now, ms, took),
                     FirstScheduled(s, LookFrom(s, now, ms)))
<1>1. PICK t, cm, wait :
         /\ t = FoundAt(s, now, ms) /\ cm = LeftOver(s, now, ms)
         /\ wait = MilliSecondsToNextRun(s, now, ms, took)
  OBVIOUS
<1>2. FindsNext(s, now, ms, t, cm)
  BY <1>1, Found, Zenon
<1>3. Answers(s, now, ms, took, t, cm, wait)
  BY <1>1, <1>2, Answer, Zenon
<1>4. PICK g \in Nat : g = MaxWaitTime(s)
  BY MaxWaitSeconds
<1>5. t \in Nat /\ now <= t /\ cm \in Nat
  BY <1>2 DEF Millis, FindsNext
<1>6. AskedFrom(s, now, ms, took, wait, t)
  BY <1>2, <1>3, <1>4, <1>5 DEF AskedFrom, FindsNext, Answers
<1>7. FirstScheduled(s, LookFrom(s, now, ms)) = t
  BY <1>2 DEF FindsNext
<1> QED
  BY <1>1, <1>6, <1>7

LEMMA AskFacts ==
    ASSUME TypeInv, Regular(schedule), NEW now \in Nat, NEW took \in Nat
    PROVE  /\ AskedFrom(schedule, now, Milli(time), took, Ask(now, took),
                        FirstScheduled(schedule, LookFrom(schedule, now, Milli(time))))
           /\ Ask(now, took) \in Nat \cup {-1}
<1>1. Legal(schedule) /\ Milli(time) \in Millis
  <2>1. schedule \in Schedules /\ time \in Nat
    BY DEF TypeInv
  <2>2. Milli(time) \in Millis
    BY <2>1, MilliFacts
  <2> QED
    BY <2>1, <2>2, ConstantFacts
<1>2. AskedFrom(schedule, now, Milli(time), took, Ask(now, took),
                FirstScheduled(schedule, LookFrom(schedule, now, Milli(time))))
  BY <1>1, CalculationFacts, Zenon DEF Ask
<1> QED
  BY <1>2 DEF AskedFrom

\* A step of the loop that asks: it waits, or nothing is due before the longest gap.
LEMMA PlanFacts ==
    ASSUME TypeInv, Regular(schedule), PlanRun
    PROVE  /\ pc = "ask" /\ UNCHANGED <<schedule, lastRun, due, disturbances>>
           /\ \E took \in Took :
                 /\ took \in Nat
                 /\ upset' = IF Milli(time) + took < 1000 THEN upset ELSE 2
                 /\ \/ /\ pc' = "wait" /\ time' = time + took
                       /\ lastRun # Second(time) /\ Ask(Second(time), took) > 0
                       /\ asked' = Second(time)
                       /\ wakeAt' = time + took + Ask(Second(time), took)
                    \/ /\ pc' = "wait" /\ time' = time + took
                       /\ lastRun = Second(time) \/ Ask(Second(time), took) = 0
                       /\ asked' = Second(time) + 1
                       /\ wakeAt' = time + took + (Ask(Second(time) + 1, took) + 1000)
                    \/ /\ pc' = "stopped" /\ UNCHANGED <<asked, time, wakeAt>>
                       /\ Ask(Second(time), took) = -1
<1>1. PICK took \in Took :
        LET same == lastRun = Second(time)
            first == IF same THEN AskAfter(took) ELSE Ask(Second(time), took)
            skip == same \/ first = 0
            millis == IF first = 0 THEN AskAfter(took) ELSE first
        IN  /\ upset' = IF Milli(time) + took < 1000 THEN upset ELSE 2
            /\ IF millis > 0
               THEN /\ asked' = IF skip THEN Second(time) + 1 ELSE Second(time)
                    /\ time' = time + took
                    /\ wakeAt' = time + took + millis
                    /\ pc' = "wait"
               ELSE /\ pc' = "stopped"
                    /\ UNCHANGED <<asked, time, wakeAt>>
  BY DEF PlanRun
<1>2. took \in Nat /\ Second(time) \in Nat /\ Second(time) + 1 \in Nat
  BY ConstantFacts, SecondFacts DEF TypeInv
<1>3. /\ Ask(Second(time), took) \in Nat \cup {-1}
      /\ Ask(Second(time) + 1, took) \in Nat \cup {-1}
  BY <1>2, AskFacts
<1>4. AskAfter(took) = Ask(Second(time) + 1, took) + 1000 /\ AskAfter(took) > 0
  BY <1>3 DEF AskAfter
<1>5. pc = "ask" /\ UNCHANGED <<schedule, lastRun, due, disturbances>>
  BY DEF PlanRun
<1>6. CASE lastRun = Second(time)
  BY <1>1, <1>2, <1>4, <1>5, <1>6
<1>7. CASE lastRun # Second(time) /\ Ask(Second(time), took) = 0
  BY <1>1, <1>2, <1>4, <1>5, <1>7
<1>8. CASE lastRun # Second(time) /\ Ask(Second(time), took) > 0
  BY <1>1, <1>2, <1>3, <1>5, <1>8
<1>9. CASE lastRun # Second(time) /\ Ask(Second(time), took) = -1
  BY <1>1, <1>2, <1>5, <1>9
<1> QED
  BY <1>3, <1>6, <1>7, <1>8, <1>9

LEMMA TypeStep ==
    ASSUME TypeInv, Regular(schedule), [Next]_vars
    PROVE  TypeInv' /\ Regular(schedule)'
<1>0. Regular(schedule)'
  BY DEF Next, PlanRun, Wake, SetClock, WakeSpuriously, Disturb, Execute, vars, Regular
<1>1. CASE PlanRun
  <2>1. PICK took \in Took :
           /\ took \in Nat
           /\ upset' = IF Milli(time) + took < 1000 THEN upset ELSE 2
           /\ \/ /\ pc' = "wait" /\ time' = time + took
                 /\ lastRun # Second(time) /\ Ask(Second(time), took) > 0
                 /\ asked' = Second(time)
                 /\ wakeAt' = time + took + Ask(Second(time), took)
              \/ /\ pc' = "wait" /\ time' = time + took
                 /\ lastRun = Second(time) \/ Ask(Second(time), took) = 0
                 /\ asked' = Second(time) + 1
                 /\ wakeAt' = time + took + (Ask(Second(time) + 1, took) + 1000)
              \/ /\ pc' = "stopped" /\ UNCHANGED <<asked, time, wakeAt>>
                 /\ Ask(Second(time), took) = -1
    BY <1>1, PlanFacts
  <2>2. Second(time) \in Nat /\ Second(time) + 1 \in Nat
    BY SecondFacts DEF TypeInv
  <2>3. /\ Ask(Second(time), took) \in Nat \cup {-1}
        /\ Ask(Second(time) + 1, took) \in Nat \cup {-1}
    BY <2>1, <2>2, AskFacts
  <2>4. UNCHANGED <<schedule, lastRun>>
    BY <1>1, PlanFacts
  <2> QED
    BY <1>0, <2>1, <2>2, <2>3, <2>4 DEF TypeInv
<1>2. CASE Wake
  BY <1>0, <1>2, ConstantFacts DEF Wake, TypeInv
<1>3. CASE SetClock
  BY <1>0, <1>3, ConstantFacts DEF SetClock, Disturb, TypeInv
<1>4. CASE WakeSpuriously
  BY <1>0, <1>4, ConstantFacts DEF WakeSpuriously, Disturb, TypeInv
<1>5. CASE Execute
  BY <1>0, <1>5, ConstantFacts DEF Execute, TypeInv
<1>6. CASE UNCHANGED vars
  BY <1>0, <1>6 DEF vars, TypeInv
<1> QED
  BY <1>1, <1>2, <1>3, <1>4, <1>5, <1>6 DEF Next

\* Every action leaves the schedule alone.
Typed == Regular(schedule) => TypeInv

LEMMA ScheduleKept == [Next]_vars => UNCHANGED schedule
BY DEF Next, PlanRun, Wake, SetClock, WakeSpuriously, Disturb, Execute, vars

LEMMA TypeInductive == Spec => []Typed
<1>1. Init => Typed
  <2> SUFFICES ASSUME Init PROVE TypeInv
    BY DEF Typed
  <2>1. time \in Nat
    BY ConstantFacts DEF Init
  <2>2. Second(time) \in Nat
    BY <2>1, SecondFacts
  <2> QED
    BY <2>1, <2>2 DEF Init, TypeInv
<1>2. Typed /\ [Next]_vars => Typed'
  <2> SUFFICES ASSUME Typed, [Next]_vars, Regular(schedule)' PROVE TypeInv'
    BY DEF Typed
  <2>1. Regular(schedule)
    BY ScheduleKept DEF Regular
  <2> QED
    BY <2>1, TypeStep DEF Typed
<1> QED
  BY <1>1, <1>2, PTL DEF Spec

\* A calculation that ends within its second gives a wait that ends in the right one.
WaitEnds(from, look, took, t) ==
    /\ t \in Nat /\ from <= t
    /\ t = FirstScheduled(schedule, look)
    /\ IsNext(schedule, look, t) /\ t <= look + SecondsPerDay
    /\ Ask(from, took) \in Nat
    /\ Second(from * 1000 + Milli(time) + took + Ask(from, took)) = t
    /\ Ask(from, took) = 0 <=> t = from

LEMMA RightSecond ==
    ASSUME TypeInv, Regular(schedule), NEW from \in Nat, NEW took \in Took,
           Ask(from, took) # -1, Milli(time) + took < 1000
    PROVE  WaitEnds(from, LookFrom(schedule, from, Milli(time)), took,
                    FirstScheduled(schedule, LookFrom(schedule, from, Milli(time))))
<1>0. time \in Nat /\ took \in Nat
  BY ConstantFacts DEF TypeInv
<1>a. Milli(time) \in 0 .. 999
  BY <1>0, SecondFacts, SMTT(40)
<1>1. PICK ms \in 0 .. 999 : ms = Milli(time)
  BY <1>a
<1>2. PICK w, t, look :
        /\ w = Ask(from, took) /\ look = LookFrom(schedule, from, ms)
        /\ t = FirstScheduled(schedule, look)
  OBVIOUS
<1>3. AskedFrom(schedule, from, ms, took, w, t)
  BY <1>0, <1>1, <1>2, AskFacts
<1>4. w # -1 /\ ms + took < 1000
  BY <1>1, <1>2
<1>5. w \in Nat \cup {-1}
  BY <1>3 DEF AskedFrom
<1>6. w \in Nat
  BY <1>4, <1>5
<1>7. /\ t \in Nat /\ from <= t
      /\ IsNext(schedule, look, t) /\ t <= look + SecondsPerDay
      /\ Second(from * 1000 + ms + took + w) = t
      /\ w = 0 <=> t = from
  BY <1>0, <1>2, <1>3, <1>4, <1>6 DEF AskedFrom
<1> QED
  BY <1>1, <1>2, <1>6, <1>7 DEF WaitEnds

\* What the next run is, also when asked for from the second after.
LEMMA NextAfter ==
    ASSUME NEW s, NEW now \in Nat, NEW from \in {now, now + 1}, NEW t \in Nat, now < t,
           IsNext(s, from, t), t <= from + SecondsPerDay
    PROVE  FirstScheduled(s, now + 1) = t
<1>1. IsNext(s, now + 1, t)
  BY DEF IsNext
<1>2. now + 1 \in Nat /\ t <= now + 1 + SecondsPerDay
  BY SizeFacts
<1> QED
  BY <1>1, <1>2, FirstScheduledIs

\* The next run of a regular schedule is the first scheduled second from now on.
THEOREM NextRunFound == Spec => []NextRunExact
<1>1. Typed => NextRunExact
  <2> SUFFICES ASSUME TypeInv, pc = "ask", Regular(schedule), NEW took \in Took,
                      Ask(Second(time), took) # -1, Milli(time) + took < 1000
               PROVE  Second(time + took + Ask(Second(time), took)) =
                         FirstScheduled(schedule, IF LastOfDay(schedule, Second(time))
                                                     /\ Milli(time) > 0
                                                  THEN Second(time) + 1 ELSE Second(time))
    BY DEF NextRunExact, Typed
  <2>0. time \in Nat /\ took \in Nat
    BY ConstantFacts DEF TypeInv
  <2>a. Second(time) \in Nat /\ Milli(time) \in 0 .. 999
        /\ time = Second(time) * 1000 + Milli(time)
    BY <2>0, SecondFacts
  <2>1. PICK now \in Nat, ms \in 0 .. 999 : now = Second(time) /\ ms = Milli(time)
    BY <2>a
  <2>2. PICK w, t, look :
          /\ w = Ask(now, took) /\ look = LookFrom(schedule, now, ms)
          /\ t = FirstScheduled(schedule, look)
    OBVIOUS
  <2>3. WaitEnds(now, look, took, t)
    BY <2>1, <2>2, RightSecond
  <2>4. w \in Nat /\ Second(now * 1000 + ms + took + w) = t
    BY <2>1, <2>2, <2>3 DEF WaitEnds
  <2>5. time + took + w = now * 1000 + ms + took + w
    BY <2>a, <2>1
  <2>6. Second(time + took + w) = t
    BY <2>4, <2>5
  <2> QED
    BY <2>1, <2>2, <2>6 DEF LookFrom
<1> QED
  BY <1>1, TypeInductive, PTL

\* A regular schedule is refused only when the next run is as far away as its longest gap.
THEOREM RefusedAtLongestGap == Spec => []RefusedOnlyAtLongestGap
<1>1. Init => RefusedOnlyAtLongestGap
  BY DEF Init, RefusedOnlyAtLongestGap
<1>2. Typed /\ RefusedOnlyAtLongestGap /\ [Next]_vars => RefusedOnlyAtLongestGap'
  <2> SUFFICES ASSUME Typed, RefusedOnlyAtLongestGap, [Next]_vars,
                      pc' = "stopped", Regular(schedule)'
               PROVE  (FirstScheduled(schedule, Second(time) + 1) - Second(time))' * 1000
                          >= MaxWaitTime(schedule)'
    BY DEF RefusedOnlyAtLongestGap
  <2>0. Regular(schedule) /\ TypeInv /\ schedule' = schedule
    BY ScheduleKept DEF Regular, Typed
  <2>1. CASE PlanRun
    <3>1. PICK took \in Took : took \in Nat /\ time' = time /\ Ask(Second(time), took) = -1
      BY <2>0, <2>1, PlanFacts
    <3>2. PICK now \in Nat, ms \in 0 .. 999 : now = Second(time) /\ ms = Milli(time)
      BY <2>0, SecondFacts, SMTT(40) DEF TypeInv
    <3>3. PICK t, g : t = FirstScheduled(schedule, LookFrom(schedule, now, ms))
                      /\ g = MaxWaitTime(schedule)
      OBVIOUS
    <3>4. AskedFrom(schedule, now, ms, took, -1, t)
      BY <2>0, <3>1, <3>2, <3>3, AskFacts
    <3>5. /\ t \in Nat /\ now < t /\ (t - now) * 1000 >= g
          /\ IsNext(schedule, LookFrom(schedule, now, ms), t)
          /\ t <= LookFrom(schedule, now, ms) + SecondsPerDay
      BY <3>3, <3>4 DEF AskedFrom
    <3>6. FirstScheduled(schedule, now + 1) = t
      <4>1. LookFrom(schedule, now, ms) \in {now, now + 1}
        BY DEF LookFrom
      <4> QED
        BY <3>5, <4>1, NextAfter
    <3> QED
      BY <2>0, <3>1, <3>2, <3>3, <3>5, <3>6 DEF Second
  <2>2. CASE ~ PlanRun
    <3>1. pc = "stopped" /\ time' = time
      BY <2>2 DEF Next, Wake, SetClock, WakeSpuriously, Disturb, Execute, vars
    <3> QED
      BY <2>0, <3>1 DEF RefusedOnlyAtLongestGap, Second
  <2> QED
    BY <2>1, <2>2
<1> QED
  BY <1>1, <1>2, TypeInductive, PTL DEF Spec

-----------------------------------------------------------------------------
(* The longest gap of a schedule                                             *)

LEMMA MinuteSecond ==
    ASSUME NEW q \in Nat, NEW b \in 0 .. SecondsPerMinute - 1
    PROVE  /\ Localtime(q * SecondsPerMinute + b).min = q % MinutesPerHour
           /\ Localtime(q * SecondsPerMinute + b).sec = b
<1> DEFINE n == q * SecondsPerMinute + b
           tm == Localtime(n)
<1>1. SecondsPerMinute \in Nat \ {0} /\ MinutesPerHour \in Nat \ {0} /\ HoursPerDay \in Nat \ {0}
  BY SizeFacts
<1>2. n \in Nat
  BY <1>1
<1>3. tm \in Tm /\ Mktime(tm) = n
  BY <1>2, Digits
<1> HIDE DEF tm
<1>4. /\ tm.day \in Nat /\ tm.hour \in Nat /\ tm.min \in 0 .. MinutesPerHour - 1
      /\ tm.sec \in 0 .. SecondsPerMinute - 1
  BY <1>3 DEF Tm
<1>5. PICK e \in Nat : e = tm.day * HoursPerDay + tm.hour
  BY <1>1, <1>4
<1>6. PICK u \in Nat : u = e * MinutesPerHour + tm.min
  BY <1>1, <1>4
<1>7. n = u * SecondsPerMinute + tm.sec
  <2>1. n = tm.day * (HoursPerDay * (MinutesPerHour * SecondsPerMinute))
              + tm.hour * (MinutesPerHour * SecondsPerMinute)
              + tm.min * SecondsPerMinute + tm.sec
    BY <1>3 DEF Mktime, SecondsPerDay, SecondsPerHour
  <2> QED
    BY <1>1, <1>4, <1>5, <1>6, <2>1
<1>8. u = q /\ tm.sec = b
  <2>1. n \div SecondsPerMinute = u /\ n % SecondsPerMinute = tm.sec
    BY <1>1, <1>4, <1>7, DivUnique
  <2>2. n \div SecondsPerMinute = q /\ n % SecondsPerMinute = b
    BY <1>1, DivUnique
  <2> QED
    BY <2>1, <2>2
<1>9. u % MinutesPerHour = tm.min
  BY <1>1, <1>4, <1>6, DivUnique
<1> QED
  BY <1>8, <1>9 DEF tm

\* A moment whose minute and second are listed is one of the schedule.
LEMMA ScheduledBy ==
    ASSUME NEW s, Legal(s), Regular(s), NEW q \in Nat, NEW b \in Elements(s.second),
           q % MinutesPerHour \in Elements(s.minute)
    PROVE  q * SecondsPerMinute + b \in Nat /\ Scheduled(s, q * SecondsPerMinute + b)
<1>1. b \in 0 .. SecondsPerMinute - 1
  BY ScheduleFacts
<1>2. PICK n \in Nat : n = q * SecondsPerMinute + b
  BY <1>1, SizeFacts
<1>3. Localtime(n).min = q % MinutesPerHour /\ Localtime(n).sec = b
  BY <1>1, <1>2, MinuteSecond
<1>4. Localtime(n).hour \in Elements(s.hour)
  <2>1. Localtime(n) \in Tm
    BY Digits
  <2> QED
    BY <2>1, ScheduleFacts DEF Tm
<1> QED
  BY <1>2, <1>3, <1>4 DEF Scheduled

\* Around the clock, a list names a number before its longest gap is over.
LEMMA Around ==
    ASSUME NEW max \in Nat \ {0}, NEW v, Listed(v, max), NEW n \in Nat
    PROVE  \E d \in 0 .. MaxGap(v, max) - 1 : (n + d) % max \in Elements(v)
<1>1. PICK g \in 1 .. max : g = MaxGap(v, max)
  BY GapFacts
<1>2. \A k \in 0 .. max - 1 :
           \E e \in Elements(v), d \in 1 .. g : e = k + d \/ e + max = k + d
  <2>1. \A k \in 0 .. max - 1 :
           \E e \in Elements(v), d \in 1 .. MaxGap(v, max) : e = k + d \/ e + max = k + d
    BY ListGap
  <2> QED
    BY <1>1, <2>1, Zenon
<1>3. PICK a \in Nat, c \in 0 .. max - 1 : n = a * max + c
  BY DivFacts
<1>4. a * max \in Nat /\ (a + 1) * max = a * max + max
  OBVIOUS
<1>5. \A e \in Elements(v) : e \in 0 .. max - 1
  BY ListFacts
<1>6. CASE c = 0
  <2>0. max - 1 \in 0 .. max - 1
    OBVIOUS
  <2>1. PICK e \in Elements(v), d \in 1 .. g : e = (max - 1) + d \/ e + max = (max - 1) + d
    BY <1>2, <2>0
  <2>2. e \in 0 .. max - 1 /\ e = d - 1 /\ d - 1 \in 0 .. g - 1
    BY <1>5, <2>1
  <2>3. n + (d - 1) = a * max + e
    BY <1>3, <1>4, <1>6, <2>2
  <2>4. (a * max + e) % max = e
    BY <2>2, DivUnique
  <2> QED
    BY <1>1, <2>2, <2>3, <2>4
<1>7. CASE c # 0
  <2>0. c - 1 \in 0 .. max - 1
    BY <1>7
  <2>1. PICK e \in Elements(v), d \in 1 .. g : e = (c - 1) + d \/ e + max = (c - 1) + d
    BY <1>2, <2>0
  <2>2. e \in 0 .. max - 1 /\ d - 1 \in 0 .. g - 1
    BY <1>5
  <2>3. n + (d - 1) = a * max + e \/ n + (d - 1) = (a + 1) * max + e
    BY <1>3, <1>4, <2>1, <2>2
  <2>4. (a * max + e) % max = e /\ ((a + 1) * max + e) % max = e
    BY <2>2, DivUnique
  <2> QED
    BY <1>1, <2>2, <2>3, <2>4
<1> QED
  BY <1>6, <1>7

\* From any moment a regular schedule names a second before the longest gap is over.
LEMMA NoLongerGap ==
    ASSUME NEW s, Legal(s), Regular(s), NEW now \in Nat, NEW k \in Nat,
           MaxWaitTime(s) = 1000 * k
    PROVE  \E t \in Nat : Scheduled(s, t) /\ now < t /\ t <= now + k
<1> DEFINE S == SecondsPerMinute
<1>1. PICK m, x : m = MaxGap(s.minute, MinutesPerHour) /\ x = MaxGap(s.second, S)
  OBVIOUS
<1>2. /\ S \in Nat \ {0} /\ MinutesPerHour \in Nat \ {0}
      /\ Listed(s.minute, MinutesPerHour) /\ Listed(s.second, S)
  BY SizeFacts DEF Legal
<1>3. m \in 1 .. MinutesPerHour /\ x \in 1 .. S
  BY <1>1, <1>2, GapFacts
<1>4. k >= x /\ (m > 1 => k >= m * S)
  BY <1>1, MaxWaitFacts
<1> HIDE DEF S
<1>5. PICK q \in Nat, r \in 0 .. S - 1 : now = q * S + r
  <2>1. now \div S \in Nat /\ now % S \in 0 .. S - 1 /\ now = (now \div S) * S + (now % S)
    BY <1>2, DivFacts
  <2> QED
    BY <2>1
<1>6. CASE Elements(s.minute) = 0 .. MinutesPerHour - 1
  <2>0. PICK from \in Nat : from = now + 1
    OBVIOUS
  <2>1. PICK d \in 0 .. x - 1 : (from + d) % S \in Elements(s.second)
    BY <1>1, <1>2, Around
  <2>2. PICK t \in Nat : t = now + 1 + d /\ t % S \in Elements(s.second)
    BY <1>3, <2>0, <2>1
  <2>3. t \div S \in Nat /\ t = (t \div S) * S + (t % S)
    BY <1>2, DivFacts
  <2>4. (t \div S) % MinutesPerHour \in Elements(s.minute)
    BY <1>2, <1>6, <2>3, DivFacts
  <2>5. Scheduled(s, t)
    BY <2>2, <2>3, <2>4, ScheduledBy DEF S
  <2> QED
    BY <1>3, <1>4, <2>2, <2>5
<1>7. CASE Len(s.second) = 1
  <2>1. PICK b \in Elements(s.second) : b \in 0 .. S - 1
    BY <1>2, ListFacts
  <2>2. x = S
    BY <1>1, <1>2, <1>7 DEF MaxGap, Listed
  <2>3. k >= m * S
    BY <1>2, <1>3, <1>4, <2>2
  <2>4. ASSUME NEW d \in 0 .. m - 1 PROVE d * S \in Nat /\ d * S + S <= m * S
    <3>1. PICK e \in Nat : m = d + 1 + e
      <4>1. m - 1 - d \in Nat /\ m = d + 1 + (m - 1 - d)
        BY <1>3
      <4> QED
        BY <4>1
    <3>2. m * S = d * S + S + e * S /\ e * S \in Nat /\ d * S \in Nat
      BY <1>2, <3>1
    <3> QED
      BY <1>2, <3>2
  <2>5. CASE r < b
    <3>1. PICK d \in 0 .. m - 1 : (q + d) % MinutesPerHour \in Elements(s.minute)
      BY <1>1, <1>2, Around
    <3>2. PICK u \in Nat : u = q + d
      BY <1>3
    <3>3. u * S + b \in Nat /\ Scheduled(s, u * S + b)
      BY <3>1, <3>2, ScheduledBy DEF S
    <3>4. u * S = q * S + d * S /\ q * S \in Nat /\ d * S \in Nat /\ d * S + S <= m * S
      BY <1>2, <2>4, <3>2
    <3>5. now < u * S + b /\ u * S + b <= now + k
      <4>1. PICK qs \in Nat, ds \in Nat, ms \in Nat :
               qs = q * S /\ ds = d * S /\ ms = m * S /\ u * S = qs + ds
        BY <1>2, <1>3, <3>4
      <4>2. ds + S <= ms /\ ms <= k /\ now = qs + r
        BY <1>5, <2>3, <3>4, <4>1
      <4> QED
        BY <1>2, <2>1, <2>5, <4>1, <4>2
    <3> QED
      BY <3>3, <3>5
  <2>6. CASE b <= r
    <3>0. PICK from \in Nat : from = q + 1
      OBVIOUS
    <3>1. PICK d \in 0 .. m - 1 : (from + d) % MinutesPerHour \in Elements(s.minute)
      BY <1>1, <1>2, Around
    <3>2. PICK u \in Nat : u = from + d
      BY <1>3
    <3>3. u * S + b \in Nat /\ Scheduled(s, u * S + b)
      BY <3>1, <3>2, ScheduledBy DEF S
    <3>4. u * S = q * S + S + d * S /\ q * S \in Nat /\ d * S \in Nat /\ d * S + S <= m * S
      BY <1>2, <2>4, <3>0, <3>2
    <3>5. now < u * S + b /\ u * S + b <= now + k
      BY <1>2, <1>3, <1>5, <2>1, <2>3, <2>6, <3>4
    <3> QED
      BY <3>3, <3>5
  <2> QED
    BY <2>1, <2>5, <2>6
<1> QED
  BY <1>6, <1>7 DEF Regular

-----------------------------------------------------------------------------
(* The runs                                                                  *)

\* The second before the first is the last.
LEMMA BeforeFirst ==
    ASSUME NEW k \in Nat, k >= 2
    PROVE  (1 - k) % k = 1 /\ 1 % k = 1
<1>1. PICK q \in Int, r \in 0 .. k - 1 : r = (1 - k) % k /\ 1 - k = k * q + r
  <2>1. /\ (1 - k) \div k \in Int /\ (1 - k) % k \in 0 .. k - 1
        /\ 1 - k = k * ((1 - k) \div k) + ((1 - k) % k)
    OBVIOUS
  <2> QED
    BY <2>1
<1>2. CASE q = -1
  BY <1>1, <1>2
<1>3. CASE q >= 0
  <2>1. k * q \in Nat
    BY <1>3
  <2> QED
    BY <1>1, <2>1
<1>4. CASE q <= -2
  <2>1. PICK e \in Nat : q = -2 - e
    <3>1. -2 - q \in Nat /\ q = -2 - (-2 - q)
      BY <1>4
    <3> QED
      BY <3>1
  <2>2. k * q = -2 * k - k * e /\ k * e \in Nat
    BY <2>1
  <2> QED
    BY <1>1, <2>2
<1>5. 1 % k = 1
  OBVIOUS
<1> QED
  BY <1>1, <1>2, <1>3, <1>4, <1>5

\* A schedule without neighbouring seconds never runs in two seconds in a row.
LEMMA Neighbours ==
    ASSUME NEW s, Legal(s), Apart(s), NEW n \in Nat, Scheduled(s, n)
    PROVE  ~ Scheduled(s, n + 1)
<1> DEFINE S == SecondsPerMinute
<1>1. S \in Nat \ {0} /\ S >= 2
  BY SizeFacts
<1>2. PICK a, b : a = n % S /\ b = (n + 1) % S
  OBVIOUS
<1>3. SUFFICES ASSUME Scheduled(s, n + 1) PROVE (b - a) % S = 1 /\ a \in Elements(s.second)
                                                  /\ b \in Elements(s.second)
  BY DEF Apart
<1>4. a \in Elements(s.second) /\ b \in Elements(s.second)
  BY <1>2, <1>3 DEF Scheduled, Localtime
<1> HIDE DEF S
<1>5. a \in 0 .. S - 1 /\ n \div S \in Nat /\ n = (n \div S) * S + a
  BY <1>1, <1>2, DivFacts
<1>6. PICK q \in Nat : n = q * S + a
  BY <1>5
<1>7. CASE a + 1 < S
  <2>1. a + 1 \in 0 .. S - 1 /\ n + 1 = q * S + (a + 1)
    BY <1>1, <1>5, <1>6, <1>7
  <2>2. b = a + 1
    <3>1. (q * S + (a + 1)) % S = a + 1
      BY <1>1, <2>1, DivUnique
    <3> QED
      BY <1>2, <2>1, <3>1
  <2>3. b - a = 1
    BY <1>5, <2>2
  <2> QED
    BY <1>1, <1>4, <2>3, BeforeFirst
<1>8. CASE a + 1 = S
  <2>1. 0 \in 0 .. S - 1 /\ n + 1 = (q + 1) * S + 0
    BY <1>1, <1>5, <1>6, <1>8
  <2>2. b = 0
    <3>1. ((q + 1) * S + 0) % S = 0
      BY <1>1, <2>1, DivUnique
    <3> QED
      BY <1>2, <2>1, <3>1
  <2>3. b - a = 1 - S
    BY <1>1, <1>5, <1>8, <2>2
  <2> QED
    BY <1>1, <1>4, <2>3, BeforeFirst
<1> QED
  BY <1>1, <1>5, <1>7, <1>8

LEMMA LastScheduled ==
    ASSUME NEW s, Legal(s), Regular(s), NEW now \in Nat, LastOfDay(s, now)
    PROVE  Scheduled(s, now)
<1>1. Localtime(now) \in Tm
  BY Digits
<1>2. PICK d \in Nat : d = Localtime(now).day
  BY <1>1 DEF Tm
<1>3. Mktime(LastRunOf(s, d)) = now /\ LastRunOf(s, d) \in Tm
  BY <1>2, LastOfDayIs, LastRunTm
<1>4. Localtime(now) = LastRunOf(s, d)
  BY <1>3, DigitsUnique
<1> QED
  BY <1>4, LastOfToday DEF Scheduled, InLists

\* The wait for the next run.
LEMMA NextWait ==
    ASSUME TypeInv, Regular(schedule), NEW took \in Took, Milli(time) + took < 1000,
           Ask(Second(time), took) > 0
    PROVE  \E t \in Nat :
              /\ t = Second(time + took + Ask(Second(time), took))
              /\ Scheduled(schedule, t) /\ Second(time) < t
              /\ t = FirstScheduled(schedule, Second(time) + 1)
<1>1. time \in Nat /\ took \in Nat
  BY ConstantFacts DEF TypeInv
<1>2. Second(time) \in Nat /\ Milli(time) \in 0 .. 999
      /\ time = Second(time) * 1000 + Milli(time)
  BY <1>1, SecondFacts
<1>3. PICK now \in Nat, ms \in 0 .. 999 : now = Second(time) /\ ms = Milli(time)
  BY <1>2
<1>4. PICK w, t, look :
        /\ w = Ask(now, took) /\ look = LookFrom(schedule, now, ms)
        /\ t = FirstScheduled(schedule, look)
  OBVIOUS
<1>5. WaitEnds(now, look, took, t)
  BY <1>3, <1>4, RightSecond
<1>6. /\ w \in Nat /\ t \in Nat /\ now < t
      /\ Second(now * 1000 + ms + took + w) = t
      /\ IsNext(schedule, look, t) /\ t <= look + SecondsPerDay
  BY <1>3, <1>4, <1>5 DEF WaitEnds
<1>7. time + took + w = now * 1000 + ms + took + w
  BY <1>2, <1>3
<1>8. look \in {now, now + 1}
  BY <1>4 DEF LookFrom
<1>9. t = FirstScheduled(schedule, now + 1)
  BY <1>6, <1>8, NextAfter
<1>10. Scheduled(schedule, t)
  BY <1>6 DEF IsNext
<1> QED
  BY <1>3, <1>4, <1>6, <1>7, <1>9, <1>10

\* The wait for the run after the one of this second.
LEMMA WaitAfter ==
    ASSUME TypeInv, Regular(schedule), Apart(schedule),
           NEW took \in Took, Milli(time) + took < 1000, Ask(Second(time) + 1, took) # -1
    PROVE  \E t \in Nat :
              /\ t = Second(time + took + (Ask(Second(time) + 1, took) + 1000))
              /\ Scheduled(schedule, t) /\ Second(time) + 1 <= t
              /\ Scheduled(schedule, Second(time)) => t = FirstScheduled(schedule, Second(time) + 1)
<1>1. time \in Nat /\ took \in Nat
  BY ConstantFacts DEF TypeInv
<1>2. Second(time) \in Nat /\ Milli(time) \in 0 .. 999
      /\ time = Second(time) * 1000 + Milli(time)
  BY <1>1, SecondFacts
<1>3. PICK now \in Nat, ms \in 0 .. 999 : now = Second(time) /\ ms = Milli(time)
  BY <1>2
<1>3a. PICK from \in Nat : from = now + 1
  OBVIOUS
<1>4. PICK w, t, look :
        /\ w = Ask(from, took) /\ look = LookFrom(schedule, from, ms)
        /\ t = FirstScheduled(schedule, look)
  OBVIOUS
<1>5. WaitEnds(from, look, took, t)
  BY <1>3, <1>3a, <1>4, RightSecond
<1>6. /\ w \in Nat /\ t \in Nat /\ from <= t
      /\ Second(from * 1000 + ms + took + w) = t
      /\ IsNext(schedule, look, t) /\ t <= look + SecondsPerDay
  BY <1>3, <1>4, <1>5 DEF WaitEnds
<1>7. time + took + (w + 1000) = from * 1000 + ms + took + w
  BY <1>1, <1>2, <1>3, <1>3a, <1>6
<1>8. Scheduled(schedule, t)
  BY <1>6 DEF IsNext
<1>9. ASSUME Scheduled(schedule, now) PROVE look = from
  <2>1. Legal(schedule)
    BY ConstantFacts DEF TypeInv
  <2>2. ~ Scheduled(schedule, from)
    BY <1>3a, <1>9, <2>1, Neighbours
  <2>3. ~ LastOfDay(schedule, from)
    BY <2>1, <2>2, LastScheduled
  <2> QED
    BY <1>4, <2>3 DEF LookFrom
<1> QED
  BY <1>3, <1>3a, <1>4, <1>6, <1>7, <1>8, <1>9

\* No answer for the second after this one: it is the last of its day and the thread's
\* wait of almost a second ends in it.
LEMMA NoAnswerAfter ==
    ASSUME TypeInv, Regular(schedule), NEW took \in Took, Milli(time) + took < 1000,
           Ask(Second(time) + 1, took) = -1
    PROVE  /\ Second(time + took + (-1 + 1000)) = Second(time) + 1
           /\ Scheduled(schedule, Second(time) + 1)
<1>1. time \in Nat /\ took \in Nat /\ Legal(schedule)
  BY ConstantFacts DEF TypeInv
<1>2. Second(time) \in Nat /\ Milli(time) \in 0 .. 999
      /\ time = Second(time) * 1000 + Milli(time)
  BY <1>1, SecondFacts
<1>3. PICK now \in Nat, ms \in 0 .. 999 : now = Second(time) /\ ms = Milli(time)
  BY <1>2
<1>4. PICK from \in Nat : from = now + 1
  OBVIOUS
<1>5. PICK t, look :
        /\ look = LookFrom(schedule, from, ms) /\ t = FirstScheduled(schedule, look)
  OBVIOUS
<1>6. AskedFrom(schedule, from, ms, took, -1, t)
  BY <1>1, <1>3, <1>4, <1>5, AskFacts
<1>7. PICK k \in Nat : MaxWaitTime(schedule) = 1000 * k
  BY <1>1, MaxWaitSeconds
<1>8. /\ t \in Nat /\ from < t /\ IsNext(schedule, look, t)
      /\ (t - from) * 1000 >= 1000 * k + took
  BY <1>3, <1>5, <1>6, <1>7 DEF AskedFrom
<1>9. look \in {from, from + 1}
  BY <1>5 DEF LookFrom
<1>10. \A u \in Nat : Scheduled(schedule, u) /\ from < u => t <= u
  BY <1>8, <1>9 DEF IsNext
<1>11. t = from + k /\ took = 0
  <2>1. PICK u \in Nat : Scheduled(schedule, u) /\ from < u /\ u <= from + k
    BY <1>1, <1>7, NoLongerGap
  <2> QED
    BY <1>1, <1>8, <1>10, <2>1
<1>12. Scheduled(schedule, from)
  <2>1. PICK u \in Nat : Scheduled(schedule, u) /\ now < u /\ u <= now + k
    BY <1>1, <1>7, NoLongerGap
  <2>2. u = from
    BY <1>4, <1>10, <1>11, <2>1
  <2> QED
    BY <2>1, <2>2
<1>13. look = from + 1
  BY <1>5, <1>8, <1>9, <1>12 DEF IsNext
<1>14. ms > 0
  BY <1>5, <1>13 DEF LookFrom
<1>15. time + took + (-1 + 1000) = from * 1000 + (ms - 1) /\ ms - 1 \in 0 .. 999
  BY <1>2, <1>3, <1>4, <1>11, <1>14
<1>16. Second(from * 1000 + (ms - 1)) = from
  BY <1>15, DivUnique DEF Second
<1> QED
  BY <1>3, <1>4, <1>12, <1>15, <1>16

\* What the loop keeps, besides its types: when the thread asks, the run that is due is the
\* first scheduled one after this second, and a second it takes for done was scheduled; when
\* it waits and executes, the wait ends in a scheduled second, after the one it asked from.
RunInv ==
    Regular(schedule) /\ Apart(schedule) =>
        /\ pc = "ask" /\ upset = 0 =>
              /\ due = FirstScheduled(schedule, Second(time) + 1)
              /\ lastRun = Second(time) => Scheduled(schedule, Second(time))
        /\ pc = "wait" /\ upset <= 1 =>
              Scheduled(schedule, Second(wakeAt)) /\ asked <= Second(wakeAt)
        /\ pc = "execute" /\ upset <= 1 =>
              Scheduled(schedule, Second(wakeAt)) /\ lastRun <= Second(wakeAt)
        /\ pc \in {"wait", "execute"} /\ upset = 0 => Second(wakeAt) = due
        /\ pc = "execute" => wakeAt <= time

\* The wait the loop begins ends where it should.
LEMMA PlanWaits ==
    ASSUME TypeInv, RunInv, Regular(schedule), Apart(schedule), PlanRun, pc' = "wait", upset' <= 1
    PROVE  /\ Scheduled(schedule, Second(wakeAt')) /\ asked' <= Second(wakeAt')
           /\ upset' = 0 => Second(wakeAt') = due
<1>1. PICK took \in Took :
         /\ took \in Nat
         /\ upset' = IF Milli(time) + took < 1000 THEN upset ELSE 2
         /\ \/ /\ pc' = "wait" /\ time' = time + took
               /\ lastRun # Second(time) /\ Ask(Second(time), took) > 0
               /\ asked' = Second(time)
               /\ wakeAt' = time + took + Ask(Second(time), took)
            \/ /\ pc' = "wait" /\ time' = time + took
               /\ lastRun = Second(time) \/ Ask(Second(time), took) = 0
               /\ asked' = Second(time) + 1
               /\ wakeAt' = time + took + (Ask(Second(time) + 1, took) + 1000)
            \/ /\ pc' = "stopped" /\ UNCHANGED <<asked, time, wakeAt>>
               /\ Ask(Second(time), took) = -1
  BY PlanFacts
<1>2. Milli(time) + took < 1000 /\ upset' = upset /\ pc = "ask"
  BY <1>1, PlanFacts
<1>3. time \in Nat /\ Second(time) \in Nat
  BY SecondFacts DEF TypeInv
<1>4. upset = 0 => /\ due = FirstScheduled(schedule, Second(time) + 1)
                   /\ lastRun = Second(time) => Scheduled(schedule, Second(time))
  BY <1>2 DEF RunInv
<1>5. CASE Ask(Second(time), took) > 0 /\ asked' = Second(time)
           /\ wakeAt' = time + took + Ask(Second(time), took)
  <2>1. PICK t \in Nat :
          /\ t = Second(time + took + Ask(Second(time), took))
          /\ Scheduled(schedule, t) /\ Second(time) < t
          /\ t = FirstScheduled(schedule, Second(time) + 1)
    BY <1>2, <1>5, NextWait
  <2> QED
    BY <1>2, <1>3, <1>4, <1>5, <2>1
<1>6. CASE /\ lastRun = Second(time) \/ Ask(Second(time), took) = 0
           /\ asked' = Second(time) + 1
           /\ wakeAt' = time + took + (Ask(Second(time) + 1, took) + 1000)
  <2>1. upset = 0 => Scheduled(schedule, Second(time))
    <3>1. ASSUME Ask(Second(time), took) = 0 PROVE Scheduled(schedule, Second(time))
      <4>1. PICK now, look, t :
              /\ now \in Nat /\ now = Second(time)
              /\ look = LookFrom(schedule, now, Milli(time))
              /\ t = FirstScheduled(schedule, look)
        BY <1>3
      <4>2. Ask(now, took) # -1
        BY <3>1, <4>1
      <4>3. WaitEnds(now, look, took, t)
        BY <1>2, <4>1, <4>2, RightSecond
      <4> QED
        BY <3>1, <4>1, <4>3 DEF WaitEnds, IsNext
    <3> QED
      BY <1>4, <1>6, <3>1
  <2>2. CASE Ask(Second(time) + 1, took) # -1
    <3>1. PICK t \in Nat :
            /\ t = Second(time + took + (Ask(Second(time) + 1, took) + 1000))
            /\ Scheduled(schedule, t) /\ Second(time) + 1 <= t
            /\ Scheduled(schedule, Second(time))
                  => t = FirstScheduled(schedule, Second(time) + 1)
      BY <1>2, <2>2, WaitAfter
    <3> QED
      BY <1>2, <1>3, <1>4, <1>6, <2>1, <3>1
  <2>3. CASE Ask(Second(time) + 1, took) = -1
    <3>1. /\ Second(time + took + (-1 + 1000)) = Second(time) + 1
          /\ Scheduled(schedule, Second(time) + 1)
      BY <1>2, <2>3, NoAnswerAfter
    <3>2. upset # 0
      <4>1. Legal(schedule)
        BY ConstantFacts DEF TypeInv
      <4> QED
        BY <1>3, <2>1, <3>1, <4>1, Neighbours
    <3> QED
      BY <1>2, <1>3, <1>6, <2>3, <3>1, <3>2
  <2> QED
    BY <2>2, <2>3
<1> QED
  BY <1>1, <1>5, <1>6

LEMMA SecondsInOrder ==
    ASSUME NEW a \in Nat, NEW b \in Nat, a <= b
    PROVE  Second(a) \in Nat /\ Second(b) \in Nat /\ Second(a) <= Second(b)
<1>1. /\ Second(a) \in Nat /\ Milli(a) \in 0 .. 999 /\ a = Second(a) * 1000 + Milli(a)
      /\ Second(b) \in Nat /\ Milli(b) \in 0 .. 999 /\ b = Second(b) * 1000 + Milli(b)
  BY SecondFacts
<1>2. PICK x \in Nat, u \in 0 .. 999 : x = Second(a) /\ u = Milli(a)
  BY <1>1
<1>3. PICK y \in Nat, v \in 0 .. 999 : y = Second(b) /\ v = Milli(b)
  BY <1>1
<1>4. a = x * 1000 + u /\ b = y * 1000 + v
  BY <1>1, <1>2, <1>3
<1>5. x <= y
  BY <1>4
<1> QED
  BY <1>2, <1>3, <1>5

LEMMA RunStep ==
    ASSUME Typed, RunInv, [Next]_vars
    PROVE  RunInv'
<1>1. SUFFICES ASSUME Regular(schedule), Apart(schedule), TypeInv, TypeInv'
               PROVE  RunInv'
  <2>1. schedule' = schedule
    BY ScheduleKept
  <2>2. Regular(schedule)' = Regular(schedule) /\ Apart(schedule)' = Apart(schedule)
    BY <2>1 DEF Regular, Apart
  <2>3. CASE Regular(schedule) /\ Apart(schedule)
    BY <2>3, TypeStep, <1>1 DEF Typed
  <2> QED
    BY <2>2, <2>3 DEF RunInv
<1>2. schedule' = schedule
  BY ScheduleKept
<1>3. CASE PlanRun
  <2>1. pc' \in {"wait", "stopped"}
    BY <1>3 DEF PlanRun
  <2>2. due' = due
    BY <1>3 DEF PlanRun
  <2>3. ASSUME pc' = "wait", upset' <= 1
        PROVE  /\ Scheduled(schedule, Second(wakeAt')) /\ asked' <= Second(wakeAt')
               /\ upset' = 0 => Second(wakeAt') = due
    BY <1>1, <1>3, <2>3, PlanWaits
  <2>4. upset' = 0 => upset' <= 1
    OBVIOUS
  <2> QED
    BY <1>2, <2>1, <2>2, <2>3, <2>4 DEF RunInv, Second
<1>4. CASE Wake
  <2>1. PICK late \in Late : late \in Nat /\ time' = wakeAt + late
    BY <1>4, ConstantFacts DEF Wake
  <2>2. wakeAt <= time'
    BY <1>1, <2>1 DEF TypeInv
  <2> QED
    BY <1>1, <1>2, <1>4, <2>2 DEF Wake, RunInv, Second
<1>5. CASE SetClock \/ WakeSpuriously
  <2>1. pc' = "wait" /\ upset' = 2
    BY <1>5 DEF SetClock, WakeSpuriously, Disturb
  <2> QED
    BY <2>1 DEF RunInv
<1>6. CASE Execute
  <2>1. PICK d \in RunMillis : d \in Nat /\ time' = time + d
    BY <1>6, ConstantFacts DEF Execute
  <2>2. /\ pc = "execute" /\ pc' = "ask" /\ lastRun' = lastRun
        /\ due' = FirstScheduled(schedule, Second(time') + 1)
        /\ upset' = IF upset > 0 THEN upset - 1 ELSE 0
    BY <1>6 DEF Execute
  <2>3. wakeAt \in Nat /\ time' \in Nat /\ wakeAt <= time'
    BY <1>1, <2>1, <2>2 DEF TypeInv, RunInv
  <2>4. Second(wakeAt) \in Nat /\ Second(time') \in Nat /\ Second(wakeAt) <= Second(time')
    BY <2>3, SecondsInOrder
  <2>5. ASSUME upset' = 0, lastRun' = Second(time') PROVE Scheduled(schedule, Second(time'))
    <3>1. upset <= 1
      BY <1>1, <2>2, <2>5 DEF TypeInv
    <3>2. Scheduled(schedule, Second(wakeAt)) /\ lastRun <= Second(wakeAt)
      BY <1>1, <2>2, <3>1 DEF RunInv
    <3>3. Second(wakeAt) = Second(time')
      BY <2>2, <2>4, <2>5, <3>2
    <3> QED
      BY <3>2, <3>3
  <2> QED
    BY <1>2, <2>2, <2>5 DEF RunInv, Second
<1>7. CASE UNCHANGED vars
  BY <1>1, <1>7 DEF RunInv, vars
<1> QED
  BY <1>3, <1>4, <1>5, <1>6, <1>7 DEF Next

\* Every run of a regular schedule without neighbouring seconds is the one that is due,
\* until the clock is set, a wait is cut short or a calculation takes too long, and again
\* from the second run after that on.
THEOREM RunsAreDue == Spec => []EveryRunIsDue
<1>1. Init => RunInv
  <2> SUFFICES ASSUME Init PROVE RunInv
    OBVIOUS
  <2>1. Second(time) \in Nat
    BY ConstantFacts, SecondFacts DEF Init
  <2> QED
    BY <2>1 DEF Init, RunInv
<1>2. Typed /\ RunInv /\ [Next]_vars => RunInv'
  BY RunStep
<1>3. RunInv => EveryRunIsDue
  BY DEF RunInv, EveryRunIsDue
<1> QED
  BY <1>1, <1>2, <1>3, TypeInductive, PTL DEF Spec
-----------------------------------------------------------------------------
(* The page                                                                  *)

\* Whatever regular or irregular schedule of ascending lists is configured, opening its page
\* and saving it keeps exactly the lists that ListProofs names: the others are changed
\* although nobody touched them.
THEOREM SchedulesResaved == Spec => []ResaveKeeps
<1>1. Init => schedule \in Schedules
  BY DEF Init
<1>2. schedule \in Schedules /\ [Next]_vars => (schedule \in Schedules)'
  BY ScheduleKept
<1>3. schedule \in Schedules => ResaveKeeps
  <2> SUFFICES ASSUME schedule \in Schedules PROVE ResaveKeeps
    OBVIOUS
  <2>1. Listed(schedule.minute, MinutesPerHour) /\ Listed(schedule.second, SecondsPerMinute)
    BY ScheduleAssumption
  <2>2. Listing(schedule.minute, MinutesPerHour) /\ Listing(schedule.second, SecondsPerMinute)
    BY <2>1 DEF Listed, Listing
  <2>3. MinutesPerHour \in Nat /\ SecondsPerMinute \in Nat
    BY ClockAssumption
  <2> DEFINE Kept(a, max) == Resaved(a, max) = a <=> Len(a) = max \/ ~ RunBeforeOther(a)
  <2>4. Kept(schedule.minute, MinutesPerHour) /\ Kept(schedule.second, SecondsPerMinute)
    BY <2>2, <2>3, ResavedLists
  <2> QED
    BY <2>4 DEF ResaveKeeps
<1> QED
  BY <1>1, <1>2, <1>3, PTL DEF Spec
=============================================================================
