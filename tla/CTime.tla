---------------------------------- MODULE CTime ----------------------------------
(***************************************************************************)
(* The run time's dates (CTIME.C): a time is two 16-bit words, high and    *)
(* low, and everything is computed in 16 bits.  The calendar they must     *)
(* agree with is told from the days of each month.                         *)
(***************************************************************************)
EXTENDS Integers, Sequences, FiniteSets

W == 65536
Signed(n) == ((n + W \div 2) % W) - W \div 2

(* a + b for a positive b: the carry of the low word goes to the high.     *)
dpadd(a, b) == <<IF (a[2] + b) % W < b THEN (a[1] + 1) % W ELSE a[1], (a[2] + b) % W>>

Quotient(a, b) == IF a < 0 THEN -((-a) \div b) ELSE a \div b

(* Long division bit by bit; the quotient keeps 16 bits.                   *)
Bit(w, i) == (w \div (2 ^ i)) % 2
Shifted(a, i, r) == (2 * r) + Bit(IF i >= 16 THEN a[1] ELSE a[2], i % 16)
Divided(q, r, b, i) ==
    IF r >= b THEN [q |-> IF Bit(q, i % 16) = 1 THEN q ELSE q + (2 ^ (i % 16)), r |-> r - b] ELSE [q |-> q, r |-> r]
ldiv(a, b) ==
    LET f[n \in 0..32] == IF n = 0 THEN [q |-> 0, r |-> 0]
                          ELSE LET d == f[n - 1] IN Divided(d.q, Shifted(a, 32 - n, d.r) % W, b, 32 - n)
    IN  f[32]

dysizeEvery(y) == 365 + (IF y % 4 = 1 THEN 1 ELSE 0)
dysize(y) == IF y % 4 = 0 THEN 366 ELSE 365
dmsize(y) == <<31, IF dysize(y) = 366 THEN 29 ELSE 28, 31, 30, 31, 30, 31, 31, 30, 31, 30, 31>>

RECURSIVE Year(_, _), Month(_, _, _)
Year(d, y)         == IF d >= dysize(y) THEN Year(d - dysize(y), y + 1) ELSE [day |-> d, year |-> y]
Month(d, sizes, m) == IF d >= sizes[m + 1] THEN Month(d - sizes[m + 1], sizes, m + 1) ELSE [day |-> d, month |-> m]
Dated(y, m, days, s) ==
    [sec |-> s % 60, min |-> (s \div 60) % 60, hour |-> (s \div 3600) % 24, mday |-> m.day + 1, mon |-> m.month,
     year |-> y.year, wday |-> (days + 4) % 7, yday |-> y.day, isday |-> 0]
OfYear(y, days, s) == Dated(y, Month(y.day, dmsize(y.year), 0), days, s)
(* d counts 8 hours and r the seconds beyond.                              *)
OfDay(d, s)  == OfYear(Year(d, 70), d, s)
Broken(d, r) == OfDay(Quotient(d, 3), r + (28800 * (d - 3 * Quotient(d, 3))))
gmtime(tim)  == LET d == ldiv(tim, 28800) IN Broken(Signed(d.q), d.r)

(* The last Sunday up to day d of ct's year.                               *)
SundayOf(ct, d) == d - ((d - ct.yday + ct.wday + 700) % 7)
sunday(ct, d)   == SundayOf(ct, IF d >= 58 THEN d + dysize(ct.year) - 365 ELSE d)
daytab(y) == CASE y = 74 -> <<5, 333>> [] y = 75 -> <<58, 303>> [] OTHER -> <<119, 303>>
Saved(ct, begin, end) ==
    /\ ct.yday > begin \/ (ct.yday = begin /\ ct.hour >= 2)
    /\ ct.yday < end \/ (ct.yday = end /\ ct.hour < 1)
Daylight(ct) == Saved(ct, sunday(ct, daytab(ct.year)[1]), sunday(ct, daytab(ct.year)[2]))
LocalOf(t, ct) == IF Daylight(ct) THEN [gmtime(dpadd(t, 3600)) EXCEPT !.isday = 1] ELSE ct
localtime(t)   == LocalOf(t, gmtime(t))

ct_numb(n)  == <<IF n >= 10 THEN (n \div 10) % 10 ELSE " ", n % 10>>
asctime(ct) == <<ct.wday, ct.mon, ct_numb(ct.mday), ct_numb(ct.hour + 100), ct_numb(ct.min + 100), ct_numb(ct.sec + 100), ct_numb(ct.year)>>

----
(* The calendar.  A time is its year, day of the year and second of it.    *)
LastYear == 99          \* d0 turns negative in November 1999
YearDays(y) == {d \in 0..365 : d < 365 \/ y % 4 = 0}
Days(y, d)  == 365 * (y - 70) + Cardinality({k \in 70..(y - 1) : k % 4 = 0}) + d
Time(y, d, s) == <<(Days(y, d) * 86400 + s) \div W, (Days(y, d) * 86400 + s) % W>>
Reached(y, d) == d < 300 \/ y < LastYear

(* The first day of month m, and the Sunday that starts or ends summer.    *)
First(y, m) == (<<0, 31, 59, 90, 120, 151, 181, 212, 243, 273, 304, 334>>)[m + 1] + (IF m > 1 /\ y % 4 = 0 THEN 1 ELSE 0)
LastSunday(y, m) == CHOOSE d \in First(y, m)..(First(y, m + 1) - 1) : (Days(y, d) + 4) % 7 = 0 /\ d + 7 >= First(y, m + 1)
Starts(y) == CASE y = 74 -> 5 [] y = 75 -> LastSunday(y, 1) [] OTHER -> LastSunday(y, 3)
Stops(y)  == IF y = 74 THEN LastSunday(y, 10) ELSE LastSunday(y, 9)
Summer(y, d, s) == d * 86400 + s \in (Starts(y) * 86400 + 7200)..(Stops(y) * 86400 + 3599)

Agrees(ct, y, d, s) ==
    /\ ct.year = y /\ ct.yday = d /\ First(y, ct.mon) + ct.mday = d + 1
    /\ ct.mon < 11 => d < First(y, ct.mon + 1)
    /\ (ct.hour * 60 + ct.min) * 60 + ct.sec = s /\ ct.min < 60 /\ ct.sec < 60 /\ (Days(y, d) + 4) % 7 = ct.wday
Digits(n) == <<n \div 10, n % 10>>
Printed(ct) == asctime(ct) = <<ct.wday, ct.mon, IF ct.mday < 10 THEN <<" ", ct.mday>> ELSE Digits(ct.mday),
                               Digits(ct.hour), Digits(ct.min), Digits(ct.sec), Digits(ct.year)>>
Told(ct, y, d, s, summer) ==
    /\ Agrees(ct, y, d + (IF summer /\ s >= 82800 THEN 1 ELSE 0), IF summer THEN (s + 3600) % 86400 ELSE s)
    /\ ct.isday = (IF summer THEN 1 ELSE 0) /\ Printed(ct)

(* localtime and asctime give the date and the hour of the calendar,       *)
(* summer time included, for every time up to November 1999.               *)
DatesRight(y, d, s) == (d \in YearDays(y) /\ Reached(y, d)) => Told(localtime(Time(y, d, s)), y, d, s, Summer(y, d, s))
====
