--------------------------- MODULE ServicesProofs ---------------------------
(***************************************************************************)
(* Proofs about services that keep to themselves: the days on which rules  *)
(* are due again, the Pomodoro timer, the worklog timers, the events of    *)
(* GitHub and the deployments, AI triage and its budget, automations,      *)
(* imports from other trackers, the rules for snoozing, formula fields,    *)
(* and the processor of export runs; and about all of them side by side.   *)
(***************************************************************************)
EXTENDS MCServices, Integers, FiniteSetTheorems, WellFoundedInduction, TLAPS

LowerNumber == {p \in Nat \X Nat : p[1] < p[2]}

\* Numbers have a least one.
LEMMA LeastNumber ==
  ASSUME NEW S \in SUBSET Nat, S # {}
  PROVE  \E x \in S : \A y \in S : x <= y
<1>1. IsWellFoundedOn(LowerNumber, Nat)
  BY NatLessThanWellFounded DEF OpToRel, LowerNumber
<1>2. PICK x \in S : \A y \in S : <<y, x>> \notin LowerNumber
  BY <1>1, WFMin
<1>3. ASSUME NEW y \in S PROVE x <= y
  <2>1. y < x => <<y, x>> \in LowerNumber
    BY DEF LowerNumber
  <2> QED
    BY <1>2, <2>1
<1> QED
  BY <1>3

\* And Min is it.
LEMMA MinIsLeast ==
  ASSUME NEW S \in SUBSET Nat, S # {}
  PROVE  Min(S) \in S /\ \A y \in S : Min(S) <= y
  BY LeastNumber DEF Min

-----------------------------------------------------------------------------
(* The calendar of computeNextRun. *)

\* A month has 28 to 31 days, and one of less than 31 is followed by one of 31.
LEMMA Months ==
  ASSUME NEW m \in Nat
  PROVE  /\ MonthLength(m) \in 28..31
         /\ MonthLength(m) < 31 => MonthLength(m + 1) = 31
<1> DEFINE r == m % 12
<1>1. r \in 0..11 /\ (m + 1) % 12 = IF r = 11 THEN 0 ELSE r + 1
  OBVIOUS
<1>2. MonthLength(m) \in {29, MonthLengths[r + 1]} /\ (r # 1 => MonthLength(m) = MonthLengths[r + 1])
  BY DEF MonthLength
<1>3. MonthLength(m + 1) = MonthLengths[((m + 1) % 12) + 1] \/ r = 0
  BY <1>1 DEF MonthLength
<1> HIDE DEF r
<1>4. MonthLengths[r + 1] \in {28, 30, 31} /\ (r = 0 => MonthLengths[r + 1] = 31)
  BY <1>1 DEF MonthLengths
<1>5. CASE r \in {0, 2, 4, 6, 7, 9, 11}
  BY <1>2, <1>4, <1>5 DEF MonthLengths
<1>6. CASE r \in {1, 3, 5, 8, 10}
  BY <1>1, <1>2, <1>3, <1>4, <1>6 DEF MonthLengths
<1> QED
  BY <1>1, <1>5, <1>6

\* What firstOf is on the first n months.
Starts(f, n) == f = [m \in 0..n |-> IF m = 0 THEN 0 ELSE f[m - 1] + MonthLength(m - 1)]
Begun(n) == \E f : Starts(f, n)
TheStarts(n) == CHOOSE f : Starts(f, n)

LEMMA StartsAgree ==
  ASSUME NEW n \in Nat, NEW k \in Nat, NEW f, NEW g, Starts(f, n), Starts(g, k),
         NEW m0 \in Nat, m0 <= n, m0 <= k
  PROVE  f[m0] = g[m0]
<1> DEFINE B == {m \in 0..n : m <= k /\ f[m] # g[m]}
<1> SUFFICES ASSUME B # {} PROVE FALSE
  OBVIOUS
<1>1. B \in SUBSET Nat
  OBVIOUS
<1>2. PICK m \in B : \A y \in B : m <= y
  <2> HIDE DEF B
  <2> QED
    BY <1>1, MinIsLeast
<1>3. m \in 0..n /\ m \in 0..k /\ f[m] # g[m]
  BY <1>2
<1>4. f[m] = IF m = 0 THEN 0 ELSE f[m - 1] + MonthLength(m - 1)
  BY <1>3 DEF Starts
<1>5. g[m] = IF m = 0 THEN 0 ELSE g[m - 1] + MonthLength(m - 1)
  BY <1>3 DEF Starts
<1>6. m # 0 => m - 1 \notin B /\ m - 1 \in 0..n /\ m - 1 <= k
  BY <1>2, <1>3
<1> QED
  BY <1>3, <1>4, <1>5, <1>6

LEMMA AllBegun == ASSUME NEW n0 \in Nat PROVE Begun(n0)
<1> DEFINE B == {n \in Nat : ~Begun(n)}
<1> SUFFICES ASSUME B # {} PROVE FALSE
  OBVIOUS
<1>1. B \in SUBSET Nat
  OBVIOUS
<1>2. PICK n \in B : \A y \in B : n <= y
  <2> HIDE DEF B
  <2> QED
    BY <1>1, MinIsLeast
<1>3. CASE n = 0
  <2> DEFINE f == [m \in 0..0 |-> 0]
  <2>1. f = [m \in 0..0 |-> IF m = 0 THEN 0 ELSE f[m - 1] + MonthLength(m - 1)]
    OBVIOUS
  <2>2. Starts(f, 0)
    BY <2>1 DEF Starts
  <2> QED
    BY <1>2, <1>3, <2>2 DEF Begun
<1>4. CASE n # 0
  <2>1. n - 1 \in Nat /\ n - 1 \notin B
    BY <1>2, <1>4
  <2>2. PICK f : Starts(f, n - 1)
    BY <2>1 DEF Begun
  <2> DEFINE g == [m \in 0..n |-> IF m = n THEN f[n - 1] + MonthLength(n - 1) ELSE f[m]]
  <2>3. ASSUME NEW m \in 0..n PROVE g[m] = IF m = 0 THEN 0 ELSE g[m - 1] + MonthLength(m - 1)
    <3>1. CASE m = n
      BY <1>4, <2>1, <3>1
    <3>2. CASE m # n
      <4>1. m \in 0..(n - 1)
        BY <2>1, <3>2
      <4>2. f[m] = IF m = 0 THEN 0 ELSE f[m - 1] + MonthLength(m - 1)
        BY <2>2, <4>1 DEF Starts
      <4>3. m # 0 => m - 1 \in 0..n /\ m - 1 # n
        BY <2>1, <4>1
      <4> QED
        BY <3>2, <4>2, <4>3
    <3> QED
      BY <3>1, <3>2
  <2>4. g = [m \in 0..n |-> g[m]]
    OBVIOUS
  <2> HIDE DEF g
  <2>5. g = [m \in 0..n |-> IF m = 0 THEN 0 ELSE g[m - 1] + MonthLength(m - 1)]
    BY <2>3, <2>4
  <2> QED
    BY <1>2, <2>5 DEF Begun, Starts
<1> QED
  BY <1>3, <1>4

\* firstOf is what its definition says.
FirstOfStep(f) == f = [m \in Nat |-> IF m = 0 THEN 0 ELSE f[m - 1] + MonthLength(m - 1)]

LEMMA FirstOfUnfolds == FirstOfStep(firstOf)
<1> DEFINE h == [m \in Nat |-> TheStarts(m)[m]]
<1>1. ASSUME NEW n \in Nat PROVE Starts(TheStarts(n), n)
  BY AllBegun DEF Begun, TheStarts
<1>2. ASSUME NEW m \in Nat PROVE h[m] = IF m = 0 THEN 0 ELSE h[m - 1] + MonthLength(m - 1)
  <2> DEFINE f == TheStarts(m)
  <2>1. Starts(f, m)
    BY <1>1
  <2> HIDE DEF f
  <2>2. f[m] = IF m = 0 THEN 0 ELSE f[m - 1] + MonthLength(m - 1)
    BY <2>1 DEF Starts
  <2>3. CASE m = 0
    BY <2>2, <2>3 DEF f
  <2>4. CASE m # 0
    <3> DEFINE g == TheStarts(m - 1)
    <3>1. m - 1 \in Nat /\ m - 1 <= m
      BY <2>4
    <3>2. Starts(g, m - 1)
      BY <1>1, <3>1
    <3> HIDE DEF g
    <3>3. f[m - 1] = g[m - 1]
      BY <2>1, <3>1, <3>2, StartsAgree
    <3>4. h[m] = f[m] /\ h[m - 1] = g[m - 1]
      BY <3>1 DEF f, g
    <3> QED
      BY <2>2, <2>4, <3>3, <3>4
  <2> QED
    BY <2>3, <2>4
<1>3. h = [m \in Nat |-> h[m]]
  OBVIOUS
<1> HIDE DEF h
<1>4. FirstOfStep(h)
  BY <1>2, <1>3 DEF FirstOfStep
<1>5. firstOf = CHOOSE f : FirstOfStep(f)
  BY DEF firstOf, FirstOfStep
<1> QED
  BY <1>4, <1>5

\* A month begins where the one before it ends, 28 days on at least.
LEMMA MonthsFollow ==
  /\ firstOf[0] = 0
  /\ \A m \in Nat : /\ firstOf[m] \in Nat /\ 28 * m <= firstOf[m]
                    /\ firstOf[m + 1] = firstOf[m] + MonthLength(m)
<1> DEFINE B == {m \in Nat : ~(firstOf[m] \in Nat /\ 28 * m <= firstOf[m])}
<1>1. /\ firstOf[0] = 0
      /\ \A m \in Nat : firstOf[m] = IF m = 0 THEN 0 ELSE firstOf[m - 1] + MonthLength(m - 1)
  BY FirstOfUnfolds DEF FirstOfStep
<1>2. B = {}
  <2> SUFFICES ASSUME B # {} PROVE FALSE
    OBVIOUS
  <2>1. B \in SUBSET Nat
    OBVIOUS
  <2>2. PICK m \in B : \A y \in B : m <= y
    <3> HIDE DEF B
    <3> QED
      BY <2>1, MinIsLeast
  <2>3. m # 0
    BY <1>1, <2>2
  <2>4. m - 1 \in Nat /\ m - 1 \notin B
    BY <2>2, <2>3
  <2>5. PICK x \in Nat : x = firstOf[m - 1] /\ 28 * (m - 1) <= x
    BY <2>4
  <2>6. PICK y \in 28..31 : y = MonthLength(m - 1)
    BY <2>4, Months
  <2>7. firstOf[m] = x + y
    BY <1>1, <2>2, <2>3, <2>5, <2>6
  <2>8. x + y \in Nat /\ 28 * m <= x + y
    BY <2>2, <2>3, <2>5, <2>6
  <2> QED
    BY <2>2, <2>7, <2>8
<1>3. ASSUME NEW m \in Nat PROVE firstOf[m + 1] = firstOf[m] + MonthLength(m)
  <2>1. m + 1 \in Nat /\ m + 1 # 0 /\ (m + 1) - 1 = m
    OBVIOUS
  <2> QED
    BY <1>1, <2>1
<1> QED
  BY <1>1, <1>2, <1>3

\* Later months begin later.
LEMMA MonthsGrow ==
  ASSUME NEW m \in Nat, NEW n0 \in Nat, m < n0
  PROVE  firstOf[m + 1] <= firstOf[n0]
<1> DEFINE B == {n \in Nat : m < n /\ ~(firstOf[m + 1] <= firstOf[n])}
<1> SUFFICES ASSUME B # {} PROVE FALSE
  OBVIOUS
<1>1. B \in SUBSET Nat
  OBVIOUS
<1>2. PICK n \in B : \A y \in B : n <= y
  <2> HIDE DEF B
  <2> QED
    BY <1>1, MinIsLeast
<1>3. n \in Nat /\ m < n /\ n # m + 1
  BY <1>2, MonthsFollow
<1>4. n - 1 \in Nat /\ m < n - 1 /\ n - 1 \notin B /\ (n - 1) + 1 = n
  BY <1>2, <1>3
<1>5. PICK x \in Nat : x = firstOf[n - 1] /\ firstOf[m + 1] <= x
  BY <1>4, MonthsFollow
<1>6. PICK y \in 28..31 : y = MonthLength(n - 1)
  BY <1>4, Months
<1>7. firstOf[n] = x + y
  BY <1>4, <1>5, <1>6, MonthsFollow
<1>8. firstOf[m + 1] \in Nat
  BY MonthsFollow
<1> QED
  BY <1>2, <1>5, <1>7, <1>8

\* The days of a month are in that month.
LEMMA MonthIs ==
  ASSUME NEW m \in Nat, NEW k \in Nat, k < MonthLength(m)
  PROVE  /\ firstOf[m] + k \in Nat
         /\ MonthOf(firstOf[m] + k) = m /\ DayOf(firstOf[m] + k) = k + 1
<1>1. PICK a \in Nat : a = firstOf[m] /\ 28 * m <= a /\ firstOf[m + 1] = a + MonthLength(m)
  BY MonthsFollow
<1>2. MonthLength(m) \in 28..31
  BY Months
<1>3. m \in 0..((a + k) \div 28) /\ firstOf[m] <= a + k /\ a + k < firstOf[m + 1]
  BY <1>1, <1>2
<1>4. ASSUME NEW n \in 0..((a + k) \div 28), firstOf[n] <= a + k, a + k < firstOf[n + 1]
      PROVE  n = m
  <2>1. n \in Nat /\ firstOf[n] \in Nat /\ firstOf[n + 1] \in Nat /\ firstOf[m + 1] \in Nat
    BY <1>4, MonthsFollow
  <2>2. ~(m < n)
    BY <1>3, <1>4, <2>1, MonthsGrow
  <2>3. ~(n < m)
    <3>1. n < m => firstOf[n + 1] <= firstOf[m]
      BY <2>1, MonthsGrow
    <3> QED
      BY <1>1, <1>4, <2>1, <3>1
  <2> QED
    BY <2>1, <2>2, <2>3
<1>5. MonthOf(a + k) = m
  BY <1>3, <1>4 DEF MonthOf
<1> QED
  BY <1>1, <1>5 DEF DayOf

\* Every day is one of the days of its month.
LEMMA MonthThere ==
  ASSUME NEW x \in Nat
  PROVE  /\ MonthOf(x) \in Nat /\ DayOf(x) \in 1..MonthLength(MonthOf(x))
         /\ x = firstOf[MonthOf(x)] + (DayOf(x) - 1)
<1> DEFINE B == {n \in Nat : x < firstOf[n]}
<1>1. x + 1 \in B
  <2>1. x + 1 \in Nat /\ firstOf[x + 1] \in Nat /\ 28 * (x + 1) <= firstOf[x + 1]
    BY MonthsFollow
  <2> QED
    BY <2>1
<1>2. PICK n \in B : \A y \in B : n <= y
  <2>1. B \in SUBSET Nat /\ B # {}
    BY <1>1
  <2> HIDE DEF B
  <2> QED
    BY <2>1, MinIsLeast
<1>3. n # 0
  BY <1>2, MonthsFollow
<1>4. n - 1 \in Nat /\ n - 1 \notin B /\ (n - 1) + 1 = n
  BY <1>2, <1>3
<1>5. PICK a \in Nat : a = firstOf[n - 1] /\ a <= x /\ firstOf[n] = a + MonthLength(n - 1)
  BY <1>4, MonthsFollow
<1>6. x - a \in Nat /\ x - a < MonthLength(n - 1)
  <2>1. MonthLength(n - 1) \in 28..31
    BY <1>4, Months
  <2> QED
    BY <1>2, <1>5, <2>1
<1>7. MonthOf(a + (x - a)) = n - 1 /\ DayOf(a + (x - a)) = (x - a) + 1
  BY <1>4, <1>5, <1>6, MonthIs
<1>8. a + (x - a) = x
  BY <1>5
<1>9. MonthLength(n - 1) \in 28..31
  BY <1>4, Months
<1>10. MonthOf(x) = n - 1 /\ DayOf(x) = (x - a) + 1
  BY <1>7, <1>8
<1> QED
  BY <1>4, <1>5, <1>6, <1>9, <1>10

\* The month and the day computeNextRun finds for a monthly rule.
LEMMA MonthlyFits ==
  ASSUME NEW s \in Schedules, s.frequency = "monthly", NEW from \in Nat
  PROVE  LET next == ComputeNextRun(s, from)
             target == MonthOf(from) + s.interval
         IN  /\ next \in Nat /\ next > from
             /\ DayOf(next) = Target(s, from)
             /\ MonthOf(next) = IF DayOf(from) <= MonthLength(target) THEN target ELSE target + 1
<1>1. s.interval \in Nat /\ s.interval # 0 /\ s.dayOfMonth \in 0..28
  BY NextRunAssumption DEF Schedules, Unset
<1> DEFINE m0 == MonthOf(from)
           target == m0 + s.interval
           d == DayOf(from)
           moved == SetMonth(from, target)
           m == IF d <= MonthLength(target) THEN target ELSE target + 1
           t == Target(s, from)
<1>2. /\ m0 \in Nat /\ target \in Nat /\ m0 < target
      /\ d \in 1..MonthLength(m0) /\ MonthLength(m0) \in 28..31
      /\ from = firstOf[m0] + (d - 1)
  <2>1. m0 \in Nat /\ d \in 1..MonthLength(m0) /\ from = firstOf[m0] + (d - 1)
    BY MonthThere
  <2>2. target \in Nat /\ m0 < target
    BY <1>1, <2>1
  <2> QED
    BY <2>1, <2>2, Months
<1>3. moved = firstOf[target] + d - 1
  BY DEF SetMonth
<1> HIDE DEF m0, d, moved
<1>4. PICK a \in Nat : a = firstOf[target] /\ firstOf[target + 1] = a + MonthLength(target)
  BY <1>2, MonthsFollow
<1>5. /\ MonthLength(target) \in 28..31 /\ target + 1 \in Nat
      /\ d > MonthLength(target) => MonthLength(target + 1) = 31
  BY <1>2, Months
<1>6. m \in Nat /\ MonthOf(moved) = m /\ m0 < m
  <2>1. CASE d <= MonthLength(target)
    <3>1. d - 1 \in Nat /\ d - 1 < MonthLength(target) /\ moved = a + (d - 1)
      BY <1>2, <1>3, <1>4, <1>5, <2>1
    <3>2. MonthOf(a + (d - 1)) = target
      BY <1>2, <1>4, <3>1, MonthIs
    <3> QED
      BY <1>2, <2>1, <3>1, <3>2
  <2>2. CASE d > MonthLength(target)
    <3> DEFINE k == d - 1 - MonthLength(target)
    <3>1. k \in Nat /\ k < 31
      BY <1>2, <1>5, <2>2
    <3>2. moved = (a + MonthLength(target)) + k
      BY <1>2, <1>3, <1>4, <1>5
    <3> HIDE DEF k
    <3>3. MonthOf(firstOf[target + 1] + k) = target + 1
      BY <1>5, <2>2, <3>1, MonthIs
    <3> QED
      BY <1>2, <1>4, <1>5, <2>2, <3>2, <3>3
  <2> QED
    BY <1>2, <1>5, <2>1, <2>2
<1>7. t = IF s.dayOfMonth = Unset THEN d ELSE s.dayOfMonth
  BY DEF Target, d
<1>8. t \in 1..MonthLength(m) /\ MonthLength(m) \in 28..31
  <2>1. MonthLength(m) \in 28..31 /\ d <= MonthLength(m)
    BY <1>2, <1>5, <1>6, Months
  <2> QED
    BY <1>1, <1>2, <1>7, <2>1 DEF Unset
<1> HIDE DEF t, m
<1>9. Min({t, MonthLength(m)}) = t
  <2>1. {t, MonthLength(m)} \in SUBSET Nat
    BY <1>8
  <2>2. Min({t, MonthLength(m)}) \in {t, MonthLength(m)} /\ Min({t, MonthLength(m)}) <= t
    BY <2>1, MinIsLeast
  <2> QED
    BY <1>8, <2>2
<1> DEFINE next == ComputeNextRun(s, from)
<1>10. next = firstOf[m] + t - 1
  <2>1. next = NextMonthly(s, from)
    BY DEF ComputeNextRun
  <2>2. NextMonthly(s, from) = SetDate(moved, Min({t, MonthLength(MonthOf(moved))}))
    BY DEF NextMonthly, moved, m0, t
  <2> QED
    BY <1>6, <1>9, <2>1, <2>2 DEF SetDate
<1>11. PICK b \in Nat : b = firstOf[m]
  BY <1>6, MonthsFollow
<1>12. t - 1 \in Nat /\ t - 1 < MonthLength(m)
  BY <1>8
<1>13. next = b + (t - 1)
  BY <1>8, <1>10, <1>11
<1> HIDE DEF next
<1>14. b + (t - 1) \in Nat /\ MonthOf(b + (t - 1)) = m /\ DayOf(b + (t - 1)) = (t - 1) + 1
  BY <1>6, <1>11, <1>12, MonthIs
<1>15. from < b
  <2>1. firstOf[m0 + 1] <= firstOf[m] /\ firstOf[m0 + 1] = firstOf[m0] + MonthLength(m0)
    BY <1>2, <1>6, MonthsGrow, MonthsFollow
  <2>2. PICK c \in Nat : c = firstOf[m0]
    BY <1>2, MonthsFollow
  <2>3. c + MonthLength(m0) <= b
    BY <1>11, <2>1, <2>2
  <2> QED
    BY <1>2, <2>2, <2>3
<1>16. next \in Nat /\ next > from /\ DayOf(next) = t /\ MonthOf(next) = m
  BY <1>8, <1>11, <1>12, <1>13, <1>14, <1>15
<1> QED
  BY <1>16 DEF next, t, m, m0, d

\* The day computeNextRun finds for a weekly rule with listed weekdays.
LEMMA WeeklyFits ==
  ASSUME NEW s \in Schedules, s.frequency = "weekly", s.weekdays # {}, NEW from \in Nat
  PROVE  LET Fits(x) == /\ Weekday(x) \in s.weekdays
                        /\ Week(x) \notin (Week(from) + 1)..(Week(from) + s.interval - 1)
             next == ComputeNextRun(s, from)
         IN  /\ next \in (from + 1)..(from + 7 * (MaxInterval + 1)) /\ Fits(next)
             /\ \A x \in (from + 1)..(from + 7 * (MaxInterval + 1)) : Fits(x) => next <= x
<1>1. s.interval \in 1..MaxInterval /\ s.weekdays \subseteq 0..6
  BY DEF Schedules
<1>2. PICK i \in Nat, M \in Nat : i = s.interval /\ 1 <= i /\ i <= M /\ M = MaxInterval
  BY <1>1, NextRunAssumption
<1>3. PICK w \in Nat, today \in 0..6 :
        w = Week(from) /\ today = Weekday(from) /\ from = 7 * w + today
  BY DEF Week, Weekday
<1> DEFINE next == ComputeNextRun(s, from)
           later == {d \in s.weekdays : d > today}
           Fits(x) == /\ Weekday(x) \in s.weekdays
                      /\ Week(x) \notin (w + 1)..(w + i - 1)
<1>4. next = IF later # {} THEN from + Min(later) - today
             ELSE from + (7 - today) + Min(s.weekdays) + 7 * (i - 1)
  BY <1>2, <1>3 DEF ComputeNextRun, NextWeekly
<1>5. ASSUME NEW a \in Nat, NEW b \in 0..6
      PROVE  Weekday(7 * a + b) = b /\ Week(7 * a + b) = a
  BY DEF Weekday, Week
<1>6. ASSUME NEW x \in Nat
      PROVE  Weekday(x) \in 0..6 /\ Week(x) \in Nat /\ x = 7 * Week(x) + Weekday(x)
  BY DEF Weekday, Week
<1>7. /\ next \in (from + 1)..(from + 7 * (M + 1)) /\ Fits(next)
      /\ \A x \in (from + 1)..(from + 7 * (M + 1)) : Fits(x) => next <= x
  <2>1. CASE later # {}
    <3>1. PICK f \in later : f = Min(later) /\ \A d \in later : f <= d
      <4>1. later \in SUBSET Nat
        BY <1>1
      <4> HIDE DEF later
      <4> QED
        BY <2>1, <4>1, MinIsLeast
    <3>2. f \in 0..6 /\ f \in s.weekdays /\ f > today
      BY <1>1, <3>1
    <3>3. next = 7 * w + f
      <4>1. next = from + f - today
        <5> HIDE DEF later, next
        <5> QED
          BY <1>4, <2>1, <3>1
      <4> QED
        BY <1>3, <3>2, <4>1
    <3> HIDE DEF next
    <3>4. Weekday(next) = f /\ Week(next) = w
      BY <1>5, <3>2, <3>3
    <3>5. Fits(next)
      BY <3>2, <3>4
    <3>6. next \in (from + 1)..(from + 7 * (M + 1))
      <4>1. 7 * w + f \in Int /\ from + 1 <= 7 * w + f /\ 7 * w + f <= from + 7 * (M + 1)
        BY <1>2, <1>3, <3>2
      <4> QED
        BY <3>3, <4>1
    <3>7. ASSUME NEW x \in (from + 1)..(from + 7 * (M + 1)), Fits(x) PROVE next <= x
      <4>0. x \in Nat
        BY <1>3
      <4>1. PICK v \in Nat, e \in 0..6 : v = Week(x) /\ e = Weekday(x) /\ x = 7 * v + e
        BY <1>6, <4>0
      <4>2. v = w => e \in later
        BY <1>3, <3>7, <4>1
      <4>3. v = w => f <= e
        BY <3>1, <4>2
      <4>4. w <= v
        BY <1>3, <4>1
      <4> QED
        BY <3>2, <3>3, <4>1, <4>3, <4>4
    <3> QED
      BY <3>5, <3>6, <3>7
  <2>2. CASE later = {}
    <3>1. PICK f \in s.weekdays : f = Min(s.weekdays) /\ \A d \in s.weekdays : f <= d
      <4>1. s.weekdays \in SUBSET Nat
        BY <1>1
      <4> QED
        BY <4>1, MinIsLeast
    <3>2. f \in 0..6
      BY <1>1
    <3>3. next = 7 * (w + i) + f
      BY <1>2, <1>3, <1>4, <2>2, <3>1, <3>2
    <3> HIDE DEF next
    <3>4. Weekday(next) = f /\ Week(next) = w + i
      <4>1. w + i \in Nat
        BY <1>2
      <4> QED
        BY <1>5, <3>2, <3>3, <4>1
    <3>5. Fits(next)
      BY <1>2, <3>1, <3>4
    <3>6. f <= today
      BY <2>2, <3>1, <3>2
    <3>7. next \in (from + 1)..(from + 7 * (M + 1))
      <4>1. /\ 7 * (w + i) + f \in Int /\ from + 1 <= 7 * (w + i) + f
            /\ 7 * (w + i) + f <= from + 7 * (M + 1)
        BY <1>2, <1>3, <3>2, <3>6
      <4> QED
        BY <3>3, <4>1
    <3>8. ASSUME NEW x \in (from + 1)..(from + 7 * (M + 1)), Fits(x) PROVE next <= x
      <4>0. x \in Nat
        BY <1>3
      <4>1. PICK v \in Nat, e \in 0..6 : v = Week(x) /\ e = Weekday(x) /\ x = 7 * v + e
        BY <1>6, <4>0
      <4>2. e \in s.weekdays /\ f <= e /\ e <= today
        BY <2>2, <3>1, <3>8, <4>1
      <4>3. w < v
        BY <1>3, <4>1, <4>2
      <4>4. w + i <= v
        BY <1>2, <3>8, <4>1, <4>3
      <4> QED
        BY <3>2, <3>3, <4>1, <4>2, <4>4
    <3> QED
      BY <3>5, <3>7, <3>8
  <2> QED
    BY <2>1, <2>2
<1> QED
  BY <1>2, <1>3, <1>7 DEF next

\* Every rule's next run is later than the one it is counted from.
LEMMA NextIsLater ==
  ASSUME NEW s \in Schedules, NEW from \in Nat
  PROVE  ComputeNextRun(s, from) \in Nat /\ ComputeNextRun(s, from) > from
<1>1. s.frequency \in {"daily", "weekly", "monthly"} /\ s.interval \in Nat /\ s.interval # 0
  BY NextRunAssumption DEF Schedules
<1>2. CASE s.frequency = "daily"
  BY <1>1, <1>2 DEF ComputeNextRun
<1>3. CASE s.frequency = "weekly" /\ s.weekdays = {}
  BY <1>1, <1>3 DEF ComputeNextRun, NextWeekly
<1>4. CASE s.frequency = "weekly" /\ s.weekdays # {}
  BY <1>4, WeeklyFits, NextRunAssumption
<1>5. CASE s.frequency = "monthly"
  BY <1>5, MonthlyFits
<1> QED
  BY <1>1, <1>2, <1>3, <1>4, <1>5

NextRunInv == schedule \in Schedules /\ ranOn \in Nat

LEMMA NextRunKeeps ==
  /\ NextRunInit => NextRunInv
  /\ NextRunInv /\ [NextRunNext]_nextRunVars => NextRunInv'
<1>1. NextRunInit => NextRunInv
  <2>1. firstOf[2] \in Nat
    BY MonthsFollow
  <2> QED
    BY <2>1 DEF NextRunInit, NextRunInv
<1>2. NextRunInv /\ [NextRunNext]_nextRunVars => NextRunInv'
  <2> SUFFICES ASSUME NextRunInv, [NextRunNext]_nextRunVars PROVE NextRunInv'
    OBVIOUS
  <2>1. CASE UNCHANGED nextRunVars
    BY <2>1 DEF NextRunInv, nextRunVars
  <2>2. CASE RunDue
    <3>1. PICK n \in Nat : n = ComputeNextRun(schedule, ranOn)
      BY NextIsLater DEF NextRunInv
    <3>2. \E late \in 0..MaxLate : ranOn' = n + late
      BY <2>2, <3>1 DEF RunDue
    <3> QED
      BY <2>2, <3>1, <3>2, NextRunAssumption DEF RunDue, NextRunInv
  <2> QED
    BY <2>1, <2>2 DEF NextRunNext
<1> QED
  BY <1>1, <1>2

\* For every interval, every list of weekdays, every day a run may happen on
\* and whatever the leap years: computeNextRun is later than the run.
THEOREM NextRunTyped == NextRunSpec => []NextRunTypeOK
<1>1. NextRunInv => NextRunTypeOK
  BY NextIsLater DEF NextRunInv, NextRunTypeOK
<1> QED
  BY NextRunKeeps, <1>1, PTL DEF NextRunSpec

\* For every interval, every list of weekdays, every day a run may happen on
\* and whatever the leap years: a weekly rule runs next on the first listed
\* day, a monthly one on its own day, in the month its interval asks for.
THEOREM NextRunsFit == NextRunSpec => []NextRunFitsRule
<1>1. NextRunInv => NextRunFitsRule
  <2> SUFFICES ASSUME NextRunInv PROVE NextRunFitsRule
    OBVIOUS
  <2>1. schedule \in Schedules /\ ranOn \in Nat
    BY DEF NextRunInv
  <2>2. ASSUME schedule.frequency = "weekly", schedule.weekdays # {}
        PROVE  WeeklyIsFirstListedDay
    <3> DEFINE next == ComputeNextRun(schedule, ranOn)
               Due == {x \in (ranOn + 1)..(ranOn + 7 * (MaxInterval + 1)) :
                         /\ Weekday(x) \in schedule.weekdays
                         /\ Week(x) \notin (Week(ranOn) + 1)..(Week(ranOn) + schedule.interval - 1)}
    <3>1. next \in Due /\ \A x \in Due : next <= x
      BY <2>1, <2>2, WeeklyFits
    <3>2. Due \in SUBSET Nat /\ next \in Nat
      BY <2>1, NextIsLater, NextRunAssumption
    <3> HIDE DEF next, Due
    <3>3. Min(Due) \in Due /\ Min(Due) <= next
      BY <3>1, <3>2, MinIsLeast
    <3>4. next = Min(Due)
      <4>1. Min(Due) \in Nat /\ next <= Min(Due)
        BY <3>1, <3>2, <3>3
      <4> QED
        BY <3>2, <3>3, <4>1
    <3> QED
      BY <3>4 DEF next, Due, WeeklyIsFirstListedDay
  <2>3. WeeklyIsFirstListedDay
    BY <2>2 DEF WeeklyIsFirstListedDay
  <2>4. MonthlyKeepsDay
    BY <2>1, MonthlyFits DEF MonthlyKeepsDay
  <2> QED
    BY <2>3, <2>4 DEF NextRunFitsRule
<1> QED
  BY NextRunKeeps, <1>1, PTL DEF NextRunSpec
-----------------------------------------------------------------------------
(* The Pomodoro timer *)

\* What is left of a number of seconds, none of them missing.
LEMMA MaxZero ==
  ASSUME NEW x \in Int
  PROVE  Max({0, x}) = IF x >= 0 THEN x ELSE 0
<1>1. \E m \in {0, x} : \A y \in {0, x} : m >= y
  OBVIOUS
<1>2. Max({0, x}) \in {0, x} /\ \A y \in {0, x} : Max({0, x}) >= y
  BY <1>1 DEF Max
<1> QED
  BY <1>2

\* The seconds since the start of the phase are the seconds it has run, unless
\* both are past its end: a timer that is paused late resumes at its end.
PhaseClock ==
    /\ phase = "idle" => pausedRemaining = NotPaused
    /\ worked <= now
    /\ phaseStartedAt >= 0
    /\ phase # "idle" =>
          IF pausedRemaining = NotPaused
          THEN Elapsed = worked \/ (Elapsed >= Total /\ worked >= Total)
          ELSE pausedRemaining = IF Total >= worked THEN Total - worked ELSE 0

PomodoroIInv == PomodoroTypeOK /\ BreaksFollowTheSet /\ PhaseClock

Phases == {"idle", "work", "shortBreak", "longBreak"}

\* Every phase has a length.
LEMMA DurationType ==
  /\ \A p \in Phases : PhaseDuration(p) \in Nat
  /\ Total = PhaseDuration(phase)
  BY PomodoroAssumption DEF PhaseDuration, Phases, Total

\* The next phase begins on an empty clock, in a cycle of the set.
LEMMA PhaseEntered ==
  ASSUME PomodoroIInv, phase # "idle", timerOn, Enter(AdvancePhase(phase, cycle)),
         pausedRemaining' = NotPaused, UNCHANGED <<timerOn, now>>
  PROVE  PomodoroIInv'
<1>0. /\ phase \in {"work", "shortBreak", "longBreak"} /\ now \in 0..MaxNow /\ MaxNow \in Nat
      /\ CyclesBeforeLongBreak \in Nat \ {0} /\ cycle \in 0..CyclesBeforeLongBreak
      /\ BreaksFollowTheSet /\ Work \in Nat \ {0}
  BY PomodoroAssumption DEF PomodoroIInv, PomodoroTypeOK
<1>1. /\ phase' \in {"work", "shortBreak", "longBreak"}
      /\ phase' = AdvancePhase(phase, cycle)[1] /\ cycle' = AdvancePhase(phase, cycle)[2]
      /\ phaseStartedAt' = now /\ worked' = 0
  BY <1>0 DEF Enter, AdvancePhase
<1>2. BreaksFollowTheSet' /\ cycle' \in 0..CyclesBeforeLongBreak
  BY <1>0, <1>1 DEF AdvancePhase, BreaksFollowTheSet
<1>3. PhaseClock'
  BY <1>0, <1>1 DEF PhaseClock, Elapsed
<1>4. PomodoroTypeOK'
  BY <1>0, <1>1, <1>2 DEF PomodoroTypeOK, PomodoroIInv
<1> QED
  BY <1>2, <1>3, <1>4 DEF PomodoroIInv

\* Every button and every interval keeps the invariant.
LEMMA PomodoroStep == PomodoroIInv /\ [PomodoroNext]_pomodoroVars => PomodoroIInv'
<1> SUFFICES ASSUME PomodoroIInv, [PomodoroNext]_pomodoroVars PROVE PomodoroIInv'
  OBVIOUS
<1>0. /\ timerOn \in BOOLEAN /\ phase \in Phases /\ cycle \in 0..CyclesBeforeLongBreak
      /\ phaseStartedAt \in (-Work)..MaxNow /\ now \in 0..MaxNow /\ worked \in 0..MaxNow
      /\ pausedRemaining \in {NotPaused} \cup 0..Total
      /\ ~timerOn => phase = "idle"
      /\ BreaksFollowTheSet /\ PhaseClock /\ MaxNow \in Nat /\ Work \in Nat
  BY PomodoroAssumption DEF PomodoroIInv, PomodoroTypeOK, Phases
<1>1. Total \in Nat /\ (phase = "idle" => Total = 0)
  BY <1>0, DurationType DEF Total, PhaseDuration
<1>2. ASSUME phase' = phase, cycle' = cycle, timerOn' = timerOn PROVE Total' = Total /\ BreaksFollowTheSet'
  BY <1>0, <1>2 DEF Total, PhaseDuration, BreaksFollowTheSet
<1>3. CASE BackToIdle /\ UNCHANGED now /\ timerOn' \in BOOLEAN
  <2>1. Total' = 0
    BY <1>3 DEF BackToIdle, Total, PhaseDuration
  <2> QED
    BY <1>0, <1>3, <2>1, PomodoroAssumption
       DEF BackToIdle, PomodoroIInv, PomodoroTypeOK, BreaksFollowTheSet, PhaseClock
<1>4. CASE Toggle
  <2>1. CASE timerOn
    BY <1>0, <1>3, <1>4, <2>1 DEF Toggle
  <2>2. CASE ~timerOn
    <3>1. phase = "idle" /\ timerOn' = TRUE
      BY <1>0, <1>4, <2>2 DEF Toggle
    <3>2. UNCHANGED <<phase, cycle, phaseStartedAt, pausedRemaining, worked, now>>
      BY <1>4, <2>2 DEF Toggle
    <3>3. Total' = Total /\ Elapsed' = Elapsed
      BY <3>2 DEF Total, Elapsed
    <3> QED
      BY <1>0, <3>1, <3>2, <3>3
         DEF PomodoroIInv, PomodoroTypeOK, BreaksFollowTheSet, PhaseClock, Phases
  <2> QED
    BY <1>0, <2>1, <2>2
<1>5. CASE Start
  BY <1>0, <1>5, PomodoroAssumption
     DEF Start, Enter, PomodoroIInv, PomodoroTypeOK, BreaksFollowTheSet, PhaseClock, Elapsed
<1>6. CASE Pause
  <2>1. /\ UNCHANGED <<timerOn, phase, cycle, phaseStartedAt, now, worked>> /\ phase # "idle"
        /\ pausedRemaining' = Max({0, Total - Elapsed})
        /\ Elapsed = worked \/ (Elapsed >= Total /\ worked >= Total)
    BY <1>0, <1>6 DEF Pause, PhaseClock
  <2>2. Elapsed \in Int /\ Elapsed >= worked - worked
    <3>1. Elapsed \in Int
      BY <1>0 DEF Elapsed
    <3> QED
      BY <1>0, <1>1, <2>1, <3>1
  <2>3. pausedRemaining' = IF Total >= worked THEN Total - worked ELSE 0
    BY <1>0, <1>1, <2>1, <2>2, MaxZero
  <2>4. pausedRemaining' \in 0..Total
    BY <1>0, <1>1, <2>3
  <2> QED
    BY <1>0, <1>1, <1>2, <2>1, <2>3, <2>4
       DEF PomodoroIInv, PomodoroTypeOK, PhaseClock, Phases, NotPaused
<1>7. CASE Resume
  <2>1. /\ UNCHANGED <<timerOn, phase, cycle, now, worked>> /\ phase # "idle"
        /\ pausedRemaining' = NotPaused /\ phaseStartedAt' = now - (Total - pausedRemaining)
        /\ pausedRemaining = IF Total >= worked THEN Total - worked ELSE 0
    BY <1>0, <1>7 DEF Resume, PhaseClock
  <2>2. phaseStartedAt' = IF Total >= worked THEN now - worked ELSE now - Total
    BY <1>0, <1>1, <2>1
  <2>3. phaseStartedAt' \in 0..MaxNow
    BY <1>0, <1>1, <2>2 DEF PhaseClock
  <2>4. Elapsed' = IF Total >= worked THEN worked ELSE Total
    BY <1>0, <1>1, <2>1, <2>2 DEF Elapsed
  <2>5. Elapsed' = worked \/ (Elapsed' >= Total /\ worked >= Total)
    BY <1>0, <1>1, <2>4
  <2>6. Total' = Total /\ BreaksFollowTheSet'
    BY <1>2, <2>1
  <2>7. PhaseClock'
    BY <1>0, <2>1, <2>3, <2>5, <2>6 DEF PhaseClock
  <2>8. PomodoroTypeOK'
    BY <1>0, <2>1, <2>3 DEF PomodoroTypeOK, Phases
  <2> QED
    BY <2>6, <2>7, <2>8 DEF PomodoroIInv
<1>8. CASE Reset
  BY <1>0, <1>3, <1>8 DEF Reset
<1>9. CASE Skip \/ PhaseOver
  BY <1>0, <1>9, PhaseEntered DEF Skip, PhaseOver
<1>10. CASE TimePasses
  <2>1. /\ UNCHANGED <<timerOn, phase, cycle, phaseStartedAt, pausedRemaining>>
        /\ now' = now + 1 /\ now < MaxNow
        /\ worked' = IF phase # "idle" /\ pausedRemaining = NotPaused
                     THEN worked + 1 ELSE worked
    BY <1>10 DEF TimePasses
  <2>2. Total' = Total /\ BreaksFollowTheSet'
    BY <1>2, <2>1
  <2>3. Elapsed' = Elapsed + 1 /\ Elapsed \in Int
    BY <1>0, <2>1 DEF Elapsed
  <2>4. PhaseClock'
    BY <1>0, <1>1, <2>1, <2>2, <2>3 DEF PhaseClock
  <2>5. worked' \in 0..MaxNow /\ now' \in 0..MaxNow
    BY <1>0, <2>1 DEF PhaseClock
  <2>6. PomodoroTypeOK'
    BY <1>0, <2>1, <2>2, <2>5 DEF PomodoroTypeOK, Phases
  <2> QED
    BY <2>2, <2>4, <2>6 DEF PomodoroIInv
<1>11. CASE UNCHANGED pomodoroVars
  <2>1. Total' = Total /\ Elapsed' = Elapsed
    BY <1>11 DEF pomodoroVars, Total, Elapsed
  <2> QED
    BY <1>11, <2>1 DEF pomodoroVars, PomodoroIInv, PomodoroTypeOK, BreaksFollowTheSet, PhaseClock
<1> QED
  BY <1>4, <1>5, <1>6, <1>7, <1>8, <1>9, <1>10, <1>11 DEF PomodoroNext

LEMMA PomodoroStart == PomodoroInit => PomodoroIInv
  BY PomodoroAssumption
     DEF PomodoroInit, PomodoroIInv, PomodoroTypeOK, BreaksFollowTheSet, PhaseClock

\* For every length of the phases and of the set: the timer's state is well
\* typed, and a timer switched off is idle (usePomodoro.ts).
THEOREM TimerTyped == PomodoroSpec => []PomodoroTypeOK
<1>1. PomodoroIInv => PomodoroTypeOK
  BY DEF PomodoroIInv
<1> QED
  BY <1>1, PomodoroStart, PomodoroStep, PTL DEF PomodoroSpec

\* For every length of the phases and of the set, and however late the interval
\* fires: the chip shows what is left of the phase, and a long break follows
\* the last cycle of a set only.
THEOREM TimerShowsTimeLeft == PomodoroSpec => []PomodoroSound
<1>1. PomodoroInit => PomodoroIInv
  BY PomodoroStart
<1>2. PomodoroIInv => PomodoroSound
  <2> SUFFICES ASSUME PomodoroIInv PROVE RemainingIsTimeLeft /\ BreaksFollowTheSet
    BY DEF PomodoroSound
  <2>0. phase \in Phases /\ worked \in Nat /\ now \in Nat /\ phaseStartedAt \in Int /\ PhaseClock
    BY PomodoroAssumption DEF PomodoroIInv, PomodoroTypeOK, Phases
  <2>1. Total \in Nat /\ Elapsed \in Int
    BY <2>0, DurationType DEF Total, Elapsed
  <2>2. ASSUME phase # "idle" PROVE Remaining = Max({0, Total - worked})
    <3>1. Max({0, Total - worked}) = IF Total >= worked THEN Total - worked ELSE 0
      BY <2>0, <2>1, MaxZero
    <3>2. Max({0, Total - Elapsed}) = IF Total >= Elapsed THEN Total - Elapsed ELSE 0
      BY <2>0, <2>1, MaxZero
    <3>3. CASE pausedRemaining # NotPaused
      BY <2>0, <2>2, <3>1, <3>3 DEF Remaining, PhaseClock
    <3>4. CASE pausedRemaining = NotPaused
      <4>1. Remaining = Max({0, Total - Elapsed})
        BY <2>2, <3>4 DEF Remaining
      <4> QED
        BY <2>0, <2>1, <2>2, <3>1, <3>2, <3>4, <4>1 DEF PhaseClock
    <3> QED
      BY <3>3, <3>4
  <2> QED
    BY <2>2 DEF RemainingIsTimeLeft, PomodoroIInv
<1> QED
  BY <1>1, <1>2, PomodoroStep, PTL DEF PomodoroSpec

-----------------------------------------------------------------------------
(* AI triage and its budget *)

AtWork(j) == triage[j].pc \in {"ask", "none", "recheck", "write"}

\* The choice of a user does not bind the jobs: there is none, it came too late,
\* or it looks like none.
Unbound == chosen = "none" \/ lateEdit \/ looksNew

\* A task that looks untouched has not been chosen for as far as a job can tell,
\* and no more has one that a job is about to write.  Two jobs are at work only
\* after an overlap; one alone finds the task as it was created.
TriageInv ==
    /\ Untouched => Unbound
    /\ \A j \in TriageJobs : triage[j].pc = "write" => Unbound
    /\ \A j, k \in TriageJobs : AtWork(j) /\ AtWork(k) /\ j # k => overlap
    /\ \A j \in TriageJobs : AtWork(j) => overlap \/ chosen # "none" \/ Untouched
    /\ UserChoiceStands /\ ReasonFitsPriority

TriageType ==
    /\ priority \in Priorities /\ aiPriorityReason \in Priorities \cup {"none"}
    /\ chosen \in Priorities \cup {"none"} /\ edits \in 0..MaxEdits
    /\ triage \in [TriageJobs -> [pc: {"waiting", "ask", "none", "recheck", "write", "done"},
                                  suggested: Priorities]]
    /\ lateEdit \in BOOLEAN /\ looksNew \in BOOLEAN /\ overlap \in BOOLEAN

\* What a job's step does to the others: nothing.
LEMMA OneJobMoves ==
  ASSUME TriageType, NEW j \in TriageJobs,
         \/ TriageRead(j) \/ TriageAsk(j) \/ TriageNoSignal(j)
         \/ TriageRecheck(j) \/ TriageWrite(j) \/ TriageAgain(j)
  PROVE  /\ \A k \in TriageJobs \ {j} : triage'[k] = triage[k]
         /\ triage'[j] \in [pc: {"waiting", "ask", "none", "recheck", "write", "done"},
                            suggested: Priorities]
         /\ triage' \in [TriageJobs -> [pc: {"waiting", "ask", "none", "recheck", "write", "done"},
                                        suggested: Priorities]]
<1>1. NoTriage \in [pc: {"waiting", "ask", "none", "recheck", "write", "done"},
                     suggested: Priorities]
  BY DEF NoTriage, Priorities
<1>2. CASE TriageAgain(j)
  BY <1>1, <1>2 DEF TriageType, TriageAgain
<1>3. CASE TriageRead(j) \/ TriageAsk(j)
  BY <1>3 DEF TriageType, TriageRead, TriageAsk
<1>4. CASE TriageNoSignal(j) \/ TriageRecheck(j) \/ TriageWrite(j)
  BY <1>4 DEF TriageType, TriageNoSignal, TriageRecheck, TriageWrite
<1> QED
  BY <1>2, <1>3, <1>4

\* Every step of a triage job keeps the invariant.
LEMMA TriageJobStep ==
  ASSUME TriageType, TriageInv, NEW j \in TriageJobs,
         \/ TriageRead(j) \/ TriageAsk(j) \/ TriageNoSignal(j)
         \/ TriageRecheck(j) \/ TriageWrite(j) \/ TriageAgain(j)
  PROVE  TriageType' /\ TriageInv'
<1>0. /\ \A k \in TriageJobs \ {j} : triage'[k] = triage[k]
      /\ triage' \in [TriageJobs -> [pc: {"waiting", "ask", "none", "recheck", "write", "done"},
                                     suggested: Priorities]]
      /\ triage[j].suggested \in Priorities
  BY OneJobMoves DEF TriageType
<1>1. CASE TriageRead(j)
  <2>1. (triage'[j].pc = "done") \/ (triage'[j].pc = "ask" /\ Untouched)
    BY <1>1 DEF TriageRead, TriageType
  <2>2. \A k \in TriageJobs \ {j} : AtWork(k)' <=> AtWork(k)
    BY <1>0 DEF AtWork
  <2>3. /\ UNCHANGED <<priority, aiPriorityReason, edited>>
        /\ overlap' = (overlap \/ \E k \in TriageJobs : AtWork(k))
        /\ ~AtWork(j) /\ overlap' \in BOOLEAN
    BY <1>1 DEF TriageRead, AtWork
  <2>4. AtWork(j)' => Untouched
    BY <2>1 DEF AtWork
  <2>5. \A k \in TriageJobs : triage'[k].pc = "write" => triage[k].pc = "write"
    BY <1>0, <2>1
  <2>6. \A k, m \in TriageJobs : AtWork(k)' /\ AtWork(m)' /\ k # m => overlap'
    BY <2>2, <2>3 DEF TriageInv
  <2>7. \A k \in TriageJobs : AtWork(k)' => overlap' \/ chosen # "none" \/ Untouched
    BY <2>2, <2>3, <2>4 DEF TriageInv
  <2> QED
    BY <1>0, <2>3, <2>5, <2>6, <2>7
       DEF TriageType, TriageInv, UserChoiceStands, ReasonFitsPriority, Untouched, Unbound, edited
<1>2. CASE TriageAsk(j) \/ TriageRecheck(j) \/ TriageAgain(j)
  <2>1. /\ UNCHANGED <<priority, aiPriorityReason, edited, overlap>>
        /\ AtWork(j)
    BY <1>2 DEF TriageAsk, TriageRecheck, TriageAgain, AtWork
  <2>2. \A k \in TriageJobs : AtWork(k)' => AtWork(k)
    BY <1>0, <2>1 DEF AtWork
  <2>3. triage'[j].pc = "write" => Untouched
    BY <1>2 DEF TriageAsk, TriageRecheck, TriageAgain, NoTriage, TriageType
  <2>4. \A k \in TriageJobs : triage'[k].pc = "write" => Unbound
    BY <1>0, <2>3 DEF TriageInv
  <2> QED
    BY <1>0, <2>1, <2>2, <2>4
       DEF TriageType, TriageInv, UserChoiceStands, ReasonFitsPriority, Untouched, Unbound, edited
<1>3. CASE TriageNoSignal(j)
  <2>1. /\ UNCHANGED <<priority, edited, overlap>>
        /\ aiPriorityReason' \in {"Medium", aiPriorityReason}
        /\ AtWork(j) /\ triage'[j].pc = "done"
    BY <1>3 DEF TriageNoSignal, AtWork, TriageType
  <2>2. \A k \in TriageJobs : AtWork(k)' => k # j /\ AtWork(k)
    BY <1>0, <2>1 DEF AtWork
  <2>3. \A k \in TriageJobs : AtWork(k)' => overlap
    BY <2>1, <2>2 DEF TriageInv
  <2>4. overlap \/ chosen # "none" \/ priority = "Medium"
    BY <2>1 DEF TriageInv, Untouched
  <2>5. \A k \in TriageJobs : triage'[k].pc = "write" => triage[k].pc = "write"
    BY <1>0, <2>1
  <2>6. Untouched' => Untouched
    BY <2>1 DEF Untouched
  <2> QED
    BY <1>0, <2>1, <2>2, <2>3, <2>4, <2>5, <2>6
       DEF TriageType, TriageInv, UserChoiceStands, ReasonFitsPriority, Priorities, Unbound, edited
<1>4. CASE TriageWrite(j)
  <2>1. /\ UNCHANGED <<edited, overlap>>
        /\ priority' = aiPriorityReason' /\ priority' \in Priorities
        /\ AtWork(j) /\ triage[j].pc = "write" /\ triage'[j].pc = "done"
    BY <1>0, <1>4 DEF TriageWrite, AtWork, TriageType
  <2>2. \A k \in TriageJobs : AtWork(k)' => k # j /\ AtWork(k)
    BY <1>0, <2>1 DEF AtWork
  <2>3. \A k \in TriageJobs : AtWork(k)' => overlap
    BY <2>1, <2>2 DEF TriageInv
  <2>4. Unbound
    BY <2>1 DEF TriageInv
  <2>5. \A k \in TriageJobs : triage'[k].pc = "write" => triage[k].pc = "write"
    BY <1>0, <2>1
  <2> QED
    BY <1>0, <2>1, <2>2, <2>3, <2>4, <2>5
       DEF TriageType, TriageInv, UserChoiceStands, ReasonFitsPriority, Unbound, edited
<1> QED
  BY <1>1, <1>2, <1>3, <1>4

\* Every step keeps what is known of the jobs.
LEMMA TriageStep ==
  ASSUME TriageType, TriageInv, [AiTriageNext]_aiVars
  PROVE  TriageType' /\ TriageInv'
<1>1. ASSUME NEW p \in Priorities, ChoosePriority(p) PROVE TriageType' /\ TriageInv'
  <2>1. /\ priority' = p /\ chosen' = p /\ p # "none" /\ UNCHANGED <<aiPriorityReason, triage, overlap>>
        /\ lateEdit' = (\E j \in TriageJobs : triage[j].pc = "write")
        /\ looksNew' = (p = "Medium" /\ aiPriorityReason = "none")
        /\ edits' \in 0..MaxEdits
    BY <1>1, AiTriageAssumption DEF ChoosePriority, Priorities, TriageType
  <2>2. Untouched' => looksNew'
    BY <2>1 DEF Untouched
  <2>3. \A j \in TriageJobs : AtWork(j)' <=> AtWork(j)
    BY <2>1 DEF AtWork
  <2>4. /\ \A j \in TriageJobs : triage'[j].pc = "write" => Unbound'
        /\ Untouched' => Unbound'
    BY <2>1, <2>2 DEF Unbound
  <2> QED
    BY <1>1, <2>1, <2>3, <2>4 DEF TriageType, TriageInv, UserChoiceStands, ReasonFitsPriority
<1>2. ASSUME CalmTriage \/ UNCHANGED aiVars PROVE TriageType' /\ TriageInv'
  BY <1>2 DEF CalmTriage, aiVars, TriageType, TriageInv, UserChoiceStands, ReasonFitsPriority,
              AtWork, Untouched, Unbound, edited
<1> QED
  BY <1>1, <1>2, TriageJobStep DEF AiTriageNext, Request, StandupGate, GenerateStandup, StandupAnswer

\* The requests that are being answered, and those that passed the gate.
InFlight == {s \in Standups : standup[s] # "idle"}
AskingNow == {s \in Standups : standup[s] = "asking"}

\* Each of them may still add its cost.
BudgetInv ==
    /\ standup \in [Standups -> {"idle", "asking", "generating"}]
    /\ asked \in 0..MaxStandups /\ spent \in Nat /\ ungated \in 0..spent
    /\ spent + Cost * Cardinality(InFlight) <= Cost * asked
    /\ Budget > 0 => (spent - ungated) + Cost * Cardinality(AskingNow)
                        < Budget + Cost * Cardinality(Standups)

\* Arithmetic of the cost of several requests.
LEMMA CostOfMore ==
  ASSUME NEW c \in Nat, NEW m \in Nat, NEW n \in Nat
  PROVE  /\ c * m \in Nat /\ c * (m + 1) = c * m + c
         /\ m <= n => c * m <= c * n
<1>1. c * m \in Nat /\ c * (m + 1) = c * m + c
  OBVIOUS
<1>2. ASSUME m <= n PROVE c * m <= c * n
  <2>1. PICK d \in Nat : n = m + d
    BY <1>2
  <2>2. c * n = c * m + c * d /\ c * d >= 0 /\ c * m \in Nat /\ c * d \in Nat
    BY <2>1
  <2> QED
    BY <2>2
<1> QED
  BY <1>1, <1>2

\* One request is done, or one more is in flight: the sets counted.
LEMMA OneRequest ==
  ASSUME NEW S, NEW s \in S, IsFiniteSet(S), NEW A \in SUBSET S, NEW B \in SUBSET S,
         B = A \cup {s}, s \notin A
  PROVE  /\ Cardinality(A) \in Nat /\ Cardinality(S) \in Nat
         /\ Cardinality(B) = Cardinality(A) + 1 /\ Cardinality(B) <= Cardinality(S)
<1>1. IsFiniteSet(A) /\ IsFiniteSet(B)
  BY FS_Subset
<1>2. Cardinality(B) = Cardinality(A) + 1
  BY <1>1, FS_AddElement
<1> QED
  BY <1>1, <1>2, FS_Subset, FS_CardinalityType

\* A new request keeps the account: the gate lets it through only below the
\* budget.
LEMMA RequestKeeps ==
  ASSUME BudgetInv, IsFiniteSet(Standups), NEW s \in Standups,
         NEW st \in {"idle", "asking", "generating"}, Request(s, st),
         st = "asking" => Budget = 0 \/ spent < Budget
  PROVE  BudgetInv'
<1> DEFINE i == Cardinality(InFlight)
           m == Cardinality(AskingNow)
           n == Cardinality(Standups)
<1>0. /\ Cost \in Nat /\ Budget \in Nat /\ MaxStandups \in Nat /\ asked \in Nat /\ spent \in Nat
      /\ ungated \in Nat /\ ungated <= spent /\ i \in Nat /\ m \in Nat /\ n \in Nat
  <2>1. IsFiniteSet(InFlight) /\ IsFiniteSet(AskingNow)
    BY FS_Subset DEF InFlight, AskingNow
  <2> QED
    BY <2>1, AiTriageAssumption, FS_CardinalityType DEF BudgetInv
<1>1. /\ asked' = asked + 1 /\ asked < MaxStandups /\ spent' = spent /\ ungated' = ungated
      /\ standup[s] = "idle" /\ standup' = [standup EXCEPT ![s] = st]
  BY DEF Request
<1>2. standup' \in [Standups -> {"idle", "asking", "generating"}] /\ asked' \in 0..MaxStandups
  BY <1>0, <1>1 DEF BudgetInv
<1>3. Cardinality(InFlight') = i \/ Cardinality(InFlight') = i + 1
  <2>1. CASE st = "idle"
    BY <1>1, <2>1 DEF InFlight, BudgetInv
  <2>2. CASE st # "idle"
    <3>1. /\ InFlight' = InFlight \cup {s} /\ s \notin InFlight
          /\ InFlight \in SUBSET Standups /\ InFlight' \in SUBSET Standups
      BY <1>1, <2>2 DEF InFlight, BudgetInv
    <3> QED
      BY <3>1, OneRequest
  <2> QED
    BY <2>1, <2>2
<1>4. \/ Cardinality(AskingNow') = m
      \/ Cardinality(AskingNow') = m + 1 /\ m + 1 <= n /\ st = "asking"
  <2>1. CASE st # "asking"
    BY <1>1, <2>1 DEF AskingNow, BudgetInv
  <2>2. CASE st = "asking"
    <3>1. /\ AskingNow' = AskingNow \cup {s} /\ s \notin AskingNow
          /\ AskingNow \in SUBSET Standups /\ AskingNow' \in SUBSET Standups
      BY <1>1, <2>2 DEF AskingNow, BudgetInv
    <3> QED
      BY <2>2, <3>1, OneRequest
  <2> QED
    BY <2>1, <2>2
<1>5. /\ spent + Cost * i <= Cost * asked
      /\ Budget > 0 => (spent - ungated) + Cost * m < Budget + Cost * n
  BY DEF BudgetInv
<1> HIDE DEF i, m, n
<1>6. /\ Cost * (asked + 1) = Cost * asked + Cost /\ Cost * asked \in Nat
      /\ Cost * (i + 1) = Cost * i + Cost /\ Cost * i \in Nat
      /\ Cost * (m + 1) \in Nat /\ Cost * n \in Nat
      /\ m + 1 <= n => Cost * (m + 1) <= Cost * n
  BY <1>0, CostOfMore
<1>7. spent + Cost * i <= Cost * (asked + 1) /\ spent + Cost * (i + 1) <= Cost * (asked + 1)
  BY <1>0, <1>5, <1>6
<1>8. ASSUME Budget > 0, m + 1 <= n, spent < Budget
      PROVE  (spent - ungated) + Cost * (m + 1) < Budget + Cost * n
  BY <1>0, <1>6, <1>8
<1>9. Budget > 0 => (spent - ungated) + Cost * Cardinality(AskingNow') < Budget + Cost * n
  BY <1>0, <1>4, <1>5, <1>8
<1>10. spent + Cost * Cardinality(InFlight') <= Cost * (asked + 1)
  BY <1>3, <1>7
<1> QED
  BY <1>0, <1>1, <1>2, <1>9, <1>10 DEF BudgetInv, n

\* An answer moves at most its cost from what may come to what is spent.
LEMMA AnswerKeeps ==
  ASSUME BudgetInv, IsFiniteSet(Standups), NEW s \in Standups, StandupAnswer(s)
  PROVE  BudgetInv'
<1> DEFINE i == Cardinality(InFlight')
           m == Cardinality(AskingNow')
           n == Cardinality(Standups)
<1>0. /\ Cost \in Nat /\ Budget \in Nat /\ asked \in Nat /\ spent \in Nat
      /\ ungated \in Nat /\ ungated <= spent /\ i \in Nat /\ m \in Nat /\ n \in Nat
  <2>1. IsFiniteSet(InFlight') /\ IsFiniteSet(AskingNow')
    BY FS_Subset DEF InFlight, AskingNow
  <2> QED
    BY <2>1, AiTriageAssumption, FS_CardinalityType DEF BudgetInv
<1>1. PICK cents \in 0..Cost :
        /\ spent' = spent + cents
        /\ ungated' = IF standup[s] = "generating" THEN ungated + cents ELSE ungated
  BY DEF StandupAnswer
<1>2. /\ asked' = asked /\ standup[s] \in {"asking", "generating"}
      /\ standup' = [standup EXCEPT ![s] = "idle"]
      /\ standup' \in [Standups -> {"idle", "asking", "generating"}]
  BY DEF StandupAnswer, BudgetInv
<1>3. Cardinality(InFlight) = i + 1
  <2>1. /\ InFlight = InFlight' \cup {s} /\ s \notin InFlight'
        /\ InFlight \in SUBSET Standups /\ InFlight' \in SUBSET Standups
    BY <1>2 DEF InFlight, BudgetInv
  <2> QED
    BY <2>1, OneRequest
<1>4. \/ standup[s] = "asking" /\ Cardinality(AskingNow) = m + 1
      \/ standup[s] = "generating" /\ Cardinality(AskingNow) = m
  <2>1. CASE standup[s] = "asking"
    <3>1. /\ AskingNow = AskingNow' \cup {s} /\ s \notin AskingNow'
          /\ AskingNow \in SUBSET Standups /\ AskingNow' \in SUBSET Standups
      BY <1>2, <2>1 DEF AskingNow, BudgetInv
    <3> QED
      BY <2>1, <3>1, OneRequest
  <2>2. CASE standup[s] = "generating"
    BY <1>2, <2>2 DEF AskingNow, BudgetInv
  <2> QED
    BY <1>2, <2>1, <2>2
<1>5. /\ spent + Cost * (i + 1) <= Cost * asked
      /\ Budget > 0 => (spent - ungated) + Cost * Cardinality(AskingNow) < Budget + Cost * n
  BY <1>3 DEF BudgetInv
<1> HIDE DEF i, m, n
<1>6. /\ Cost * (i + 1) = Cost * i + Cost /\ Cost * i \in Nat /\ Cost * asked \in Nat
      /\ Cost * (m + 1) = Cost * m + Cost /\ Cost * m \in Nat /\ Cost * n \in Nat
  BY <1>0, CostOfMore
<1>7. spent' + Cost * i <= Cost * asked /\ spent' \in Nat /\ ungated' \in 0..spent'
  BY <1>0, <1>1, <1>5, <1>6
<1>8. CASE standup[s] = "asking"
  <2>1. Budget > 0 => (spent - ungated) + Cost * (m + 1) < Budget + Cost * n
    BY <1>4, <1>5, <1>8
  <2>2. spent' - ungated' <= (spent - ungated) + Cost
    BY <1>0, <1>1, <1>8
  <2>3. Budget > 0 => (spent' - ungated') + Cost * m < Budget + Cost * n
    <3> DEFINE more == Cost * m
               all == Cost * n
               was == spent - ungated
               is == spent' - ungated'
    <3>1. /\ more \in Nat /\ all \in Nat
          /\ was \in Int /\ is \in Int
          /\ is <= was + Cost
      <4>1. more \in Nat /\ all \in Nat
        BY <1>6
      <4>2. spent \in Int /\ ungated \in Int /\ spent' \in Int /\ ungated' \in Int
        BY <1>0, <1>7
      <4>3. was \in Int /\ is \in Int
        BY <4>2
      <4> QED
        BY <2>2, <4>1, <4>3
    <3>2. Budget > 0 => was + (more + Cost) < Budget + all
      BY <1>6, <2>1
    <3> HIDE DEF more, all, was, is
    <3>3. Budget > 0 => is + more < Budget + all
      BY <1>0, <3>1, <3>2
    <3> QED
      BY <3>3 DEF more, all, is
  <2> QED
    BY <1>0, <1>2, <1>7, <2>3 DEF BudgetInv, i, m, n
<1>9. CASE standup[s] = "generating"
  <2>1. Budget > 0 => (spent - ungated) + Cost * m < Budget + Cost * n
    BY <1>4, <1>5, <1>9
  <2>2. spent' - ungated' = spent - ungated
    BY <1>0, <1>1, <1>9
  <2> QED
    BY <1>0, <1>2, <1>7, <2>1, <2>2 DEF BudgetInv, i, m, n
<1> QED
  BY <1>2, <1>8, <1>9

\* Every step keeps the account of the budget.
LEMMA BudgetStep ==
  ASSUME BudgetInv, [AiTriageNext]_aiVars, IsFiniteSet(Standups)
  PROVE  BudgetInv'
<1>1. CASE UNCHANGED budgetVars
  BY <1>1 DEF BudgetInv, InFlight, AskingNow, budgetVars
<1>2. ASSUME NEW s \in Standups, StandupGate(s) \/ GenerateStandup(s) PROVE BudgetInv'
  BY <1>2, RequestKeeps DEF StandupGate, GenerateStandup
<1>3. ASSUME NEW s \in Standups, StandupAnswer(s) PROVE BudgetInv'
  BY <1>3, AnswerKeeps
<1> QED
  BY <1>1, <1>2, <1>3 DEF AiTriageNext, aiVars, ChoosePriority, TriageRead, TriageAsk,
                          TriageNoSignal, TriageRecheck, TriageWrite, TriageAgain

\* No job has begun and nothing is spent.
LEMMA TriageStart ==
  ASSUME IsFiniteSet(Standups)
  PROVE  AiTriageInit => TriageType /\ TriageInv /\ BudgetInv
<1>1. AiTriageInit => TriageType /\ TriageInv
  <2> SUFFICES ASSUME AiTriageInit PROVE TriageType /\ TriageInv
    OBVIOUS
  <2>1. \A j \in TriageJobs : triage[j] = NoTriage
    BY DEF AiTriageInit
  <2>2. triage \in [TriageJobs -> [pc: {"waiting", "ask", "none", "recheck", "write", "done"},
                                  suggested: Priorities]]
    <3>1. NoTriage \in [pc: {"waiting", "ask", "none", "recheck", "write", "done"},
                       suggested: Priorities]
      BY DEF NoTriage, Priorities
    <3> QED
      BY <3>1 DEF AiTriageInit
  <2>3. TriageType
    <3>1. /\ priority \in Priorities /\ aiPriorityReason \in Priorities \cup {"none"}
          /\ chosen \in Priorities \cup {"none"} /\ edits \in 0..MaxEdits
      BY AiTriageAssumption DEF AiTriageInit, Priorities
    <3>2. lateEdit \in BOOLEAN /\ looksNew \in BOOLEAN /\ overlap \in BOOLEAN
      BY DEF AiTriageInit
    <3> QED
      BY <2>2, <3>1, <3>2 DEF TriageType
  <2>4. \A j \in TriageJobs : triage[j].pc = "waiting"
    BY <2>1 DEF NoTriage
  <2>5. TriageInv
    BY <2>4 DEF AiTriageInit, TriageInv, UserChoiceStands, ReasonFitsPriority, AtWork, Unbound
  <2> QED
    BY <2>3, <2>5
<1>2. AiTriageInit => BudgetInv
  <2> SUFFICES ASSUME AiTriageInit PROVE BudgetInv
    OBVIOUS
  <2>1. AskingNow = {} /\ InFlight = {}
    BY DEF AiTriageInit, AskingNow, InFlight
  <2>2. Cardinality({}) = 0 /\ Cardinality(Standups) \in Nat
    BY <2>1, FS_EmptySet, FS_CardinalityType
  <2>3. Cost * 0 = 0 /\ Cost * Cardinality(Standups) \in Nat /\ Budget \in Nat /\ MaxStandups \in Nat
    BY <2>2, AiTriageAssumption, CostOfMore
  <2>4. Budget > 0 => (0 - 0) + 0 < Budget + Cost * Cardinality(Standups)
    BY <2>2, <2>3
  <2> QED
    BY <2>1, <2>2, <2>3, <2>4 DEF AiTriageInit, BudgetInv
<1> QED
  BY <1>1, <1>2

\* For any number of jobs and a finite set of standups: the task, the jobs and
\* the account of what the model has cost are well typed (ai.processors.ts).
THEOREM TriageTyped ==
  ASSUME IsFiniteSet(Standups)
  PROVE  AiTriageSpec => []AiTriageTypeOK
<1>1. TriageType /\ TriageInv /\ [AiTriageNext]_aiVars => TriageType' /\ TriageInv'
  BY TriageStep
<1>2. BudgetInv /\ [AiTriageNext]_aiVars => BudgetInv'
  BY BudgetStep
<1>3. TriageType /\ BudgetInv => AiTriageTypeOK
  <2> SUFFICES ASSUME TriageType, BudgetInv PROVE AiTriageTypeOK
    OBVIOUS
  <2>1. IsFiniteSet(InFlight)
    BY FS_Subset DEF InFlight
  <2>2. Cardinality(InFlight) \in Nat /\ asked \in Nat /\ Cost \in Nat
    BY <2>1, FS_CardinalityType, AiTriageAssumption DEF BudgetInv
  <2>3. Cost * Cardinality(InFlight) \in Nat /\ Cost * asked \in Nat
    BY <2>2, CostOfMore
  <2>4. spent \in 0..(Cost * asked)
    BY <2>3 DEF BudgetInv
  <2> QED
    BY <2>4 DEF TriageType, BudgetInv, AiTriageTypeOK
<1>4. AiTriageInit => TriageType /\ TriageInv /\ BudgetInv
  BY TriageStart
<1> QED
  BY <1>1, <1>2, <1>3, <1>4, PTL DEF AiTriageSpec

\* For any number of jobs of a task and of standup requests, and however long
\* the model takes: a user's choice stands unless it came between a job's last
\* look and its write or looks like the default, the reason on a task argues for
\* its priority, and behind the gate a budget is overspent only by requests in
\* flight.
THEOREM TriageIsSound ==
  ASSUME IsFiniteSet(Standups)
  PROVE  AiTriageSpec => []TriageSound
<1>1. AiTriageInit => TriageType /\ TriageInv /\ BudgetInv
  BY TriageStart
<1>2. TriageType /\ TriageInv /\ [AiTriageNext]_aiVars => TriageType' /\ TriageInv'
  BY TriageStep
<1>3. BudgetInv /\ [AiTriageNext]_aiVars => BudgetInv'
  BY BudgetStep
<1>4. TriageInv /\ BudgetInv => TriageSound
  BY DEF TriageInv, BudgetInv, TriageSound, OverspentByRequestsInFlight, AskingNow
<1> QED
  BY <1>1, <1>2, <1>3, <1>4, PTL DEF AiTriageSpec

-----------------------------------------------------------------------------
(* The worklog timers *)

LogRow == [st: {"none", "running", "ended", "deleted"}, task: Timed \cup {"none"},
           startedAt: 0..MaxClock, endedAt: 0..(2 * MaxClock), seconds: 0..MaxClock]
TabRow == [pc: {"idle", "create", "end"}, task: Timed \cup {"none"},
           log: Logs \cup {"none"}, now: 0..MaxClock, raced: BOOLEAN]

\* A stop in flight holds a row that was written before it read the clock, and
\* whose id is never given out again.
StopsHold ==
    \A t \in Tabs : tab[t].pc = "end" =>
        /\ tab[t].log \in Logs
        /\ log[tab[t].log].st # "none"
        /\ log[tab[t].log].startedAt <= tab[t].now

RowsAreTrue ==
    \A l \in Logs : log[l].st = "ended" => log[l].seconds \in {0, log[l].endedAt - log[l].startedAt}

WorklogIInv ==
    /\ log \in [Logs -> LogRow] /\ tab \in [Tabs -> TabRow] /\ clock \in 0..MaxClock
    /\ \A l, m \in Running : l = m
    /\ \A l \in Logs : log[l].st = "running" => log[l].startedAt <= clock
    /\ StopsHold /\ RowsAreTrue /\ RefusedOnlyWhenOverlapped

\* A set without two different members has one at most.
LEMMA OneAtMost ==
  ASSUME NEW S, \A x, y \in S : x = y
  PROVE  Cardinality(S) <= 1
<1>1. CASE S = {}
  BY <1>1, FS_EmptySet
<1>2. CASE S # {}
  <2> PICK x \in S : TRUE
    BY <1>2
  <2>1. S = {x}
    OBVIOUS
  <2> QED
    BY <2>1, FS_Singleton
<1> QED
  BY <1>1, <1>2

\* The values the requests write into rows.
LEMMA WorklogRows ==
  /\ NoLog \in LogRow /\ Resting \in TabRow
  /\ \A k \in Timed : [Resting EXCEPT !.pc = "create", !.task = k] \in TabRow
  /\ \A l \in Logs, c \in 0..MaxClock :
        [Resting EXCEPT !.pc = "end", !.log = l, !.now = c] \in TabRow
  /\ \A r \in TabRow : [r EXCEPT !.raced = TRUE] \in TabRow
  /\ \A k \in Timed \cup {"none"}, c \in 0..MaxClock :
        [NoLog EXCEPT !.st = "running", !.task = k, !.startedAt = c] \in LogRow
  /\ \A r \in LogRow, c \in 0..MaxClock :
        [r EXCEPT !.st = "ended", !.endedAt = c, !.seconds = 0] \in LogRow
  /\ [NoLog EXCEPT !.st = "deleted"] \in LogRow
  /\ \A k \in Timed, c \in 0..MaxClock, s \in 1..MaxClock :
        [st |-> "ended", task |-> k, startedAt |-> c, endedAt |-> c + s, seconds |-> s] \in LogRow
  /\ \A r \in LogRow, c \in 0..MaxClock : r.startedAt <= c =>
        [r EXCEPT !.st = "ended", !.endedAt = c, !.seconds = c - r.startedAt] \in LogRow
<1>1. MaxClock \in Nat
  BY WorklogAssumption
<1>2. NoLog \in LogRow /\ Resting \in TabRow
  BY <1>1 DEF NoLog, LogRow, Resting, TabRow
<1>3. \A k \in Timed : [Resting EXCEPT !.pc = "create", !.task = k] \in TabRow
  <2>1. \A r \in TabRow, k \in Timed : [r EXCEPT !.pc = "create", !.task = k] \in TabRow
    BY DEF TabRow
  <2> QED
    BY <1>2, <2>1
<1>4. \A l \in Logs, c \in 0..MaxClock :
        [Resting EXCEPT !.pc = "end", !.log = l, !.now = c] \in TabRow
  <2>1. \A r \in TabRow, l \in Logs, c \in 0..MaxClock :
          [r EXCEPT !.pc = "end", !.log = l, !.now = c] \in TabRow
    BY DEF TabRow
  <2> QED
    BY <1>2, <2>1
<1>5. \A r \in TabRow : [r EXCEPT !.raced = TRUE] \in TabRow
  BY DEF TabRow
<1>6. /\ [NoLog EXCEPT !.st = "deleted"] \in LogRow
      /\ \A k \in Timed \cup {"none"}, c \in 0..MaxClock :
           [NoLog EXCEPT !.st = "running", !.task = k, !.startedAt = c] \in LogRow
  <2>1. \A r \in LogRow : [r EXCEPT !.st = "deleted"] \in LogRow
    BY DEF LogRow
  <2>2. \A r \in LogRow, k \in Timed \cup {"none"}, c \in 0..MaxClock :
          [r EXCEPT !.st = "running", !.task = k, !.startedAt = c] \in LogRow
    BY DEF LogRow
  <2> QED
    BY <1>2, <2>1, <2>2
<1>7. \A r \in LogRow, c \in 0..MaxClock :
        [r EXCEPT !.st = "ended", !.endedAt = c, !.seconds = 0] \in LogRow
  <2> TAKE r \in LogRow, c \in 0..MaxClock
  <2>1. c \in 0..(2 * MaxClock) /\ 0 \in 0..MaxClock
    BY <1>1
  <2> QED
    BY <2>1 DEF LogRow
<1>8. \A k \in Timed, c \in 0..MaxClock, s \in 1..MaxClock :
        [st |-> "ended", task |-> k, startedAt |-> c, endedAt |-> c + s, seconds |-> s] \in LogRow
  <2> TAKE k \in Timed, c \in 0..MaxClock, s \in 1..MaxClock
  <2>1. c + s \in 0..(2 * MaxClock) /\ s \in 0..MaxClock
    BY <1>1
  <2> QED
    BY <2>1 DEF LogRow
<1>9. \A r \in LogRow, c \in 0..MaxClock : r.startedAt <= c =>
        [r EXCEPT !.st = "ended", !.endedAt = c, !.seconds = c - r.startedAt] \in LogRow
  <2> SUFFICES ASSUME NEW r \in LogRow, NEW c \in 0..MaxClock, r.startedAt <= c
               PROVE  [r EXCEPT !.st = "ended", !.endedAt = c, !.seconds = c - r.startedAt] \in LogRow
    OBVIOUS
  <2>1. r.startedAt \in 0..MaxClock
    BY DEF LogRow
  <2>2. c \in 0..(2 * MaxClock) /\ c - r.startedAt \in 0..MaxClock
    BY <1>1, <2>1
  <2> DEFINE d == c - r.startedAt
  <2> HIDE DEF d
  <2>3. [r EXCEPT !.st = "ended", !.endedAt = c, !.seconds = d] \in LogRow
    BY <2>2 DEF LogRow, d
  <2> QED
    BY <2>3 DEF d
<1> QED
  BY <1>2, <1>3, <1>4, <1>5, <1>6, <1>7, <1>8, <1>9

\* Every request, and the clock, keep the invariant.
LEMMA WorklogStep ==
  ASSUME WorklogIInv, [WorklogNext]_worklogVars
  PROVE  WorklogIInv'
<1> USE DEF Running
<1>0. /\ MaxClock \in Nat
      /\ log \in [Logs -> LogRow] /\ tab \in [Tabs -> TabRow] /\ clock \in 0..MaxClock
      /\ \A l \in Logs : log[l] \in LogRow /\ log[l].startedAt \in 0..MaxClock
      /\ \A t \in Tabs : tab[t] \in TabRow /\ tab[t].now \in 0..MaxClock /\ tab[t].task \in Timed \cup {"none"}
  BY WorklogAssumption DEF WorklogIInv, LogRow, TabRow
<1>1. CASE Second
  BY <1>0, <1>1 DEF WorklogIInv, StopsHold, RowsAreTrue, RefusedOnlyWhenOverlapped, Second
<1>2. CASE UNCHANGED worklogVars
  BY <1>2 DEF WorklogIInv, StopsHold, RowsAreTrue, RefusedOnlyWhenOverlapped, worklogVars
<1>3. ASSUME NEW l \in Logs, DeleteLog(l) PROVE WorklogIInv'
  <2>1. /\ tab' = tab /\ clock' = clock /\ log[l].st \in {"running", "ended"}
        /\ log' = [log EXCEPT ![l] = [NoLog EXCEPT !.st = "deleted"]]
    BY <1>3 DEF DeleteLog
  <2>2. log' \in [Logs -> LogRow]
    BY <1>0, <2>1, WorklogRows
  <2>3. log'[l].st = "deleted" /\ log'[l].startedAt = 0 /\ \A m \in Logs : m # l => log'[m] = log[m]
    BY <1>0, <2>1 DEF NoLog
  <2> QED
    BY <1>0, <2>1, <2>2, <2>3 DEF WorklogIInv, StopsHold, RowsAreTrue, RefusedOnlyWhenOverlapped
<1>4. ASSUME NEW k \in Timed, LogManual(k) PROVE WorklogIInv'
  <2>0. Fresh \in Logs /\ log[Fresh].st = "none"
    BY <1>4 DEF LogManual, Fresh, Unused
  <2> PICK s \in 1..MaxClock :
        log' = [log EXCEPT ![Fresh] = [st |-> "ended", task |-> k, startedAt |-> clock,
                                       endedAt |-> clock + s, seconds |-> s]]
    BY <1>4 DEF LogManual
  <2>1. tab' = tab /\ clock' = clock
    BY <1>4 DEF LogManual
  <2>2. log' \in [Logs -> LogRow]
    BY <1>0, <2>0, WorklogRows
  <2>3. /\ log'[Fresh].st = "ended" /\ log'[Fresh].startedAt = clock
        /\ log'[Fresh].endedAt = clock + s /\ log'[Fresh].seconds = s
        /\ \A m \in Logs : m # Fresh => log'[m] = log[m]
    BY <1>0, <2>0
  <2> HIDE DEF Fresh
  <2>4. RowsAreTrue' /\ StopsHold'
    BY <1>0, <2>0, <2>1, <2>3 DEF WorklogIInv, StopsHold, RowsAreTrue
  <2> QED
    BY <1>0, <2>0, <2>1, <2>2, <2>3, <2>4 DEF WorklogIInv, RefusedOnlyWhenOverlapped
<1>5. ASSUME NEW t \in Tabs, StartCreate(t) PROVE WorklogIInv'
  <2>0. Fresh \in Logs /\ log[Fresh].st = "none" /\ Running = {} /\ clock' = clock
    BY <1>5 DEF StartCreate, Fresh, Unused
  <2>1. /\ log' = [log EXCEPT ![Fresh] = [NoLog EXCEPT !.st = "running", !.task = tab[t].task,
                                                      !.startedAt = clock]]
        /\ tab' = [u \in Tabs |-> CASE u = t -> Resting
                                    [] u # t /\ tab[u].pc = "create" -> [tab[u] EXCEPT !.raced = TRUE]
                                    [] OTHER -> tab[u]]
    BY <1>5 DEF StartCreate
  <2>2. log' \in [Logs -> LogRow]
    BY <1>0, <2>0, <2>1, WorklogRows
  <2>3. \A u \in Tabs : /\ u = t => tab'[u] = Resting
                        /\ u # t /\ tab[u].pc = "create" => tab'[u] = [tab[u] EXCEPT !.raced = TRUE]
                        /\ u # t /\ tab[u].pc # "create" => tab'[u] = tab[u]
    BY <2>1
  <2>4. tab' \in [Tabs -> TabRow]
    <3>1. \A u \in Tabs : tab'[u] \in TabRow
      <4>1. Resting \in TabRow /\ \A r \in TabRow : [r EXCEPT !.raced = TRUE] \in TabRow
        BY WorklogRows
      <4> TAKE u \in Tabs
      <4>2. tab[u] \in TabRow
        BY <1>0
      <4> QED
        BY <2>3, <4>1, <4>2
    <3>2. tab' = [u \in Tabs |-> tab'[u]]
      BY <2>1
    <3> QED
      BY <3>1, <3>2
  <2>5. /\ log'[Fresh].st = "running" /\ log'[Fresh].startedAt = clock
        /\ \A m \in Logs : m # Fresh => log'[m] = log[m]
    BY <1>0, <2>0, <2>1 DEF NoLog
  <2>6. \A u \in Tabs : /\ tab'[u].pc = "create" => tab'[u].raced
                        /\ tab'[u].pc = "end" => tab'[u] = tab[u]
    <3> TAKE u \in Tabs
    <3>1. CASE u = t
      <4>1. tab'[u] = Resting
        BY <2>3, <3>1
      <4>2. tab'[u].pc = "idle"
        BY <4>1 DEF Resting
      <4> QED
        BY <4>2
    <3>2. CASE u # t /\ tab[u].pc = "create"
      <4>1. tab'[u] = [tab[u] EXCEPT !.raced = TRUE] /\ tab[u] \in TabRow
        BY <1>0, <2>3, <3>2
      <4>2. tab'[u].raced = TRUE /\ tab'[u].pc = "create"
        BY <3>2, <4>1 DEF TabRow
      <4> QED
        BY <4>2
    <3>3. CASE u # t /\ tab[u].pc # "create"
      BY <2>3, <3>3
    <3> QED
      BY <3>1, <3>2, <3>3
  <2> HIDE DEF Fresh
  <2>7. StopsHold' /\ RowsAreTrue'
    BY <1>0, <2>0, <2>5, <2>6 DEF WorklogIInv, StopsHold, RowsAreTrue
  <2> QED
    BY <1>0, <2>0, <2>2, <2>4, <2>5, <2>6, <2>7 DEF WorklogIInv, RefusedOnlyWhenOverlapped
<1>6. ASSUME NEW t \in Tabs, StartRefused(t) PROVE WorklogIInv'
  <2>1. log' = log /\ clock' = clock /\ tab' = [tab EXCEPT ![t] = Resting]
    BY <1>6 DEF StartRefused, Answer
  <2>2. tab' \in [Tabs -> TabRow]
    BY <1>0, <2>1, WorklogRows
  <2>3. \A u \in Tabs : tab'[u] = tab[u] \/ tab'[u].pc = "idle"
    BY <1>0, <2>1 DEF Resting
  <2> QED
    BY <1>0, <2>1, <2>2, <2>3 DEF WorklogIInv, StopsHold, RowsAreTrue, RefusedOnlyWhenOverlapped
<1>7. ASSUME NEW t \in Tabs, StopEnd(t) PROVE WorklogIInv'
  <2> DEFINE l == tab[t].log
  <2>0. l \in Logs /\ log[l].st # "none" /\ log[l].startedAt <= tab[t].now /\ clock' = clock
    BY <1>7 DEF StopEnd, WorklogIInv, StopsHold
  <2>1. tab' = [tab EXCEPT ![t] = Resting]
    BY <1>7 DEF StopEnd, Answer
  <2>2. tab' \in [Tabs -> TabRow]
    BY <1>0, <2>1, WorklogRows
  <2>3. \A u \in Tabs : tab'[u] = tab[u] \/ tab'[u].pc = "idle"
    BY <1>0, <2>1 DEF Resting
  <2>4. CASE log[l].st = "deleted"
    <3>1. log' = log
      BY <1>7, <2>4 DEF StopEnd
    <3> QED
      BY <1>0, <2>0, <2>2, <2>3, <3>1 DEF WorklogIInv, StopsHold, RowsAreTrue, RefusedOnlyWhenOverlapped
  <2>5. CASE log[l].st # "deleted"
    <3>1. log' = [log EXCEPT ![l].st = "ended", ![l].endedAt = tab[t].now,
                             ![l].seconds = tab[t].now - log[l].startedAt]
      BY <1>7, <2>5 DEF StopEnd
    <3> HIDE DEF l
    <3>2. /\ log' = [log EXCEPT ![l] = [log[l] EXCEPT !.st = "ended", !.endedAt = tab[t].now,
                                              !.seconds = tab[t].now - log[l].startedAt]]
      BY <1>0, <2>0, <3>1
    <3>3. log' \in [Logs -> LogRow]
      BY <1>0, <2>0, <3>2, WorklogRows
    <3>4. /\ log'[l].st = "ended" /\ log'[l].startedAt = log[l].startedAt
          /\ log'[l].seconds = log'[l].endedAt - log'[l].startedAt
          /\ \A m \in Logs : m # l => log'[m] = log[m]
      BY <1>0, <2>0, <3>2 DEF LogRow
    <3>5. StopsHold' /\ RowsAreTrue'
      BY <1>0, <2>0, <2>3, <3>4 DEF WorklogIInv, StopsHold, RowsAreTrue
    <3>6. \A m \in Logs : log'[m].st = "running" => log[m].st = "running" /\ log'[m] = log[m]
      BY <2>0, <3>4
    <3>7. RefusedOnlyWhenOverlapped'
      BY <2>3, <3>6 DEF WorklogIInv, RefusedOnlyWhenOverlapped
    <3> QED
      BY <1>0, <2>0, <2>2, <3>3, <3>5, <3>6, <3>7 DEF WorklogIInv
  <2> QED
    BY <2>4, <2>5
<1>8. ASSUME NEW t \in Tabs, NEW k \in Timed, StartEnd(t, k) PROVE WorklogIInv'
  <2>1. /\ clock' = clock
        /\ log' = [l \in Logs |-> IF log[l].st = "running"
                                    THEN [log[l] EXCEPT !.st = "ended", !.endedAt = clock, !.seconds = 0]
                                    ELSE log[l]]
        /\ tab' = [tab EXCEPT ![t] = [Resting EXCEPT !.pc = "create", !.task = k]]
    BY <1>8 DEF StartEnd
  <2>2. tab' \in [Tabs -> TabRow]
    BY <1>0, <2>1, WorklogRows
  <2>3. log' \in [Logs -> LogRow]
    BY <1>0, <2>1, WorklogRows
  <2>4. \A l \in Logs : \/ log[l].st = "running" /\ log'[l].st = "ended" /\ log'[l].seconds = 0
                           /\ log'[l].startedAt = log[l].startedAt
                        \/ log[l].st # "running" /\ log'[l] = log[l]
    BY <1>0, <2>1 DEF LogRow
  <2>5. \A u \in Tabs : tab'[u] = tab[u] \/ tab'[u].pc = "create"
    BY <1>0, <2>1 DEF Resting
  <2>6. Running' = {}
    BY <2>4
  <2>7. StopsHold' /\ RowsAreTrue'
    BY <1>0, <2>4, <2>5 DEF WorklogIInv, StopsHold, RowsAreTrue
  <2> QED
    BY <1>0, <2>1, <2>2, <2>3, <2>6, <2>7 DEF WorklogIInv, RefusedOnlyWhenOverlapped
<1>9. ASSUME NEW t \in Tabs, NEW l \in Logs, StopFind(t, l) PROVE WorklogIInv'
  <2>1. /\ log' = log /\ clock' = clock /\ l \in Running
        /\ tab' = [tab EXCEPT ![t] = [Resting EXCEPT !.pc = "end", !.log = l, !.now = clock]]
    BY <1>9 DEF StopFind
  <2>2. tab' \in [Tabs -> TabRow]
    BY <1>0, <2>1, WorklogRows
  <2>3. \A u \in Tabs : tab'[u] = tab[u]
                        \/ (tab'[u].pc = "end" /\ tab'[u].log = l /\ tab'[u].now = clock)
    <3>1. /\ tab'[t] = [Resting EXCEPT !.pc = "end", !.log = l, !.now = clock]
          /\ \A u \in Tabs : u # t => tab'[u] = tab[u]
      BY <1>0, <2>1
    <3>2. tab'[t].pc = "end" /\ tab'[t].log = l /\ tab'[t].now = clock
      BY <3>1 DEF Resting
    <3> QED
      BY <3>1, <3>2
  <2> QED
    BY <1>0, <2>1, <2>2, <2>3 DEF WorklogIInv, StopsHold, RowsAreTrue, RefusedOnlyWhenOverlapped
<1> QED
  BY <1>1, <1>2, <1>3, <1>4, <1>5, <1>6, <1>7, <1>8, <1>9 DEF WorklogNext

\* The first state of the timers.
LEMMA WorklogStarts == WorklogInit => WorklogIInv
<1> SUFFICES ASSUME WorklogInit PROVE WorklogIInv
  OBVIOUS
<1>1. log \in [Logs -> LogRow] /\ tab \in [Tabs -> TabRow] /\ clock \in 0..MaxClock
  <2>1. NoLog \in LogRow /\ Resting \in TabRow
    BY WorklogRows
  <2> QED
    BY <2>1, WorklogAssumption DEF WorklogInit
<1>2. \A l \in Logs : log[l].st = "none"
  BY DEF WorklogInit, NoLog
<1>3. \A t \in Tabs : tab[t].pc = "idle"
  BY DEF WorklogInit, Resting
<1> QED
  BY <1>1, <1>2, <1>3 DEF WorklogIInv, StopsHold, RowsAreTrue, RefusedOnlyWhenOverlapped, Running

\* For any number of tabs, rows and tasks: the rows are well typed, one at most
\* runs, and a row that has ended carries no more time than has passed
\* (WorklogService.start, stop and logManual).
THEOREM WorklogTyped == WorklogSpec => []WorklogTypeOK
<1>1. WorklogInit => WorklogIInv
  BY WorklogStarts
<1>2. WorklogIInv /\ [WorklogNext]_worklogVars => WorklogIInv'
  BY WorklogStep
<1>3. WorklogIInv => WorklogTypeOK
  BY OneAtMost DEF WorklogIInv, WorklogTypeOK, LogRow, TabRow, RowsAreTrue
<1> QED
  BY <1>1, <1>2, <1>3, PTL DEF WorklogSpec

\* For any number of tabs: the unique index refuses a start only if an
\* overlapping one created its row in between (WorklogService.start).
THEOREM TimersStartOver == WorklogSpec => []RefusedOnlyWhenOverlapped
<1>1. WorklogInit => WorklogIInv
  BY WorklogStarts
<1>2. WorklogIInv /\ [WorklogNext]_worklogVars => WorklogIInv'
  BY WorklogStep
<1>3. WorklogIInv => RefusedOnlyWhenOverlapped
  BY DEF WorklogIInv
<1> QED
  BY <1>1, <1>2, <1>3, PTL DEF WorklogSpec

-----------------------------------------------------------------------------
(* Events of GitHub and of the deployments *)

ReceiverRow == [pc: {"idle", "find", "link", "record", "read", "move"}, event: 0..4, found: BOOLEAN]

\* What a handler works on at each of its steps.
ReceiversReady ==
    /\ receiver \in [Receivers -> ReceiverRow]
    /\ \A h \in Receivers :
         /\ receiver[h].pc = "idle" => receiver[h] = NoDelivery
         /\ receiver[h].pc # "idle" => receiver[h].event \in CodeEvent
         /\ receiver[h].pc \in {"find", "link"} => receiver[h].event \in FromGithub
         /\ receiver[h].pc = "record" => receiver[h].event = Deployed

CodeType ==
    /\ taskStatus \in CodeStatuses /\ claims \subseteq FromGithub
    /\ commitLinks \in Nat /\ prLinks \in Nat
    /\ ReceiversReady
    /\ deliveries \in [CodeEvent -> Nat] /\ dispatches \in [CodeEvent -> Nat]
    /\ \A e \in CodeEvent : deliveries[e] <= repeats + 1 /\ dispatches[e] <= deliveries[e]
    /\ repeats \in 0..MaxRepeats /\ overlapped \in BOOLEAN
    /\ expired \in BOOLEAN /\ unnamed \subseteq FromGithub /\ orderly \in 0..4 \cup {Disorderly}

\* What was dispatched by its id alone keeps its claim until all expire.
ClaimsInv ==
    ~expired => \A e \in FromGithub \ unnamed :
                   dispatches[e] <= 1 /\ (dispatches[e] >= 1 => e \in claims)

\* So long one handler at most has the push, and it has not linked the
\* commit before it comes to write the link.
CommitInv ==
    ~expired /\ Push \notin unnamed =>
        /\ \A h, g \in Receivers : receiver[h].event = Push /\ receiver[g].event = Push => h = g
        /\ \A h \in Receivers : receiver[h].event = Push => dispatches[Push] >= 1
        /\ \A h \in Receivers : receiver[h].event = Push /\ receiver[h].pc \in {"find", "link"}
                                   => commitLinks = 0
        /\ commitLinks <= 1
        /\ commitLinks >= 1 => dispatches[Push] >= 1

\* Without an overlap what a handler has found of the pull request is so.
PrInv ==
    ~overlapped =>
        /\ \A h, g \in Receivers :
             receiver[h].event \in {Opened, Merged} /\ receiver[g].event \in {Opened, Merged} => h = g
        /\ \A h \in Receivers :
             receiver[h].event \in {Opened, Merged} /\ receiver[h].pc = "link"
                => (receiver[h].found <=> prLinks > 0)
        /\ prLinks <= 1

\* The status after the first n events.
StatusAfter(n) == IF n = 0 THEN "Todo" ELSE ToStatus(n)

\* In order there is one handler at most, of an event so far.  Before it moves
\* the task, the task is where the last event leaves it, or that event is the
\* one being handled and the task is where the event before left it.
OrderInv ==
    orderly # Disorderly =>
        /\ \A h, g \in Receivers : receiver[h].pc # "idle" /\ receiver[g].pc # "idle" => h = g
        /\ (\A h \in Receivers : receiver[h].pc = "idle") => taskStatus = StatusAfter(orderly)
        /\ taskStatus # "Todo" => commitLinks > 0
        /\ orderly = 0 => commitLinks = 0
        /\ \A h \in Receivers : receiver[h].pc # "idle" =>
             /\ receiver[h].event \in 1..orderly
             /\ IF receiver[h].pc = "move" THEN receiver[h].event = orderly
                ELSE \/ taskStatus = StatusAfter(orderly)
                     \/ receiver[h].event = orderly /\ taskStatus = StatusAfter(orderly - 1)
             /\ receiver[h].pc \in {"read", "move"} => commitLinks > 0
             /\ receiver[h].event = Push /\ receiver[h].pc \in {"find", "link"} /\ taskStatus = "Todo"
                  => commitLinks = 0

CodeEventsIInv == CodeType /\ ClaimsInv /\ CommitInv /\ PrInv /\ OrderInv

\* A handler that rests has nothing in hand.
LEMMA RestingReceiver ==
  /\ NoDelivery \in ReceiverRow
  /\ NoDelivery.pc = "idle" /\ NoDelivery.event = 0 /\ NoDelivery.found = FALSE
BY DEF NoDelivery, ReceiverRow

\* The transitions of the engineering preset, event by event.
LEMMA Transitions ==
  /\ ToStatus(1) = "In Progress" /\ ToStatus(2) = "In Review"
  /\ ToStatus(3) = "Testing" /\ ToStatus(4) = "Done"
  /\ FromStatuses(1) = {"Todo"} /\ FromStatuses(2) = {"Todo", "In Progress"}
  /\ FromStatuses(3) = {"In Review", "In Progress"} /\ FromStatuses(4) = {"Testing"}
<1>1. ToStatus(1) = "In Progress" /\ FromStatuses(1) = {"Todo"}
  BY DEF ToStatus, FromStatuses, Push, Opened, Merged, Deployed
<1>2. ToStatus(2) = "In Review" /\ FromStatuses(2) = {"Todo", "In Progress"}
  BY DEF ToStatus, FromStatuses, Push, Opened, Merged, Deployed
<1>3. ToStatus(3) = "Testing" /\ FromStatuses(3) = {"In Review", "In Progress"}
  BY DEF ToStatus, FromStatuses, Push, Opened, Merged, Deployed
<1>4. ToStatus(4) = "Done" /\ FromStatuses(4) = {"Testing"}
  BY DEF ToStatus, FromStatuses, Push, Opened, Merged, Deployed
<1> QED
  BY <1>1, <1>2, <1>3, <1>4

\* What each step of a handler leaves in its own hands.
LEMMA HandlerEffect ==
  ASSUME CodeType, NEW h \in Receivers
  PROVE  /\ Handle(h) \/ ReceiverFails(h) =>
              /\ receiver' \in [Receivers -> ReceiverRow]
              /\ \A g \in Receivers : g # h => receiver'[g] = receiver[g]
              /\ receiver[h].pc # "idle"
              /\ UNCHANGED <<claims, deliveries, dispatches, repeats, expired, unnamed, overlapped>>
         /\ FindLink(h) =>
              /\ receiver[h].pc = "find" /\ UNCHANGED <<taskStatus, commitLinks, prLinks, orderly>>
              /\ \/ receiver'[h] = NoDelivery /\ receiver[h].event = Push /\ commitLinks > 0
                 \/ /\ receiver'[h].pc = "link" /\ receiver'[h].event = receiver[h].event
                    /\ receiver[h].event = Push => ~(commitLinks > 0)
                    /\ receiver[h].event # Push => (receiver'[h].found <=> prLinks > 0)
         /\ WriteLink(h) =>
              /\ receiver[h].pc = "link" /\ UNCHANGED <<taskStatus, orderly>>
              /\ receiver'[h].pc = "read" /\ receiver'[h].event = receiver[h].event
              /\ receiver[h].event = Push => commitLinks' = commitLinks + 1 /\ prLinks' = prLinks
              /\ receiver[h].event # Push =>
                   /\ commitLinks' = commitLinks
                   /\ receiver[h].found => prLinks' = prLinks
                   /\ ~receiver[h].found => prLinks' = prLinks + 1
         /\ FindDeployed(h) =>
              /\ receiver[h].pc = "record" /\ UNCHANGED <<taskStatus, commitLinks, prLinks, orderly>>
              /\ \/ receiver'[h] = NoDelivery /\ ~(commitLinks > 0)
                 \/ /\ receiver'[h].pc = "read" /\ receiver'[h].event = receiver[h].event
                    /\ commitLinks > 0
         /\ ReadStatus(h) =>
              /\ receiver[h].pc = "read" /\ UNCHANGED <<taskStatus, commitLinks, prLinks, orderly>>
              /\ \/ receiver'[h] = NoDelivery /\ taskStatus \notin FromStatuses(receiver[h].event)
                 \/ /\ receiver'[h].pc = "move" /\ receiver'[h].event = receiver[h].event
                    /\ taskStatus \in FromStatuses(receiver[h].event)
         /\ MoveTask(h) =>
              /\ receiver[h].pc = "move" /\ UNCHANGED <<commitLinks, prLinks, orderly>>
              /\ receiver'[h] = NoDelivery /\ taskStatus' = ToStatus(receiver[h].event)
         /\ ReceiverFails(h) =>
              /\ UNCHANGED <<taskStatus, commitLinks, prLinks>> /\ orderly' = Disorderly
              /\ receiver'[h] = NoDelivery
<1>0. receiver \in [Receivers -> ReceiverRow] /\ receiver[h] \in ReceiverRow
  BY DEF CodeType, ReceiversReady
<1>1. ASSUME NEW p \in {"link", "read", "move"}, NEW f \in BOOLEAN
      PROVE  /\ [receiver EXCEPT ![h].pc = p] \in [Receivers -> ReceiverRow]
             /\ [receiver EXCEPT ![h].pc = p, ![h].found = f] \in [Receivers -> ReceiverRow]
             /\ [receiver EXCEPT ![h] = NoDelivery] \in [Receivers -> ReceiverRow]
  BY <1>0, RestingReceiver DEF ReceiverRow
<1>2. receiver[h] # NoDelivery <=> receiver[h].pc # "idle"
  BY RestingReceiver DEF CodeType, ReceiversReady
<1>3. Rest(h) => /\ receiver' \in [Receivers -> ReceiverRow] /\ receiver'[h] = NoDelivery
                 /\ \A g \in Receivers : g # h => receiver'[g] = receiver[g]
  BY <1>0, <1>1 DEF Rest
<1>4. ASSUME NEW p \in {"link", "read", "move"}, GoTo(h, p)
      PROVE  /\ receiver' \in [Receivers -> ReceiverRow]
             /\ receiver'[h].pc = p /\ receiver'[h].event = receiver[h].event
             /\ \A g \in Receivers : g # h => receiver'[g] = receiver[g]
  BY <1>0, <1>1, <1>4 DEF GoTo, ReceiverRow
<1>5. ASSUME FindLink(h)
      PROVE  /\ receiver' \in [Receivers -> ReceiverRow]
             /\ \A g \in Receivers : g # h => receiver'[g] = receiver[g]
             /\ receiver[h].pc = "find"
             /\ UNCHANGED <<taskStatus, claims, commitLinks, prLinks, deliveries, dispatches, repeats,
                            expired, unnamed, overlapped, orderly>>
             /\ \/ receiver'[h] = NoDelivery /\ receiver[h].event = Push /\ commitLinks > 0
                \/ /\ receiver'[h].pc = "link" /\ receiver'[h].event = receiver[h].event
                   /\ receiver[h].event = Push => ~(commitLinks > 0)
                   /\ receiver[h].event # Push => (receiver'[h].found <=> prLinks > 0)
  <2> DEFINE known == IF receiver[h].event = Push THEN commitLinks > 0 ELSE prLinks > 0
  <2>1. known \in BOOLEAN
    <3>1. (commitLinks > 0) \in BOOLEAN /\ (prLinks > 0) \in BOOLEAN
      OBVIOUS
    <3> QED
      BY <3>1
  <2>2. /\ receiver[h].pc = "find"
        /\ UNCHANGED <<taskStatus, claims, commitLinks, prLinks, deliveries, dispatches, repeats,
                       expired, unnamed, overlapped, orderly>>
        /\ IF receiver[h].event = Push /\ known THEN Rest(h)
           ELSE receiver' = [receiver EXCEPT ![h].pc = "link", ![h].found = known]
    BY <1>5 DEF FindLink
  <2>3. CASE receiver[h].event = Push /\ known
    <3>1. receiver[h].event = Push /\ commitLinks > 0
      BY <2>3
    <3>2. Rest(h)
      BY <2>2, <2>3
    <3> HIDE DEF known
    <3> QED
      BY <1>3, <2>2, <3>1, <3>2
  <2>4. CASE ~(receiver[h].event = Push /\ known)
    <3> HIDE DEF known
    <3>1. receiver' = [receiver EXCEPT ![h].pc = "link", ![h].found = known]
      BY <2>2, <2>4
    <3>2. receiver' \in [Receivers -> ReceiverRow]
      BY <1>1, <2>1, <3>1
    <3>3. /\ receiver'[h].pc = "link" /\ receiver'[h].event = receiver[h].event
          /\ receiver'[h].found = known
          /\ \A g \in Receivers : g # h => receiver'[g] = receiver[g]
      BY <1>0, <3>1 DEF ReceiverRow
    <3>4. /\ receiver[h].event = Push => ~(commitLinks > 0)
          /\ receiver[h].event # Push => (receiver'[h].found <=> prLinks > 0)
      BY <2>4, <3>3 DEF known
    <3> QED
      BY <2>2, <3>2, <3>3, <3>4
  <2> QED
    BY <2>3, <2>4
<1>6. WriteLink(h) =>
        /\ GoTo(h, "read") /\ receiver[h].pc = "link"
        /\ UNCHANGED <<taskStatus, claims, deliveries, dispatches, repeats, expired, unnamed,
                       overlapped, orderly>>
        /\ receiver[h].event = Push => commitLinks' = commitLinks + 1 /\ prLinks' = prLinks
        /\ receiver[h].event # Push =>
             /\ commitLinks' = commitLinks
             /\ receiver[h].found => prLinks' = prLinks
             /\ ~receiver[h].found => prLinks' = prLinks + 1
  BY DEF WriteLink, CodeType
<1>7. FindDeployed(h) =>
        /\ receiver[h].pc = "record"
        /\ UNCHANGED <<taskStatus, claims, commitLinks, prLinks, deliveries, dispatches, repeats,
                       expired, unnamed, overlapped, orderly>>
        /\ \/ Rest(h) /\ ~(commitLinks > 0)
           \/ GoTo(h, "read") /\ commitLinks > 0
  BY DEF FindDeployed
<1>8. ReadStatus(h) =>
        /\ receiver[h].pc = "read"
        /\ UNCHANGED <<taskStatus, claims, commitLinks, prLinks, deliveries, dispatches, repeats,
                       expired, unnamed, overlapped, orderly>>
        /\ \/ Rest(h) /\ taskStatus \notin FromStatuses(receiver[h].event)
           \/ GoTo(h, "move") /\ taskStatus \in FromStatuses(receiver[h].event)
  BY DEF ReadStatus
<1>9. /\ MoveTask(h) => Rest(h) /\ receiver[h].pc = "move" /\ taskStatus' = ToStatus(receiver[h].event)
                        /\ UNCHANGED <<claims, commitLinks, prLinks, deliveries, dispatches, repeats,
                                       expired, unnamed, overlapped, orderly>>
      /\ ReceiverFails(h) => Rest(h) /\ receiver[h] # NoDelivery /\ orderly' = Disorderly
                             /\ UNCHANGED <<taskStatus, claims, commitLinks, prLinks, deliveries,
                                            dispatches, repeats, expired, unnamed, overlapped>>
  BY DEF MoveTask, ReceiverFails
<1>10. Handle(h) \/ ReceiverFails(h) =>
              /\ receiver' \in [Receivers -> ReceiverRow]
              /\ \A g \in Receivers : g # h => receiver'[g] = receiver[g]
              /\ receiver[h].pc # "idle"
              /\ UNCHANGED <<claims, deliveries, dispatches, repeats, expired, unnamed, overlapped>>
  BY <1>2, <1>3, <1>4, <1>5, <1>6, <1>7, <1>8, <1>9 DEF Handle
<1> QED
  BY <1>3, <1>4, <1>5, <1>6, <1>7, <1>8, <1>9, <1>10

\* What an arriving delivery leaves in the hands of its handler.
LEMMA DeliverEffect ==
  ASSUME CodeType, NEW h \in Receivers, NEW e \in CodeEvent,
         NEW named \in BOOLEAN, Deliver(h, e, named)
  PROVE  /\ receiver[h] = NoDelivery
         /\ UNCHANGED <<taskStatus, commitLinks, prLinks, expired>>
         /\ receiver' \in [Receivers -> ReceiverRow]
         /\ \A g \in Receivers : g # h => receiver'[g] = receiver[g]
         /\ unnamed' = IF named THEN unnamed ELSE unnamed \cup {e}
         /\ \/ UNCHANGED <<claims, dispatches, receiver, orderly, overlapped>>
            \/ /\ named /\ e \in FromGithub => e \notin claims
               /\ claims' = IF named /\ e \in FromGithub THEN claims \cup {e} ELSE claims
               /\ dispatches' = [dispatches EXCEPT ![e] = @ + 1]
               /\ receiver'[h].event = e
               /\ receiver'[h].pc = IF e \in FromGithub THEN "find" ELSE "record"
               /\ orderly' = IF ~Quiet \/ e > orderly + 1 THEN Disorderly
                             ELSE IF e > orderly THEN e ELSE orderly
               /\ overlapped' = (overlapped \/ (e \in {Opened, Merged} /\
                                   \E g \in Receivers : receiver[g].event \in {Opened, Merged}))
<1>0. receiver \in [Receivers -> ReceiverRow] /\ receiver[h] \in ReceiverRow
  BY DEF CodeType, ReceiversReady
<1>1. /\ receiver[h] = NoDelivery /\ UNCHANGED <<taskStatus, commitLinks, prLinks, expired>>
      /\ unnamed' = IF named THEN unnamed ELSE unnamed \cup {e}
  BY DEF Deliver
<1>2. CASE ~Claimable(e, named)
  <2>1. UNCHANGED <<claims, dispatches, receiver, orderly, overlapped>>
    BY <1>2 DEF Deliver
  <2> QED
    BY <1>0, <1>1, <2>1
<1>3. CASE Claimable(e, named)
  <2>1. /\ claims' = IF named /\ e \in FromGithub THEN claims \cup {e} ELSE claims
        /\ dispatches' = [dispatches EXCEPT ![e] = @ + 1]
        /\ receiver' = [receiver EXCEPT ![h].event = e, ![h].pc = FirstStep(e)]
        /\ orderly' = IF ~Quiet \/ e > orderly + 1 THEN Disorderly
                      ELSE IF e > orderly THEN e ELSE orderly
        /\ overlapped' = (overlapped \/ (e \in {Opened, Merged} /\
                            \E g \in Receivers : receiver[g].event \in {Opened, Merged}))
    BY <1>3 DEF Deliver, Claiming
  <2>2. FirstStep(e) = (IF e \in FromGithub THEN "find" ELSE "record") /\ e \in 0..4
    BY DEF FirstStep, CodeEvent
  <2>3. FirstStep(e) \in {"find", "record"}
    BY <2>2
  <2> HIDE DEF Quiet
  <2>4. /\ receiver' \in [Receivers -> ReceiverRow]
        /\ receiver'[h].event = e /\ receiver'[h].pc = FirstStep(e)
        /\ \A g \in Receivers : g # h => receiver'[g] = receiver[g]
    BY <1>0, <2>1, <2>2, <2>3 DEF ReceiverRow
  <2>5. named /\ e \in FromGithub => e \notin claims
    BY <1>3 DEF Claimable, Claiming
  <2> QED
    BY <1>1, <2>1, <2>2, <2>4, <2>5
<1> QED
  BY <1>2, <1>3

\* The steps: GitHub alone leaves a delivery id out.
LEMMA CodeEventsSteps ==
  ASSUME [CodeEventsNext]_codeEventVars
  PROVE  \/ ExpireClaims \/ UNCHANGED codeEventVars
         \/ \E h \in Receivers : Handle(h) \/ ReceiverFails(h)
         \/ \E h \in Receivers, e \in CodeEvent, named \in BOOLEAN :
              (named \/ e \in FromGithub) /\ Deliver(h, e, named)
<1>1. FromGithub \subseteq CodeEvent
  BY DEF FromGithub, CodeEvent, Push, Opened, Merged
<1> QED
  BY <1>1 DEF CodeEventsNext, Arrival

\* Types are kept.
LEMMA CodeTypeStep ==
  ASSUME CodeType, [CodeEventsNext]_codeEventVars
  PROVE  CodeType'
<1>0. /\ receiver \in [Receivers -> ReceiverRow]
      /\ NoDelivery.pc = "idle" /\ NoDelivery.event = 0 /\ MaxRepeats \in Nat
  BY RestingReceiver, CodeEventsAssumption DEF CodeType, ReceiversReady
<1>1. CASE ExpireClaims
  BY <1>1 DEF ExpireClaims, CodeType, ReceiversReady
<1>2. CASE UNCHANGED codeEventVars
  BY <1>2 DEF codeEventVars, CodeType, ReceiversReady
<1>3. ASSUME NEW h \in Receivers, Handle(h) \/ ReceiverFails(h) PROVE CodeType'
  <2>1. /\ receiver' \in [Receivers -> ReceiverRow]
        /\ \A g \in Receivers : g # h => receiver'[g] = receiver[g]
        /\ UNCHANGED <<claims, deliveries, dispatches, repeats, expired, unnamed, overlapped>>
    BY <1>3, HandlerEffect
  <2>2. receiver[h].event \in CodeEvent /\ receiver[h].pc # "idle"
    BY <1>3, HandlerEffect DEF CodeType, ReceiversReady
  <2>3. \/ receiver'[h] = NoDelivery
        \/ receiver'[h].pc = "link" /\ receiver'[h].event = receiver[h].event /\ receiver[h].pc = "find"
        \/ receiver'[h].pc \in {"read", "move"} /\ receiver'[h].event = receiver[h].event
    BY <1>3, HandlerEffect DEF Handle
  <2>4. ReceiversReady'
    BY <1>0, <2>1, <2>2, <2>3 DEF CodeType, ReceiversReady
  <2>5. commitLinks' \in Nat /\ prLinks' \in Nat
    <3>1. \/ UNCHANGED <<commitLinks, prLinks>>
          \/ commitLinks' = commitLinks + 1 /\ prLinks' = prLinks
          \/ commitLinks' = commitLinks /\ prLinks' \in {prLinks, prLinks + 1}
      BY <1>3, HandlerEffect DEF Handle
    <3> QED
      BY <3>1 DEF CodeType
  <2>6. taskStatus' \in CodeStatuses /\ orderly' \in 0..4 \cup {Disorderly}
    <3>1. ToStatus(receiver[h].event) \in CodeStatuses
      <4>1. receiver[h].event \in {1, 2, 3, 4}
        BY <2>2 DEF CodeEvent
      <4> QED
        BY <4>1, Transitions DEF CodeStatuses
    <3>2. taskStatus' \in {taskStatus, ToStatus(receiver[h].event)} /\ orderly' \in {orderly, Disorderly}
      BY <1>3, HandlerEffect DEF Handle
    <3> QED
      BY <3>1, <3>2 DEF CodeType
  <2> QED
    BY <2>1, <2>4, <2>5, <2>6 DEF CodeType
<1>4. ASSUME NEW h \in Receivers, NEW e \in CodeEvent, NEW named \in BOOLEAN,
             named \/ e \in FromGithub, Deliver(h, e, named)
      PROVE  CodeType'
  <2>1. /\ UNCHANGED <<taskStatus, commitLinks, prLinks, expired>>
        /\ unnamed' \in {unnamed, unnamed \cup {e}} /\ (named => unnamed' = unnamed)
        /\ receiver' \in [Receivers -> ReceiverRow]
        /\ \A g \in Receivers : g # h => receiver'[g] = receiver[g]
    BY <1>4, DeliverEffect
  <2>2. /\ repeats' \in 0..MaxRepeats /\ deliveries' \in [CodeEvent -> Nat]
        /\ deliveries'[e] = deliveries[e] + 1
        /\ \A f \in CodeEvent : f # e => deliveries'[f] = deliveries[f]
        /\ repeats' >= repeats /\ deliveries'[e] <= repeats' + 1
    BY <1>0, <1>4 DEF Deliver, CodeType
  <2>2a. unnamed' \subseteq FromGithub
    BY <1>4, <2>1 DEF CodeType
  <2>3. CASE UNCHANGED <<claims, dispatches, receiver, orderly, overlapped>>
    <3>1. \A f \in CodeEvent : deliveries'[f] <= repeats' + 1 /\ dispatches'[f] <= deliveries'[f]
      BY <2>2, <2>3 DEF CodeType
    <3> QED
      BY <2>1, <2>2, <2>2a, <2>3, <3>1 DEF CodeType, ReceiversReady
  <2>4. CASE /\ claims' = IF named /\ e \in FromGithub THEN claims \cup {e} ELSE claims
             /\ dispatches' = [dispatches EXCEPT ![e] = @ + 1]
             /\ receiver'[h].event = e
             /\ receiver'[h].pc = IF e \in FromGithub THEN "find" ELSE "record"
             /\ orderly' \in {Disorderly, e, orderly} /\ overlapped' \in BOOLEAN
    <3>1. /\ dispatches' \in [CodeEvent -> Nat] /\ claims' \subseteq FromGithub
          /\ \A f \in CodeEvent : deliveries'[f] <= repeats' + 1 /\ dispatches'[f] <= deliveries'[f]
      BY <2>2, <2>4 DEF CodeType
    <3>2. ReceiversReady'
      <4>1. e \notin FromGithub => e = Deployed
        BY DEF FromGithub, CodeEvent, Deployed, Push, Opened, Merged
      <4>2. \/ receiver'[h].pc = "find" /\ receiver'[h].event \in FromGithub
            \/ receiver'[h].pc = "record" /\ receiver'[h].event = Deployed
        BY <2>4, <4>1
      <4> QED
        BY <2>1, <2>4, <4>2 DEF CodeType, ReceiversReady
    <3>3. orderly' \in 0..4 \cup {Disorderly}
      BY <2>4 DEF CodeType, CodeEvent
    <3> QED
      BY <2>1, <2>2, <2>2a, <2>4, <3>1, <3>2, <3>3 DEF CodeType
  <2>5. \/ UNCHANGED <<claims, dispatches, receiver, orderly, overlapped>>
        \/ /\ claims' = IF named /\ e \in FromGithub THEN claims \cup {e} ELSE claims
           /\ dispatches' = [dispatches EXCEPT ![e] = @ + 1]
           /\ receiver'[h].event = e
           /\ receiver'[h].pc = IF e \in FromGithub THEN "find" ELSE "record"
           /\ orderly' \in {Disorderly, e, orderly} /\ overlapped' \in BOOLEAN
    <3>1. \/ UNCHANGED <<claims, dispatches, receiver, orderly, overlapped>>
          \/ /\ claims' = IF named /\ e \in FromGithub THEN claims \cup {e} ELSE claims
             /\ dispatches' = [dispatches EXCEPT ![e] = @ + 1]
             /\ receiver'[h].event = e
             /\ receiver'[h].pc = IF e \in FromGithub THEN "find" ELSE "record"
             /\ orderly' = IF ~Quiet \/ e > orderly + 1 THEN Disorderly
                           ELSE IF e > orderly THEN e ELSE orderly
             /\ overlapped' = (overlapped \/ (e \in {Opened, Merged} /\
                                 \E g \in Receivers : receiver[g].event \in {Opened, Merged}))
      BY <1>4, DeliverEffect
    <3> QED
      BY <3>1 DEF CodeType
  <2> QED
    BY <2>3, <2>4, <2>5
<1> QED
  BY <1>1, <1>2, <1>3, <1>4, CodeEventsSteps

\* A claim outlives the handler that made it.
LEMMA ClaimsStep ==
  ASSUME CodeType, ClaimsInv, [CodeEventsNext]_codeEventVars
  PROVE  ClaimsInv'
<1>1. CASE ExpireClaims
  BY <1>1 DEF ExpireClaims, ClaimsInv
<1>2. CASE UNCHANGED codeEventVars
  BY <1>2 DEF codeEventVars, ClaimsInv
<1>3. ASSUME NEW h \in Receivers, Handle(h) \/ ReceiverFails(h) PROVE ClaimsInv'
  <2>1. UNCHANGED <<claims, dispatches, expired, unnamed>>
    BY <1>3, HandlerEffect
  <2> QED
    BY <2>1 DEF ClaimsInv
<1>4. ASSUME NEW h \in Receivers, NEW e \in CodeEvent, NEW named \in BOOLEAN,
             Deliver(h, e, named)
      PROVE  ClaimsInv'
  <2>1. /\ expired' = expired
        /\ unnamed' = IF named THEN unnamed ELSE unnamed \cup {e}
        /\ \/ UNCHANGED <<claims, dispatches>>
           \/ /\ named /\ e \in FromGithub => e \notin claims
              /\ claims' = IF named /\ e \in FromGithub THEN claims \cup {e} ELSE claims
              /\ dispatches' = [dispatches EXCEPT ![e] = @ + 1]
    BY <1>4, DeliverEffect
  <2>2. dispatches \in [CodeEvent -> Nat] /\ FromGithub \subseteq CodeEvent
    BY DEF CodeType, FromGithub, CodeEvent, Push, Opened, Merged
  <2> QED
    BY <2>1, <2>2 DEF ClaimsInv
<1> QED
  BY <1>1, <1>2, <1>3, <1>4, CodeEventsSteps

\* The commit of a push is linked once while its claim stands.
LEMMA CommitStep ==
  ASSUME CodeType, ClaimsInv, CommitInv, [CodeEventsNext]_codeEventVars
  PROVE  CommitInv'
<1>0. /\ NoDelivery.pc = "idle" /\ NoDelivery.event = 0 /\ Push = 1 /\ Push \in FromGithub
      /\ dispatches \in [CodeEvent -> Nat] /\ commitLinks \in Nat /\ Push \in CodeEvent
  BY RestingReceiver DEF Push, CodeType, FromGithub, CodeEvent
<1>1. CASE ExpireClaims
  BY <1>1 DEF ExpireClaims, CommitInv
<1>2. CASE UNCHANGED codeEventVars
  BY <1>2 DEF codeEventVars, CommitInv
<1>3. ASSUME NEW h \in Receivers, Handle(h) \/ ReceiverFails(h) PROVE CommitInv'
  <2>1. /\ \A g \in Receivers : g # h => receiver'[g] = receiver[g]
        /\ UNCHANGED <<dispatches, expired, unnamed>>
        /\ receiver[h].pc # "idle"
    BY <1>3, HandlerEffect
  <2>2. \/ receiver'[h].event # Push /\ commitLinks' = commitLinks
        \/ receiver[h].pc = "find" /\ receiver'[h].event = receiver[h].event /\ commitLinks' = commitLinks
        \/ /\ receiver'[h].pc \in {"read", "move"} /\ receiver'[h].event = receiver[h].event
           /\ \/ commitLinks' = commitLinks
              \/ commitLinks' = commitLinks + 1 /\ receiver[h].event = Push /\ receiver[h].pc = "link"
    BY <1>0, <1>3, HandlerEffect DEF Handle
  <2> QED
    BY <1>0, <2>1, <2>2 DEF CommitInv
<1>4. ASSUME NEW h \in Receivers, NEW e \in CodeEvent, NEW named \in BOOLEAN,
             Deliver(h, e, named)
      PROVE  CommitInv'
  <2>1. /\ UNCHANGED <<commitLinks, expired>> /\ receiver[h] = NoDelivery
        /\ unnamed' = IF named THEN unnamed ELSE unnamed \cup {e}
        /\ \A g \in Receivers : g # h => receiver'[g] = receiver[g]
    BY <1>4, DeliverEffect
  <2>2. \/ UNCHANGED <<dispatches, receiver>>
        \/ /\ named /\ e \in FromGithub => e \notin claims
           /\ dispatches' = [dispatches EXCEPT ![e] = @ + 1]
           /\ receiver'[h].event = e
    BY <1>4, DeliverEffect
  <2>3. CASE UNCHANGED <<dispatches, receiver>>
    BY <2>1, <2>3 DEF CommitInv
  <2>4. CASE /\ named /\ e \in FromGithub => e \notin claims
             /\ dispatches' = [dispatches EXCEPT ![e] = @ + 1]
             /\ receiver'[h].event = e
    <3>1. CASE e = Push
      <4>1. named /\ ~expired /\ Push \notin unnamed =>
              dispatches[Push] = 0 /\ \A g \in Receivers : receiver[g].event # Push
        BY <1>0, <2>4, <3>1 DEF ClaimsInv, CommitInv
      <4>2. dispatches'[Push] = dispatches[Push] + 1
        BY <1>0, <2>4, <3>1
      <4> QED
        BY <1>0, <2>1, <2>4, <3>1, <4>1, <4>2 DEF CommitInv
    <3>2. CASE e # Push
      <4>1. dispatches'[Push] = dispatches[Push]
        BY <1>0, <2>4, <3>2
      <4> QED
        BY <1>0, <2>1, <2>4, <3>2, <4>1 DEF CommitInv
    <3> QED
      BY <3>1, <3>2
  <2> QED
    BY <2>2, <2>3, <2>4
<1> QED
  BY <1>1, <1>2, <1>3, <1>4, CodeEventsSteps

\* Without an overlap the pull request is linked once.
LEMMA PrStep ==
  ASSUME CodeType, PrInv, [CodeEventsNext]_codeEventVars
  PROVE  PrInv'
<1>0. /\ NoDelivery.pc = "idle" /\ NoDelivery.event = 0 /\ prLinks \in Nat
      /\ Push = 1 /\ Opened = 2 /\ Merged = 3 /\ Deployed = 4
      /\ overlapped \in BOOLEAN
  BY RestingReceiver DEF CodeType, Push, Opened, Merged, Deployed
<1>1. CASE ExpireClaims
  BY <1>1 DEF ExpireClaims, PrInv
<1>2. CASE UNCHANGED codeEventVars
  BY <1>2 DEF codeEventVars, PrInv
<1>3. ASSUME NEW h \in Receivers, Handle(h) \/ ReceiverFails(h) PROVE PrInv'
  <2>1. /\ \A g \in Receivers : g # h => receiver'[g] = receiver[g]
        /\ UNCHANGED overlapped
    BY <1>3, HandlerEffect
  <2>2. receiver[h].pc = "link" => receiver[h].event \in {Push, Opened, Merged}
    BY DEF CodeType, ReceiversReady, FromGithub
  <2>3. \/ receiver'[h].event = 0 /\ prLinks' = prLinks
        \/ /\ receiver'[h].event = receiver[h].event /\ receiver'[h].pc # "link"
           /\ \/ prLinks' = prLinks
              \/ /\ prLinks' = prLinks + 1 /\ ~receiver[h].found
                 /\ receiver[h].pc = "link" /\ receiver[h].event # Push
        \/ /\ receiver'[h].event = receiver[h].event /\ prLinks' = prLinks
           /\ receiver[h].event # Push => (receiver'[h].found <=> prLinks > 0)
    BY <1>0, <1>3, HandlerEffect DEF Handle
  <2>4. CASE receiver'[h].event = 0 /\ prLinks' = prLinks
    BY <1>0, <2>1, <2>4 DEF PrInv
  <2>5. CASE receiver'[h].event = receiver[h].event /\ receiver'[h].pc # "link" /\ prLinks' = prLinks
    BY <1>0, <2>1, <2>5 DEF PrInv
  <2>6. CASE /\ receiver'[h].event = receiver[h].event /\ receiver'[h].pc # "link"
             /\ prLinks' = prLinks + 1 /\ ~receiver[h].found
             /\ receiver[h].pc = "link" /\ receiver[h].event # Push
    <3>1. receiver[h].event \in {Opened, Merged}
      BY <2>2, <2>6
    <3>2. ~overlapped => prLinks = 0
      BY <1>0, <2>6, <3>1 DEF PrInv
    <3> QED
      BY <1>0, <2>1, <2>6, <3>1, <3>2 DEF PrInv
  <2>7. CASE /\ receiver'[h].event = receiver[h].event /\ prLinks' = prLinks
             /\ receiver[h].event # Push => (receiver'[h].found <=> prLinks > 0)
    BY <1>0, <2>1, <2>7 DEF PrInv
  <2> QED
    BY <2>3, <2>4, <2>5, <2>6, <2>7
<1>4. ASSUME NEW h \in Receivers, NEW e \in CodeEvent, NEW named \in BOOLEAN,
             Deliver(h, e, named)
      PROVE  PrInv'
  <2>1. /\ prLinks' = prLinks /\ receiver[h] = NoDelivery
        /\ \A g \in Receivers : g # h => receiver'[g] = receiver[g]
    BY <1>4, DeliverEffect
  <2>2. \/ UNCHANGED <<receiver, overlapped>>
        \/ /\ receiver'[h].event = e
           /\ receiver'[h].pc = IF e \in FromGithub THEN "find" ELSE "record"
           /\ overlapped' = (overlapped \/ (e \in {Opened, Merged} /\
                                  \E g \in Receivers : receiver[g].event \in {Opened, Merged}))
    BY <1>4, DeliverEffect
  <2>3. CASE UNCHANGED <<receiver, overlapped>>
    BY <2>1, <2>3 DEF PrInv
  <2>4. CASE /\ receiver'[h].event = e
             /\ receiver'[h].pc = IF e \in FromGithub THEN "find" ELSE "record"
             /\ overlapped' = (overlapped \/ (e \in {Opened, Merged} /\
                                  \E g \in Receivers : receiver[g].event \in {Opened, Merged}))
    <3>1. receiver'[h].pc # "link"
      BY <2>4
    <3>2. ~overlapped' => ~overlapped /\ (e \in {Opened, Merged} =>
             \A g \in Receivers : receiver[g].event \notin {Opened, Merged})
      BY <1>0, <2>4
    <3> QED
      BY <1>0, <2>1, <2>4, <3>1, <3>2 DEF PrInv
  <2> QED
    BY <2>2, <2>3, <2>4
<1> QED
  BY <1>1, <1>2, <1>3, <1>4, CodeEventsSteps

\* The events lead the task one step on each: where one has left it, the next
\* finds it, and none before.
LEMMA Steps ==
  ASSUME NEW n \in 1..4, NEW e \in 1..4, e <= n
  PROVE  /\ StatusAfter(n) # "Todo" /\ StatusAfter(n) \notin FromStatuses(e)
         /\ StatusAfter(n - 1) \in FromStatuses(n)
         /\ n > 1 => StatusAfter(n - 1) # "Todo"
<1>1. StatusAfter(n) = ToStatus(n)
  BY DEF StatusAfter
<1>2. StatusAfter(n - 1) = IF n = 1 THEN "Todo" ELSE ToStatus(n - 1)
  BY DEF StatusAfter
<1>3. CASE n = 1
  <2>1. e = 1 /\ ~(n > 1)
    BY <1>3
  <2>2. StatusAfter(n) = "In Progress" /\ FromStatuses(e) = {"Todo"} /\ FromStatuses(n) = {"Todo"}
    BY <1>1, <1>3, <2>1, Transitions
  <2>3. StatusAfter(n - 1) = "Todo"
    BY <1>2, <1>3
  <2> QED
    BY <2>1, <2>2, <2>3
<1>4. CASE n = 2
  <2>1. e \in {1, 2} /\ n - 1 = 1
    BY <1>4
  <2> QED
    BY <1>1, <1>2, <1>4, <2>1, Transitions
<1>5. CASE n = 3
  <2>1. e \in {1, 2, 3} /\ n - 1 = 2
    BY <1>5
  <2> QED
    BY <1>1, <1>2, <1>5, <2>1, Transitions
<1>6. CASE n = 4
  <2>1. e \in {1, 2, 3, 4} /\ n - 1 = 3
    BY <1>6
  <2> QED
    BY <1>1, <1>2, <1>6, <2>1, Transitions
<1> QED
  BY <1>3, <1>4, <1>5, <1>6

\* In order, the task follows the events.
LEMMA OrderStep ==
  ASSUME CodeType, OrderInv, [CodeEventsNext]_codeEventVars
  PROVE  OrderInv'
<1>0. /\ NoDelivery.pc = "idle" /\ NoDelivery.event = 0 /\ commitLinks \in Nat
      /\ Push = 1 /\ Opened = 2 /\ Merged = 3 /\ Deployed = 4 /\ Disorderly = 9
      /\ orderly \in {0, 1, 2, 3, 4, 9}
      /\ CodeEvent = {1, 2, 3, 4} /\ FromGithub = {1, 2, 3}
  BY RestingReceiver DEF CodeType, Push, Opened, Merged, Deployed, Disorderly, CodeEvent, FromGithub
<1>1. CASE ExpireClaims
  BY <1>1 DEF ExpireClaims, OrderInv
<1>2. CASE UNCHANGED codeEventVars
  BY <1>2 DEF codeEventVars, OrderInv
<1>3. ASSUME NEW h \in Receivers, ReceiverFails(h) PROVE OrderInv'
  BY <1>3 DEF ReceiverFails, OrderInv
<1>4. ASSUME NEW h \in Receivers, Handle(h) PROVE OrderInv'
  <2> SUFFICES ASSUME orderly' # Disorderly PROVE OrderInv'
    BY DEF OrderInv
  <2>0. /\ \A g \in Receivers : g # h => receiver'[g] = receiver[g]
        /\ receiver[h].pc # "idle" /\ orderly' = orderly
    BY <1>4, HandlerEffect DEF Handle
  <2>1. /\ orderly \in {1, 2, 3, 4} /\ receiver[h].event \in CodeEvent /\ receiver[h].event <= orderly
        /\ \A g \in Receivers : g # h => receiver[g].pc = "idle" /\ receiver'[g].pc = "idle"
    BY <1>0, <2>0 DEF OrderInv, CodeType, ReceiversReady
  <2> DEFINE e == receiver[h].event
             n == orderly
  <2>st. /\ e \in 1..4 /\ n \in 1..4 /\ e <= n
         /\ StatusAfter(n) # "Todo" /\ StatusAfter(n) \notin FromStatuses(e)
         /\ StatusAfter(n - 1) \in FromStatuses(n)
         /\ n > 1 => StatusAfter(n - 1) # "Todo"
    <3>1. e \in 1..4 /\ n \in 1..4 /\ e <= n
      BY <1>0, <2>1
    <3> QED
      BY <3>1, Steps
  <2>at. receiver[h].pc # "move" =>
            taskStatus = StatusAfter(n) \/ (e = n /\ taskStatus = StatusAfter(n - 1))
    BY <2>0 DEF OrderInv
  <2>far. receiver[h].pc # "move" /\ e > 1 => taskStatus # "Todo"
    BY <2>st, <2>at
  <2>2. CASE FindLink(h)
    <3>1. receiver[h].pc = "find" /\ UNCHANGED <<taskStatus, commitLinks>>
      BY <2>2, HandlerEffect
    <3>2. CASE receiver'[h] = NoDelivery /\ receiver[h].event = Push /\ commitLinks > 0
      <4>1. taskStatus # "Todo"
        BY <1>0, <2>0, <3>1, <3>2 DEF OrderInv
      <4>2. taskStatus = StatusAfter(orderly)
        <5>1. e = 1 /\ (n = 1 => StatusAfter(n - 1) = "Todo")
          BY <1>0, <3>2 DEF StatusAfter
        <5> QED
          BY <2>at, <3>1, <4>1, <5>1
      <4> QED
        BY <1>0, <2>0, <2>1, <3>1, <3>2, <4>2 DEF OrderInv
    <3>3. CASE /\ receiver'[h].pc = "link" /\ receiver'[h].event = receiver[h].event
               /\ receiver[h].event = Push => ~(commitLinks > 0)
      BY <1>0, <2>0, <2>1, <3>1, <3>3 DEF OrderInv
    <3> QED
      BY <2>2, <3>2, <3>3, HandlerEffect
  <2>3. CASE WriteLink(h)
    <3>1. /\ receiver[h].pc = "link" /\ taskStatus' = taskStatus
          /\ receiver'[h].pc = "read" /\ receiver'[h].event = receiver[h].event
          /\ IF receiver[h].event = Push THEN commitLinks' = commitLinks + 1 ELSE commitLinks' = commitLinks
      BY <2>3, HandlerEffect
    <3>2. receiver[h].event # Push => taskStatus # "Todo"
      BY <1>0, <2>st, <2>far, <3>1
    <3>3. commitLinks' > 0
      BY <1>0, <2>0, <3>1, <3>2 DEF OrderInv
    <3> QED
      BY <1>0, <2>0, <2>1, <3>1, <3>3 DEF OrderInv
  <2>4. CASE FindDeployed(h)
    <3>1. receiver[h].pc = "record" /\ UNCHANGED <<taskStatus, commitLinks>> /\ receiver[h].event = 4
      BY <1>0, <2>4, HandlerEffect DEF CodeType, ReceiversReady
    <3>2. taskStatus # "Todo"
      BY <2>far, <3>1
    <3>3. commitLinks > 0
      BY <1>0, <2>0, <3>2 DEF OrderInv
    <3>4. receiver'[h].pc = "read" /\ receiver'[h].event = receiver[h].event
      BY <2>4, <3>3, HandlerEffect
    <3> QED
      BY <1>0, <2>0, <2>1, <3>1, <3>3, <3>4 DEF OrderInv
  <2>5. CASE ReadStatus(h)
    <3>1. receiver[h].pc = "read" /\ UNCHANGED <<taskStatus, commitLinks>> /\ commitLinks > 0
      BY <1>0, <2>0, <2>5, HandlerEffect DEF OrderInv
    <3>2. \/ taskStatus = StatusAfter(orderly)
          \/ receiver[h].event = orderly /\ taskStatus = StatusAfter(orderly - 1)
      BY <2>at, <3>1
    <3>3. CASE taskStatus = StatusAfter(orderly)
      <4>1. taskStatus \notin FromStatuses(receiver[h].event)
        BY <2>st, <3>3
      <4>2. receiver'[h] = NoDelivery
        BY <2>5, <4>1, HandlerEffect
      <4> QED
        BY <1>0, <2>0, <2>1, <3>1, <3>3, <4>2 DEF OrderInv
    <3>4. CASE receiver[h].event = orderly /\ taskStatus = StatusAfter(orderly - 1)
      <4>1. taskStatus \in FromStatuses(receiver[h].event)
        BY <2>st, <3>4
      <4>2. receiver'[h].pc = "move" /\ receiver'[h].event = receiver[h].event
        BY <2>5, <4>1, HandlerEffect
      <4> QED
        BY <1>0, <2>0, <2>1, <3>1, <3>4, <4>2 DEF OrderInv
    <3> QED
      BY <3>2, <3>3, <3>4
  <2>6. CASE MoveTask(h)
    <3>1. /\ receiver[h].pc = "move" /\ commitLinks' = commitLinks /\ receiver'[h] = NoDelivery
          /\ taskStatus' = ToStatus(receiver[h].event)
      BY <2>6, HandlerEffect
    <3>2. receiver[h].event = orderly /\ commitLinks > 0
      BY <1>0, <2>0, <3>1 DEF OrderInv
    <3>3. taskStatus' = StatusAfter(orderly)
      BY <2>1, <3>1, <3>2 DEF StatusAfter
    <3> QED
      BY <1>0, <2>0, <2>1, <3>1, <3>2, <3>3 DEF OrderInv
  <2> QED
    BY <1>4, <2>2, <2>3, <2>4, <2>5, <2>6 DEF Handle
<1>5. ASSUME NEW h \in Receivers, NEW e \in CodeEvent, NEW named \in BOOLEAN,
             Deliver(h, e, named)
      PROVE  OrderInv'
  <2> SUFFICES ASSUME orderly' # Disorderly PROVE OrderInv'
    BY DEF OrderInv
  <2>1. /\ UNCHANGED <<taskStatus, commitLinks>> /\ receiver[h] = NoDelivery
        /\ \A g \in Receivers : g # h => receiver'[g] = receiver[g]
    BY <1>5, DeliverEffect
  <2>2. CASE UNCHANGED <<receiver, orderly>>
    BY <2>1, <2>2 DEF OrderInv
  <2>3. CASE /\ receiver'[h].event = e
             /\ receiver'[h].pc = IF e \in FromGithub THEN "find" ELSE "record"
             /\ orderly' = IF ~Quiet \/ e > orderly + 1 THEN Disorderly
                           ELSE IF e > orderly THEN e ELSE orderly
    <3>1. Quiet /\ orderly' = (IF e > orderly THEN e ELSE orderly) /\ e <= orderly + 1
      <4>1. ~(~Quiet \/ e > orderly + 1)
        BY <2>3
      <4>2. orderly' = IF e > orderly THEN e ELSE orderly
        BY <2>3, <4>1
      <4>3. e <= orderly + 1
        BY <1>0, <4>1
      <4> QED
        BY <4>1, <4>2, <4>3
    <3>2. \A g \in Receivers : receiver[g].pc = "idle" /\ (g # h => receiver'[g].pc = "idle")
      BY <1>0, <2>1, <3>1 DEF Quiet
    <3>3. receiver'[h].pc \in {"find", "record"}
      BY <2>3
    <3>4. orderly # Disorderly
      BY <1>0, <3>1
    <3>5. taskStatus = StatusAfter(orderly) /\ (taskStatus # "Todo" => commitLinks > 0)
          /\ (orderly = 0 => commitLinks = 0)
      BY <3>2, <3>4 DEF OrderInv
    <3>6. orderly' \in {1, 2, 3, 4} /\ e \in 1..orderly'
      BY <1>0, <3>1, <3>4
    <3>7. taskStatus = StatusAfter(orderly') \/ (e = orderly' /\ taskStatus = StatusAfter(orderly' - 1))
      BY <1>0, <3>1, <3>5
    <3>8. taskStatus = "Todo" => commitLinks = 0
      <4>1. CASE orderly = 0
        BY <3>5, <4>1
      <4>2. CASE orderly \in 1..4
        <5>1. orderly <= orderly
          BY <4>2
        <5>2. StatusAfter(orderly) # "Todo"
          BY <4>2, <5>1, Steps
        <5> QED
          BY <3>5, <5>2
      <4> QED
        BY <1>0, <3>4, <4>1, <4>2
    <3> QED
      BY <1>0, <2>1, <2>3, <3>2, <3>3, <3>5, <3>6, <3>7, <3>8 DEF OrderInv
  <2> QED
    BY <1>5, <2>2, <2>3, DeliverEffect
<1> QED
  BY <1>1, <1>2, <1>3, <1>4, <1>5, CodeEventsSteps

\* No delivery has come.
LEMMA EventsStart == CodeEventsInit => CodeEventsIInv
<1> SUFFICES ASSUME CodeEventsInit PROVE CodeEventsIInv
  OBVIOUS
<1>1. NoDelivery.pc = "idle" /\ NoDelivery.event = 0 /\ NoDelivery \in ReceiverRow
  BY RestingReceiver
<1>2. /\ receiver \in [Receivers -> ReceiverRow]
      /\ \A h \in Receivers : receiver[h] = NoDelivery
  BY <1>1 DEF CodeEventsInit
<1>3. CodeType
  <2>1. ReceiversReady
    BY <1>1, <1>2 DEF ReceiversReady
  <2>2. /\ deliveries \in [CodeEvent -> Nat] /\ dispatches \in [CodeEvent -> Nat]
        /\ \A e \in CodeEvent : deliveries[e] <= repeats + 1 /\ dispatches[e] <= deliveries[e]
        /\ repeats \in 0..MaxRepeats
    BY CodeEventsAssumption DEF CodeEventsInit
  <2>3. overlapped \in BOOLEAN /\ expired \in BOOLEAN /\ unnamed \subseteq FromGithub
    BY DEF CodeEventsInit
  <2> QED
    BY <2>1, <2>2, <2>3 DEF CodeEventsInit, CodeType, CodeStatuses
<1>4. ClaimsInv
  BY DEF CodeEventsInit, ClaimsInv, FromGithub, CodeEvent, Push, Opened, Merged
<1>5. CommitInv /\ PrInv
  BY <1>1, <1>2 DEF CodeEventsInit, CommitInv, PrInv, Push, Opened, Merged
<1>6. OrderInv
  BY <1>1, <1>2 DEF CodeEventsInit, OrderInv, StatusAfter
<1> QED
  BY <1>3, <1>4, <1>5, <1>6 DEF CodeEventsIInv

\* For any number of handlers and of repeated deliveries: the status, the links,
\* the claims and every handler are well typed, and nothing is dispatched more
\* often than it was delivered (GithubWebhookController, GithubEventsService).
THEOREM EventsTyped == CodeEventsSpec => []CodeEventsTypeOK
<1>1. CodeEventsIInv /\ [CodeEventsNext]_codeEventVars => CodeEventsIInv'
  BY CodeTypeStep, ClaimsStep, CommitStep, PrStep, OrderStep DEF CodeEventsIInv
<1>2. CodeEventsIInv => CodeEventsTypeOK
  <2> SUFFICES ASSUME CodeType PROVE CodeEventsTypeOK
    BY DEF CodeEventsIInv
  <2>1. ASSUME NEW h \in Receivers
        PROVE  /\ receiver[h].pc \in {"idle", "find", "link", "record", "read", "move"}
               /\ receiver[h].event \in 0..4
               /\ receiver[h].pc \in {"find", "link"} => receiver[h].event \in FromGithub
    BY RestingReceiver DEF CodeType, ReceiversReady, ReceiverRow, CodeEvent
  <2>2. deliveries \in [CodeEvent -> 0..(MaxRepeats + 1)]
    <3>1. \A e \in CodeEvent : deliveries[e] \in 0..(MaxRepeats + 1)
      BY CodeEventsAssumption DEF CodeType
    <3> QED
      BY <3>1 DEF CodeType
  <2>3. \A e \in CodeEvent : dispatches[e] \in 0..deliveries[e]
    BY DEF CodeType
  <2> QED
    BY <2>1, <2>2, <2>3 DEF CodeType, CodeEventsTypeOK
<1> QED
  BY <1>1, <1>2, EventsStart, PTL DEF CodeEventsSpec

\* For any number of handlers and of repeated deliveries, in any order, failed
\* or not: a delivery is dispatched once while its claim stands, a commit and a
\* pull request are linked once, and handled in order the last event decides
\* the status (GithubWebhookController, GithubEventsService, AutoStatusService).
THEOREM EventsAreSound == CodeEventsSpec => []CodeEventsSound
<1>1. CodeEventsInit => CodeEventsIInv
  BY EventsStart
<1>2. CodeEventsIInv /\ [CodeEventsNext]_codeEventVars => CodeEventsIInv'
  BY CodeTypeStep, ClaimsStep, CommitStep, PrStep, OrderStep DEF CodeEventsIInv
<1>3. CodeEventsIInv => CodeEventsSound
  <2> SUFFICES ASSUME CodeEventsIInv PROVE CodeEventsSound
    OBVIOUS
  <2>1. DispatchedOnce /\ LinkedOnce
    BY DEF CodeEventsIInv, ClaimsInv, CommitInv, PrInv, DispatchedOnce, LinkedOnce
  <2>2. StatusFollowsEvents
    BY RestingReceiver DEF CodeEventsIInv, OrderInv, StatusAfter, StatusFollowsEvents, Quiet
  <2> QED
    BY <2>1, <2>2 DEF CodeEventsSound
<1> QED
  BY <1>1, <1>2, <1>3, PTL DEF CodeEventsSpec

-----------------------------------------------------------------------------
(* Automations *)

AutoRow == [pc: {"idle", "loop", "act", "repost", "record", "count", "fail"},
            ev: Event \cup {NoEvent}, todo: SUBSET Autos,
            auto: Autos \cup {"none"}, step: Nat, ok: Nat]

Length(a) == Len(Config[a].actions)

\* What a handler has in hand at each step of a run: as many actions have taken
\* effect as lie behind it.
RunAt(r) ==
    /\ r.pc \in {"act", "repost", "record", "count", "fail"} => r.auto \in Autos
    /\ r.pc = "loop" => r.ok = 0
    /\ r.pc \in {"act", "repost"} => r.step \in 1..Length(r.auto) /\ r.ok = r.step - 1
    /\ r.pc \in {"record", "count"} => r.ok = Length(r.auto)

AutoType ==
    /\ task \in [there: BOOLEAN, status: Statuses, due: Dues, marked: BOOLEAN]
    /\ enabled \in [Autos -> {"on", "off", "gone"}]
    /\ inbox \subseteq Event
    /\ emitted \in Nat /\ outside \in Nat
    /\ handler \in [Handlers -> AutoRow] /\ \A h \in Handlers : RunAt(handler[h])
    /\ started \in Tally /\ succeeded \in Tally /\ failed \in Tally
    /\ complete \in Tally /\ runCount \in Tally
    /\ ringer \in {"idle", "mark", "emit", "clear"}
    /\ rung \in Nat
    /\ moves \in 0..MaxMoves /\ breaks \in 0..MaxMoves

\* Every automation has an action of its own, of a kind and a target that go
\* together.
LEMMA EveryStepActs ==
  ASSUME NEW a \in Autos
  PROVE  /\ Length(a) \in Nat /\ Length(a) >= 1
         /\ \A i \in 1..Length(a) : Config[a].actions[i] \in Actions
<1>1. Config[a].actions \in Seq(Actions) /\ Config[a].actions # <<>>
  BY AutomationsAssumption
<1> QED
  BY <1>1 DEF Length

\* A handler at rest.
LEMMA FreeRow == Free \in AutoRow /\ RunAt(Free) /\ Free.todo = {} /\ Free.pc = "idle"
  BY DEF Free, AutoRow, RunAt

\* A handler takes up an automation.
LEMMA RowTaken ==
  ASSUME NEW r \in AutoRow, RunAt(r), r.pc = "loop", NEW a \in r.todo
  PROVE  LET s == [r EXCEPT !.pc = "act", !.auto = a, !.step = 1, !.todo = r.todo \ {a}]
         IN  s \in AutoRow /\ RunAt(s) /\ s.todo = r.todo \ {a} /\ s.pc = "act" /\ s.auto = a
<1> DEFINE s == [r EXCEPT !.pc = "act", !.auto = a, !.step = 1, !.todo = r.todo \ {a}]
<1>1. a \in Autos
  BY DEF AutoRow
<1>2. s \in AutoRow /\ s.pc = "act" /\ s.auto = a /\ s.step = 1 /\ s.ok = r.ok /\ s.todo = r.todo \ {a}
  BY <1>1 DEF AutoRow
<1>3. r.ok = 0 /\ Length(a) \in Nat /\ Length(a) >= 1
  BY <1>1, EveryStepActs DEF RunAt
<1>4. 1 \in 1..Length(a) /\ r.ok = 1 - 1
  BY <1>3
<1> HIDE DEF s
<1>5. s \in AutoRow /\ RunAt(s) /\ s.todo = r.todo \ {a} /\ s.pc = "act" /\ s.auto = a
  BY <1>1, <1>2, <1>4 DEF RunAt
<1> QED
  BY <1>5 DEF s

\* A handler passes over an automation that does not match.
LEMMA RowPassed ==
  ASSUME NEW r \in AutoRow, RunAt(r), r.pc = "loop", NEW a \in r.todo
  PROVE  LET s == [r EXCEPT !.todo = r.todo \ {a}]
         IN  s \in AutoRow /\ RunAt(s) /\ s.todo = r.todo \ {a} /\ s.pc = "loop"
<1> DEFINE s == [r EXCEPT !.todo = r.todo \ {a}]
<1>1. s \in AutoRow /\ s.pc = "loop" /\ s.ok = r.ok /\ s.todo = r.todo \ {a}
  BY DEF AutoRow
<1> HIDE DEF s
<1>2. RunAt(s)
  BY <1>1 DEF RunAt
<1> QED
  BY <1>1, <1>2 DEF s

\* A handler after an action.
LEMMA RowActed ==
  ASSUME NEW r \in AutoRow, RunAt(r), r.pc \in {"act", "repost"},
         NEW s, s.pc = IF r.step = Length(r.auto) THEN "record" ELSE "act",
         s.auto = r.auto, s.step = r.step + 1, s.ok = r.ok + 1
  PROVE  RunAt(s) /\ s.pc \in {"act", "record"}
<1>1. r.auto \in Autos /\ r.step \in 1..Length(r.auto) /\ r.ok = r.step - 1
  BY DEF RunAt
<1>2. s.pc \in {"act", "record"} /\ (s.pc = "record" <=> r.step = Length(r.auto))
  OBVIOUS
<1>3. Length(r.auto) \in Nat
  BY <1>1, EveryStepActs
<1>4. /\ r.step # Length(r.auto) => r.step + 1 \in 1..Length(r.auto)
      /\ r.ok + 1 = (r.step + 1) - 1 /\ (r.step = Length(r.auto) => r.ok + 1 = Length(r.auto))
  BY <1>1, <1>3
<1> QED
  BY <1>1, <1>2, <1>4 DEF RunAt

\* A handler after an automation.
LEMMA RowNext ==
  ASSUME NEW r \in AutoRow
  PROVE  LET s == IF r.todo = {} THEN Free
                  ELSE [r EXCEPT !.pc = "loop", !.auto = "none", !.step = 0, !.ok = 0]
         IN  s \in AutoRow /\ RunAt(s) /\ s.todo = r.todo /\ s.pc \in {"idle", "loop"}
<1> DEFINE s == [r EXCEPT !.pc = "loop", !.auto = "none", !.step = 0, !.ok = 0]
<1>1. s \in AutoRow /\ s.pc = "loop" /\ s.ok = 0 /\ s.todo = r.todo
  BY DEF AutoRow
<1> HIDE DEF s
<1>2. RunAt(s)
  BY <1>1 DEF RunAt
<1> QED
  BY <1>1, <1>2, FreeRow DEF s

\* A handler that tries the webhook again, counts the run or ends it in the
\* catch block.
LEMMA RowMoved ==
  ASSUME NEW r \in AutoRow, RunAt(r), NEW p,
         \/ r.pc = "act" /\ p = "repost"
         \/ r.pc = "record" /\ p = "count"
         \/ r.pc \in {"act", "repost", "count"} /\ p = "fail",
         NEW s, s = [r EXCEPT !.pc = p]
  PROVE  s \in AutoRow /\ RunAt(s) /\ s.todo = r.todo /\ s.pc = p /\ s.auto = r.auto
<1>1. s \in AutoRow /\ s.pc = p /\ s.auto = r.auto /\ s.step = r.step /\ s.ok = r.ok /\ s.todo = r.todo
  BY DEF AutoRow
<1> QED
  BY <1>1 DEF RunAt

\* A step that only its own handler shows.
OnlyHandler(h) ==
    /\ handler' \in [Handlers -> AutoRow] /\ \A g \in Handlers : RunAt(handler'[g])
    /\ \A g \in Handlers : g # h => handler'[g] = handler[g]

\* A step of one handler leaves the others alone.
LEMMA OneRow ==
  ASSUME AutoType, NEW h \in Handlers, NEW s \in AutoRow, RunAt(s),
         handler' = [handler EXCEPT ![h] = s]
  PROVE  OnlyHandler(h) /\ handler'[h] = s
<1>1. handler \in [Handlers -> AutoRow] /\ \A g \in Handlers : RunAt(handler[g])
  BY DEF AutoType
<1>2. handler' \in [Handlers -> AutoRow] /\ handler'[h] = s /\ \A g \in Handlers : g # h => handler'[g] = handler[g]
  BY <1>1
<1> QED
  BY <1>1, <1>2 DEF OnlyHandler

\* NextAuto moves one handler, to its loop or to rest.
LEMMA NextAutoRow ==
  ASSUME AutoType, NEW h \in Handlers, NextAuto(h)
  PROVE  OnlyHandler(h) /\ handler'[h].todo = handler[h].todo /\ handler'[h].pc \in {"idle", "loop"}
<1> DEFINE r == handler[h]
           s == IF r.todo = {} THEN Free
                ELSE [r EXCEPT !.pc = "loop", !.auto = "none", !.step = 0, !.ok = 0]
<1>1. r \in AutoRow
  BY DEF AutoType
<1>2. handler' = [handler EXCEPT ![h] = s]
  BY DEF NextAuto
<1>3. s \in AutoRow /\ RunAt(s) /\ s.todo = r.todo /\ s.pc \in {"idle", "loop"}
  BY <1>1, RowNext
<1> HIDE DEF s
<1> QED
  BY <1>2, <1>3, OneRow

\* A handler goes on to another place of the same run.
LEMMA MovedRow ==
  ASSUME AutoType, NEW h \in Handlers, NEW p,
         \/ handler[h].pc = "act" /\ p = "repost"
         \/ handler[h].pc = "record" /\ p = "count"
         \/ handler[h].pc \in {"act", "repost", "count"} /\ p = "fail",
         handler' = [handler EXCEPT ![h].pc = p]
  PROVE  /\ OnlyHandler(h) /\ handler'[h].todo = handler[h].todo
         /\ handler'[h].pc = p /\ handler'[h].auto = handler[h].auto
<1> DEFINE s == [handler[h] EXCEPT !.pc = p]
<1>1. handler[h] \in AutoRow /\ RunAt(handler[h]) /\ handler \in [Handlers -> AutoRow]
  BY DEF AutoType
<1>2. handler' = [handler EXCEPT ![h] = s]
  BY <1>1
<1>3. s = [handler[h] EXCEPT !.pc = p]
  OBVIOUS
<1> HIDE DEF s
<1>4. s \in AutoRow /\ RunAt(s) /\ s.todo = handler[h].todo /\ s.pc = p /\ s.auto = handler[h].auto
  BY <1>1, <1>3, RowMoved
<1> QED
  BY <1>2, <1>4, OneRow

\* Acted moves one handler, to its next action or to the record.
LEMMA ActedRow ==
  ASSUME AutoType, NEW h \in Handlers, handler[h].pc \in {"act", "repost"}, Acted(h)
  PROVE  /\ OnlyHandler(h) /\ handler'[h].todo = handler[h].todo
         /\ handler'[h].pc \in {"act", "record"} /\ handler'[h].auto = handler[h].auto
<1> DEFINE r == handler[h]
           p == IF r.step = Length(r.auto) THEN "record" ELSE "act"
           s == [r EXCEPT !.ok = r.ok + 1, !.step = r.step + 1, !.pc = p]
<1>1. r \in AutoRow /\ RunAt(r) /\ handler \in [Handlers -> AutoRow]
  BY DEF AutoType
<1>2. handler' = [handler EXCEPT ![h].ok = @ + 1, ![h].step = @ + 1, ![h].pc = p]
  BY DEF Acted, Length
<1> HIDE DEF p
<1>3. handler' = [handler EXCEPT ![h] = s]
  BY <1>1, <1>2
<1>4. p \in {"act", "record"} /\ p = IF r.step = Length(r.auto) THEN "record" ELSE "act"
  BY DEF p
<1>5. r.ok + 1 \in Nat /\ r.step + 1 \in Nat
  BY <1>1 DEF AutoRow
<1>6. /\ s \in AutoRow /\ s.pc = p /\ s.auto = r.auto /\ s.step = r.step + 1
      /\ s.ok = r.ok + 1 /\ s.todo = r.todo
  BY <1>1, <1>4, <1>5 DEF AutoRow
<1>7. RunAt(s) /\ s.pc \in {"act", "record"}
  <2>1. r.pc \in {"act", "repost"}
    OBVIOUS
  <2> HIDE DEF s, r
  <2> QED
    BY <1>1, <1>4, <1>6, <2>1, RowActed
<1> HIDE DEF s
<1> QED
  BY <1>3, <1>6, <1>7, OneRow

\* An event of an automation reaches nobody.
LEMMA EmitInside ==
  ASSUME AutoType, NEW k, NEW f, NEW t, Emit(k, f, t, TRUE)
  PROVE  NoEmit
BY DEF AutoType, Emit, Heeds, NoEmit

\* An event from outside is put in the inbox.
LEMMA EmitOutside ==
  ASSUME AutoType, NEW k \in Triggers, NEW f \in Statuses, NEW t \in Statuses, Emit(k, f, t, FALSE)
  PROVE  /\ emitted' = emitted + 1 /\ outside' = outside + 1
         /\ \E ev \in Event : inbox' = inbox \cup {ev}
<1>1. /\ emitted' = emitted + 1 /\ outside' = outside + 1
      /\ inbox' = inbox \cup {[n |-> emitted + 1, kind |-> k, from |-> f, to |-> t]}
  BY DEF Emit, Heeds
<1>2. [n |-> emitted + 1, kind |-> k, from |-> f, to |-> t] \in Event
  BY DEF AutoType, Event
<1> QED
  BY <1>1, <1>2

\* A handler takes an automation up, or passes it over.
LEMMA TakeEffect ==
  ASSUME AutoType, NEW h \in Handlers, NEW a \in handler[h].todo, TakeAuto(h, a)
  PROVE  /\ OnlyHandler(h) /\ NoEmit /\ a \in Autos
         /\ handler[h].pc = "loop"
         /\ a \notin handler'[h].todo /\ handler'[h].todo \subseteq handler[h].todo
         /\ \/ /\ started' = [started EXCEPT ![a] = @ + 1]
               /\ handler'[h].pc = "act" /\ handler'[h].auto = a
            \/ started' = started /\ handler'[h].pc \in {"idle", "loop"}
         /\ UNCHANGED <<task, enabled, succeeded, failed, complete, runCount, ringer, rung, moves, breaks>>
<1> DEFINE r == handler[h]
<1>1. r \in AutoRow /\ RunAt(r) /\ handler \in [Handlers -> AutoRow] /\ started \in [Autos -> Nat]
  BY DEF AutoType, Tally
<1>2. a \in Autos /\ r.pc = "loop" /\ a \in r.todo
  BY <1>1 DEF AutoRow, TakeAuto
<1>3. started' = IF MatchesTrigger(a, r.ev) THEN [started EXCEPT ![a] = @ + 1] ELSE started
  <2>1. [started EXCEPT ![a] = @ + 0] = started
    BY <1>1, <1>2
  <2> QED
    BY <2>1 DEF TakeAuto, Plus
<1>4. CASE MatchesTrigger(a, r.ev)
  <2> DEFINE s == [r EXCEPT !.pc = "act", !.auto = a, !.step = 1, !.todo = r.todo \ {a}]
  <2>1. handler' = [handler EXCEPT ![h].pc = "act", ![h].auto = a, ![h].step = 1,
                                   ![h].todo = @ \ {a}]
    BY <1>4 DEF TakeAuto
  <2>2. handler' = [handler EXCEPT ![h] = s]
    BY <1>1, <2>1
  <2>3. s \in AutoRow /\ RunAt(s) /\ s.todo = r.todo \ {a} /\ s.pc = "act" /\ s.auto = a
    BY <1>1, <1>2, RowTaken
  <2> HIDE DEF s
  <2>4. OnlyHandler(h) /\ handler'[h] = s
    BY <2>2, <2>3, OneRow
  <2> QED
    BY <1>2, <1>3, <1>4, <2>3, <2>4 DEF TakeAuto
<1>5. CASE ~MatchesTrigger(a, r.ev)
  <2> DEFINE s == IF r.todo = {a} THEN Free ELSE [r EXCEPT !.todo = r.todo \ {a}]
  <2>1. handler' = [handler EXCEPT ![h] = s]
    BY <1>5 DEF TakeAuto
  <2>2. s \in AutoRow /\ RunAt(s) /\ s.todo = r.todo \ {a} /\ s.pc \in {"idle", "loop"}
    <3>1. CASE r.todo = {a}
      BY <3>1, FreeRow
    <3>2. CASE r.todo # {a}
      BY <1>1, <1>2, <3>2, RowPassed
    <3> QED
      BY <3>1, <3>2
  <2> HIDE DEF s
  <2>3. OnlyHandler(h) /\ handler'[h] = s
    BY <2>1, <2>2, OneRow
  <2> QED
    BY <1>2, <1>3, <1>5, <2>2, <2>3 DEF TakeAuto
<1> QED
  BY <1>4, <1>5

\* An action takes effect or fails; automations hear nothing of it.
LEMMA ActEffect ==
  ASSUME AutoType, NEW h \in Handlers,
         ExecuteAction(h) \/ ActionFails(h) \/ SendWebhook(h) \/ RepostWebhook(h)
  PROVE  /\ OnlyHandler(h) /\ NoEmit
         /\ handler[h].pc \in {"act", "repost"}
         /\ handler'[h].pc \in {"act", "repost", "record", "fail"}
         /\ handler'[h].auto = handler[h].auto /\ handler'[h].todo = handler[h].todo
         /\ task' \in [there: BOOLEAN, status: Statuses, due: Dues, marked: BOOLEAN]
         /\ task'.marked = task.marked
         /\ breaks' \in {breaks, breaks + 1} /\ breaks' \in 0..MaxMoves
         /\ UNCHANGED <<enabled, started, succeeded, failed, complete, runCount, ringer, rung, moves>>
<1>0. /\ task \in [there: BOOLEAN, status: Statuses, due: Dues, marked: BOOLEAN]
      /\ moves \in 0..MaxMoves /\ breaks \in 0..MaxMoves /\ MaxMoves \in Nat
  BY AutomationsAssumption DEF AutoType
<1>1. Break \/ UNCHANGED breaks => breaks' \in {breaks, breaks + 1} /\ breaks' \in 0..MaxMoves
  BY <1>0 DEF Break
<1>2. CASE ExecuteAction(h)
  <2>1. Step(h) \in Actions
    <3>1. handler[h].auto \in Autos /\ handler[h].step \in 1..Length(handler[h].auto)
      BY <1>2 DEF ExecuteAction, AutoType, RunAt
    <3> QED
      BY <3>1, EveryStepActs DEF Step
  <2>2. /\ Step(h)[1] = "transition_status" => Step(h)[2] \in Statuses
        /\ Step(h)[1] = "set_due_date" => Step(h)[2] \in Dues
    BY <2>1 DEF Actions
  <2>4. /\ task' \in [there: BOOLEAN, status: Statuses, due: Dues, marked: BOOLEAN]
        /\ task'.marked = task.marked
    <3> DEFINE v == Step(h)[2]
               k == Step(h)[1]
    <3>1. task' = CASE k = "transition_status" -> [task EXCEPT !.status = v]
                    [] k = "set_due_date" -> [task EXCEPT !.due = v]
                    [] OTHER -> task
      BY <1>2 DEF ExecuteAction
    <3> HIDE DEF v, k
    <3>2. CASE k = "transition_status"
      <4>1. task' = [task EXCEPT !.status = v] /\ v \in Statuses
        BY <2>2, <3>1, <3>2 DEF v, k
      <4> QED
        BY <1>0, <4>1
    <3>3. CASE k = "set_due_date"
      <4>1. task' = [task EXCEPT !.due = v] /\ v \in Dues
        BY <2>2, <3>1, <3>3 DEF v, k
      <4> QED
        BY <1>0, <4>1
    <3>4. CASE k \notin {"transition_status", "set_due_date"}
      BY <1>0, <3>1, <3>4
    <3> QED
      BY <3>2, <3>3, <3>4
  <2>5. NoEmit
    BY <1>2, EmitInside DEF ExecuteAction
  <2>6. Acted(h) /\ handler[h].pc = "act"
        /\ UNCHANGED <<enabled, started, succeeded, failed, complete, runCount, ringer, rung, moves, breaks>>
    BY <1>2 DEF ExecuteAction, Counters
  <2> QED
    BY <1>1, <2>4, <2>5, <2>6, ActedRow
<1>3. CASE ActionFails(h)
  <2>1. /\ handler' = [handler EXCEPT ![h].pc = "fail"] /\ handler[h].pc = "act"
        /\ NoEmit /\ (Break \/ UNCHANGED breaks)
        /\ UNCHANGED <<task, enabled, started, succeeded, failed, complete, runCount, ringer, rung, moves>>
    BY <1>3 DEF ActionFails, Caught, Counters
  <2> QED
    BY <1>0, <1>1, <2>1, MovedRow
<1>4. CASE SendWebhook(h)
  <2>1. /\ handler[h].pc = "act" /\ NoEmit /\ (Break \/ UNCHANGED breaks)
        /\ UNCHANGED <<task, enabled, started, succeeded, failed, complete, runCount, ringer, rung, moves>>
        /\ \/ Acted(h)
           \/ handler' = [handler EXCEPT ![h].pc = "repost"]
           \/ handler' = [handler EXCEPT ![h].pc = "fail"]
    BY <1>4 DEF SendWebhook, Caught, Counters
  <2> QED
    BY <1>0, <1>1, <2>1, MovedRow, ActedRow
<1>5. CASE RepostWebhook(h)
  <2>1. /\ handler[h].pc = "repost" /\ NoEmit /\ (Break \/ UNCHANGED breaks)
        /\ UNCHANGED <<task, enabled, started, succeeded, failed, complete, runCount, ringer, rung, moves>>
        /\ Acted(h) \/ handler' = [handler EXCEPT ![h].pc = "fail"]
    BY <1>5 DEF RepostWebhook, Caught, Counters
  <2> QED
    BY <1>0, <1>1, <2>1, MovedRow, ActedRow
<1> QED
  BY <1>2, <1>3, <1>4, <1>5

\* One more in a tally.
OneMore(tally, a) == [tally EXCEPT ![a] = @ + 1]

\* A row is written, except for an automation that is gone or by a rejected
\* insert.
LEMMA RowEffect ==
  ASSUME AutoType, NEW a \in Autos, NewRow(succeeded, a)
  PROVE  /\ breaks' \in {breaks, breaks + 1} /\ breaks' \in 0..MaxMoves
         /\ \/ succeeded' = OneMore(succeeded, a)
            \/ succeeded' = succeeded /\ (enabled[a] = "gone" \/ breaks' = breaks + 1)
<1>1. /\ succeeded \in [Autos -> Nat] /\ breaks \in 0..MaxMoves /\ moves \in 0..MaxMoves
      /\ MaxMoves \in Nat
  BY AutomationsAssumption DEF AutoType, Tally
<1>2. [succeeded EXCEPT ![a] = @ + 0] = succeeded
  BY <1>1
<1>3. CASE Break /\ UNCHANGED succeeded
  BY <1>1, <1>3 DEF Break
<1>4. CASE UNCHANGED breaks /\ succeeded' = Plus(succeeded, a, IF enabled[a] = "gone" THEN 0 ELSE 1)
  BY <1>1, <1>2, <1>4 DEF Plus, OneMore
<1> QED
  BY <1>3, <1>4 DEF NewRow

\* The same of a run that failed.
LEMMA FailedRowEffect ==
  ASSUME AutoType, NEW a \in Autos, NewRow(failed, a)
  PROVE  /\ breaks' \in {breaks, breaks + 1} /\ breaks' \in 0..MaxMoves
         /\ \/ failed' = OneMore(failed, a)
            \/ failed' = failed /\ (enabled[a] = "gone" \/ breaks' = breaks + 1)
<1>1. /\ failed \in [Autos -> Nat] /\ breaks \in 0..MaxMoves /\ moves \in 0..MaxMoves
      /\ MaxMoves \in Nat
  BY AutomationsAssumption DEF AutoType, Tally
<1>2. [failed EXCEPT ![a] = @ + 0] = failed
  BY <1>1
<1>3. CASE Break /\ UNCHANGED failed
  BY <1>1, <1>3 DEF Break
<1>4. CASE UNCHANGED breaks /\ failed' = Plus(failed, a, IF enabled[a] = "gone" THEN 0 ELSE 1)
  BY <1>1, <1>2, <1>4 DEF Plus, OneMore
<1> QED
  BY <1>3, <1>4 DEF NewRow

\* The run is recorded: every action of it has taken effect.
LEMMA RecordEffect ==
  ASSUME AutoType, NEW h \in Handlers, RecordRun(h)
  PROVE  LET a == handler[h].auto
         IN  /\ OnlyHandler(h) /\ NoEmit /\ a \in Autos
             /\ handler[h].pc = "record" /\ handler'[h].pc = "count" /\ handler'[h].auto = a
             /\ handler'[h].todo = handler[h].todo
             /\ breaks' \in {breaks, breaks + 1} /\ breaks' \in 0..MaxMoves
             /\ \/ succeeded' = OneMore(succeeded, a)
                \/ succeeded' = succeeded /\ (enabled[a] = "gone" \/ breaks' = breaks + 1)
             /\ complete' = OneMore(complete, a)
             /\ UNCHANGED <<task, enabled, started, failed, runCount, ringer, rung, moves>>
<1>1. handler[h] \in AutoRow /\ RunAt(handler[h])
  BY DEF AutoType
<1>2. /\ handler[h].pc = "record" /\ NoEmit /\ handler' = [handler EXCEPT ![h].pc = "count"]
      /\ UNCHANGED <<task, enabled, started, failed, runCount, ringer, rung, moves>>
      /\ NewRow(succeeded, handler[h].auto)
      /\ complete' = [complete EXCEPT ![handler[h].auto] =
                         @ + (IF handler[h].ok = Length(handler[h].auto) THEN 1 ELSE 0)]
  BY DEF RecordRun, Plus, Length
<1>3. handler[h].auto \in Autos /\ handler[h].ok = Length(handler[h].auto)
  BY <1>1, <1>2 DEF RunAt
<1> QED
  BY <1>2, <1>3, MovedRow, RowEffect DEF OneMore

\* The run is counted, or the update throws.
LEMMA CountEffect ==
  ASSUME AutoType, NEW h \in Handlers, CountRun(h)
  PROVE  LET a == handler[h].auto
         IN  /\ OnlyHandler(h) /\ NoEmit /\ a \in Autos
             /\ handler[h].pc = "count" /\ handler'[h].todo = handler[h].todo
             /\ breaks' \in {breaks, breaks + 1} /\ breaks' \in 0..MaxMoves
             /\ \/ /\ runCount' = OneMore(runCount, a) /\ handler'[h].pc \in {"idle", "loop"}
                   /\ enabled[a] # "gone"
                \/ /\ runCount' = runCount /\ handler'[h].pc = "fail" /\ handler'[h].auto = a
                   /\ enabled[a] = "gone" \/ breaks' = breaks + 1
             /\ UNCHANGED <<task, enabled, started, succeeded, failed, complete, ringer, rung, moves>>
<1>0. breaks \in 0..MaxMoves /\ moves \in 0..MaxMoves /\ MaxMoves \in Nat
  BY AutomationsAssumption DEF AutoType
<1>1. /\ handler[h].pc = "count" /\ NoEmit
      /\ UNCHANGED <<task, enabled, started, succeeded, failed, complete, ringer, rung, moves>>
  BY DEF CountRun
<1>2. handler[h].auto \in Autos
  BY <1>1 DEF AutoType, RunAt
<1>3. CASE /\ enabled[handler[h].auto] # "gone" /\ NextAuto(h)
           /\ runCount' = Plus(runCount, handler[h].auto, 1) /\ UNCHANGED breaks
  BY <1>0, <1>1, <1>2, <1>3, NextAutoRow DEF Plus, OneMore
<1>4. CASE /\ Caught(h) /\ UNCHANGED runCount
           /\ IF enabled[handler[h].auto] = "gone" THEN UNCHANGED breaks ELSE Break
  <2>1. /\ breaks' \in {breaks, breaks + 1} /\ breaks' \in 0..MaxMoves
        /\ enabled[handler[h].auto] = "gone" \/ breaks' = breaks + 1
    BY <1>0, <1>4 DEF Break
  <2>2. handler' = [handler EXCEPT ![h].pc = "fail"]
    BY <1>4 DEF Caught
  <2> QED
    BY <1>1, <1>2, <1>4, <2>1, <2>2, MovedRow
<1> QED
  BY <1>3, <1>4 DEF CountRun

\* The catch block records the run and goes on.
LEMMA FailEffect ==
  ASSUME AutoType, NEW h \in Handlers, RecordFailed(h)
  PROVE  LET a == handler[h].auto
         IN  /\ OnlyHandler(h) /\ NoEmit /\ a \in Autos
             /\ handler[h].pc = "fail" /\ handler'[h].pc \in {"idle", "loop"}
             /\ handler'[h].todo = handler[h].todo
             /\ breaks' \in {breaks, breaks + 1} /\ breaks' \in 0..MaxMoves
             /\ \/ failed' = OneMore(failed, a)
                \/ failed' = failed /\ (enabled[a] = "gone" \/ breaks' = breaks + 1)
             /\ UNCHANGED <<task, enabled, started, succeeded, complete, runCount, ringer, rung, moves>>
<1>1. /\ handler[h].pc = "fail" /\ NoEmit /\ NextAuto(h) /\ NewRow(failed, handler[h].auto)
      /\ UNCHANGED <<task, enabled, started, succeeded, complete, runCount, ringer, rung, moves>>
  BY DEF RecordFailed
<1>2. handler[h].auto \in Autos
  BY <1>1 DEF AutoType, RunAt
<1> QED
  BY <1>1, <1>2, NextAutoRow, FailedRowEffect

\* A handler dies with what it had to do.
LEMMA DieEffect ==
  ASSUME AutoType, NEW h \in Handlers, HandlerDies(h)
  PROVE  /\ OnlyHandler(h) /\ NoEmit /\ handler'[h] = Free
         /\ breaks' = breaks + 1 /\ breaks' \in 0..MaxMoves
         /\ UNCHANGED <<task, enabled, started, succeeded, failed, complete, runCount, ringer, rung, moves>>
<1>1. /\ NoEmit /\ Break /\ handler' = [handler EXCEPT ![h] = Free]
      /\ UNCHANGED <<task, enabled, started, succeeded, failed, complete, runCount, ringer, rung, moves>>
  BY DEF HandlerDies, Counters
<1>2. breaks' = breaks + 1 /\ breaks' \in 0..MaxMoves
  BY <1>1, AutomationsAssumption DEF Break, AutoType
<1> QED
  BY <1>1, <1>2, FreeRow, OneRow

\* The listener takes an event up.
LEMMA ListenEffect ==
  ASSUME AutoType, NEW h \in Handlers, NEW e \in inbox, Listen(h, e)
  PROVE  /\ OnlyHandler(h) /\ inbox' = inbox \ {e} /\ handler[h] = Free
         /\ handler'[h].pc \in {"idle", "loop"}
         /\ UNCHANGED <<task, enabled, emitted, outside, started, succeeded, failed, complete, runCount,
                        ringer, rung, moves, breaks>>
<1> DEFINE found == {a \in Autos : enabled[a] = "on" /\ Config[a].trigger = e.kind}
           s == [Free EXCEPT !.pc = "loop", !.ev = e, !.todo = found]
<1>1. /\ inbox' = inbox \ {e} /\ handler[h] = Free
      /\ handler' = IF found = {} THEN handler ELSE [handler EXCEPT ![h] = s]
      /\ UNCHANGED <<task, enabled, emitted, outside, started, succeeded, failed, complete, runCount,
                     ringer, rung, moves, breaks>>
  BY DEF Listen, Counters
<1>2. e \in Event /\ found \in SUBSET Autos
  BY DEF AutoType
<1>3. s \in AutoRow /\ RunAt(s) /\ s.pc = "loop"
  <2> HIDE DEF found
  <2>1. Free \in AutoRow /\ Free.ok = 0
    BY FreeRow DEF Free
  <2>2. s \in AutoRow /\ s.pc = "loop" /\ s.ok = Free.ok
    BY <1>2, <2>1 DEF AutoRow
  <2> HIDE DEF s
  <2> QED
    BY <2>1, <2>2 DEF RunAt
<1> HIDE DEF s, found
<1>4. CASE found = {}
  <2>1. handler' = handler
    BY <1>1, <1>4
  <2>2. OnlyHandler(h) /\ handler'[h].pc = "idle"
    BY <1>1, <2>1, FreeRow DEF AutoType, OnlyHandler
  <2> QED
    BY <1>1, <2>2
<1>5. CASE found # {}
  <2>1. handler' = [handler EXCEPT ![h] = s]
    BY <1>1, <1>5
  <2>2. OnlyHandler(h) /\ handler'[h] = s
    BY <1>3, <2>1, OneRow
  <2> QED
    BY <1>1, <1>3, <2>2
<1> QED
  BY <1>4, <1>5

\* What the tick and the users leave alone: the handlers and the counters.
LEMMA OutsideEffect ==
  ASSUME AutoType,
         \/ DueScan \/ DueMark \/ DueEmit \/ DueClear \/ DueDies
         \/ \E s \in Statuses : ChangeStatus(s)
         \/ AddComment \/ RemoveTask
         \/ \E d \in Dues : SetDueDate(d)
         \/ \E a \in Autos, to \in {"on", "off", "gone"} : EditAutomation(a, to)
  PROVE  /\ UNCHANGED <<handler, started, succeeded, failed, complete, runCount>>
         /\ \/ NoEmit
            \/ emitted' = emitted + 1 /\ outside' = outside + 1 /\ \E ev \in Event : inbox' = inbox \cup {ev}
         /\ \A a \in Autos : enabled[a] = "gone" => enabled'[a] = "gone"
         /\ enabled' \in [Autos -> {"on", "off", "gone"}]
         /\ breaks' \in {breaks, breaks + 1} /\ breaks' \in 0..MaxMoves /\ moves' \in 0..MaxMoves
         /\ task' \in [there: BOOLEAN, status: Statuses, due: Dues, marked: BOOLEAN]
         /\ rung' \in Nat /\ ringer' \in {"idle", "mark", "emit", "clear"}
<1>0. /\ task \in [there: BOOLEAN, status: Statuses, due: Dues, marked: BOOLEAN]
      /\ moves \in 0..MaxMoves /\ breaks \in 0..MaxMoves /\ MaxMoves \in Nat /\ rung \in Nat
      /\ ringer \in {"idle", "mark", "emit", "clear"} /\ task.status \in Statuses
      /\ enabled \in [Autos -> {"on", "off", "gone"}]
  BY AutomationsAssumption DEF AutoType
<1>1. /\ Break => breaks' \in {breaks, breaks + 1} /\ breaks' \in 0..MaxMoves
      /\ Move => moves' \in 0..MaxMoves
  BY <1>0 DEF Break, Move
<1>2. /\ \A v \in BOOLEAN : /\ [task EXCEPT !.marked = v] \in [there: BOOLEAN, status: Statuses, due: Dues, marked: BOOLEAN]
                            /\ [task EXCEPT !.there = v] \in [there: BOOLEAN, status: Statuses, due: Dues, marked: BOOLEAN]
      /\ \A v \in Statuses : [task EXCEPT !.status = v] \in [there: BOOLEAN, status: Statuses, due: Dues, marked: BOOLEAN]
      /\ \A v \in Dues : [task EXCEPT !.due = v] \in [there: BOOLEAN, status: Statuses, due: Dues, marked: BOOLEAN]
  BY <1>0
<1>3. CASE DueScan
  BY <1>0, <1>3 DEF DueScan, Counters
<1>4. CASE DueMark
  BY <1>0, <1>2, <1>4 DEF DueMark, Counters
<1>5. CASE DueEmit
  <2>1. Emit("task_due_soon", task.status, task.status, FALSE) /\ "task_due_soon" \in Triggers
    BY <1>5 DEF DueEmit, Triggers
  <2>2. emitted' = emitted + 1 /\ outside' = outside + 1 /\ \E ev \in Event : inbox' = inbox \cup {ev}
    BY <1>0, <2>1, EmitOutside
  <2> QED
    BY <1>0, <1>5, <2>2 DEF DueEmit, Counters
<1>6. CASE DueClear
  <2> DEFINE out == task.due \in {"none", "far"} \/ task.status \in Closed
  <2>1. /\ ringer' = "idle" /\ task' = [task EXCEPT !.marked = task.marked /\ ~out]
        /\ rung' = (IF out THEN 0 ELSE rung) /\ NoEmit
        /\ UNCHANGED <<enabled, handler, started, succeeded, failed, complete, runCount, moves, breaks>>
    BY <1>6 DEF DueClear, Counters
  <2> HIDE DEF out
  <2>2. (task.marked /\ ~out) \in BOOLEAN /\ rung' \in Nat
    <3>1. rung' \in Nat
      BY <1>0, <2>1
    <3>2. (task.marked /\ ~out) \in BOOLEAN
      OBVIOUS
    <3> QED
      BY <3>1, <3>2
  <2>3. task' \in [there: BOOLEAN, status: Statuses, due: Dues, marked: BOOLEAN]
    BY <1>2, <2>1, <2>2
  <2> QED
    BY <1>0, <2>1, <2>2, <2>3
<1>7. CASE DueDies
  BY <1>0, <1>1, <1>7 DEF DueDies, Counters
<1>8. ASSUME NEW s \in Statuses, ChangeStatus(s)
      PROVE  /\ UNCHANGED <<handler, started, succeeded, failed, complete, runCount, enabled, breaks, rung, ringer>>
             /\ emitted' = emitted + 1 /\ outside' = outside + 1
             /\ \E ev \in Event : inbox' = inbox \cup {ev}
             /\ moves' \in 0..MaxMoves
             /\ task' \in [there: BOOLEAN, status: Statuses, due: Dues, marked: BOOLEAN]
  <2>1. Emit("task_status_changed", task.status, s, FALSE) /\ "task_status_changed" \in Triggers
    BY <1>8 DEF ChangeStatus, Triggers
  <2>2. emitted' = emitted + 1 /\ outside' = outside + 1 /\ \E ev \in Event : inbox' = inbox \cup {ev}
    BY <1>0, <2>1, EmitOutside
  <2> QED
    BY <1>1, <1>2, <1>8, <2>2 DEF ChangeStatus, Counters
<1>9. CASE AddComment
  <2>1. Emit("comment_added", task.status, task.status, FALSE) /\ "comment_added" \in Triggers
    BY <1>9 DEF AddComment, Triggers
  <2>2. emitted' = emitted + 1 /\ outside' = outside + 1 /\ \E ev \in Event : inbox' = inbox \cup {ev}
    BY <1>0, <2>1, EmitOutside
  <2> QED
    BY <1>0, <1>1, <1>9, <2>2 DEF AddComment, Counters
<1>10. CASE RemoveTask
  BY <1>0, <1>1, <1>2, <1>10 DEF RemoveTask, Counters
<1>11. ASSUME NEW d \in Dues, SetDueDate(d)
       PROVE  /\ UNCHANGED <<handler, started, succeeded, failed, complete, runCount, enabled, breaks, rung, ringer>>
              /\ NoEmit /\ moves' \in 0..MaxMoves
              /\ task' \in [there: BOOLEAN, status: Statuses, due: Dues, marked: BOOLEAN]
  BY <1>1, <1>2, <1>11 DEF SetDueDate, Counters
<1>12. ASSUME NEW a \in Autos, NEW to \in {"on", "off", "gone"}, EditAutomation(a, to)
       PROVE  /\ UNCHANGED <<handler, started, succeeded, failed, complete, runCount, task, breaks, rung, ringer>>
              /\ NoEmit /\ moves' \in 0..MaxMoves
              /\ enabled' \in [Autos -> {"on", "off", "gone"}]
              /\ \A b \in Autos : enabled[b] = "gone" => enabled'[b] = "gone"
  BY <1>0, <1>1, <1>12 DEF EditAutomation, Counters
<1> QED
  BY <1>0, <1>3, <1>4, <1>5, <1>6, <1>7, <1>8, <1>9, <1>10, <1>11, <1>12

\* The handlers that have read an automation and not come to it.
Waiting(a) == {h \in Handlers : a \in handler[h].todo}

\* Those between the record of a run and its count, and those whose run has no
\* record yet.
Counting(a) == InHand(a, {"count"})
Pending(a) == InHand(a, {"act", "repost", "record", "fail"})

\* Each event from outside is in the inbox, or an automation can still be run
\* for it by one handler, or has been.
CascadeInv ==
    /\ outside = emitted /\ IsFiniteSet(inbox)
    /\ \A a \in Autos : started[a] + Cardinality(inbox) + Cardinality(Waiting(a)) <= emitted

\* The account of one automation: its tallies, the handlers between the two
\* writes and those with a run that is not recorded, and what has broken.
AccountInv(e, st, su, fa, co, rc, cn, pn, br) ==
    /\ rc + cn <= co
    /\ rc <= su + br
    /\ e # "gone" => /\ rc + cn <= su + br
                      /\ su <= rc + cn + br
                      /\ st <= su + fa + pn + br
                      /\ su + fa + pn <= st + br

CountInv ==
    \A a \in Autos :
        AccountInv(enabled[a], started[a], succeeded[a], failed[a], complete[a],
                   runCount[a], Cardinality(Counting(a)), Cardinality(Pending(a)), breaks)

\* The marker is up from before the ring until after the window.
RingInv ==
    /\ rung <= 1
    /\ ~task.marked => rung = 0
    /\ ringer = "mark" => rung = 0
    /\ ringer = "emit" => rung = 0 /\ task.marked

\* Two sets of handlers that differ at one.
LEMMA ByOne ==
  ASSUME IsFiniteSet(Handlers), NEW A \in SUBSET Handlers, NEW B \in SUBSET Handlers,
         NEW h \in Handlers, \A g \in Handlers : g # h => (g \in A <=> g \in B)
  PROVE  /\ Cardinality(A) \in Nat /\ Cardinality(B) \in Nat
         /\ (h \in A <=> h \in B) => Cardinality(A) = Cardinality(B)
         /\ h \notin A /\ h \in B => Cardinality(B) = Cardinality(A) + 1
         /\ h \in A /\ h \notin B => Cardinality(A) = Cardinality(B) + 1
<1>1. IsFiniteSet(A) /\ IsFiniteSet(B) /\ Cardinality(A) \in Nat /\ Cardinality(B) \in Nat
  BY FS_Subset, FS_CardinalityType
<1>2. (h \in A <=> h \in B) => A = B
  OBVIOUS
<1>3. h \notin A /\ h \in B => B = A \cup {h}
  OBVIOUS
<1>4. h \in A /\ h \notin B => A = B \cup {h}
  OBVIOUS
<1> QED
  BY <1>1, <1>2, <1>3, <1>4, FS_AddElement

\* Every step is one of a handler, of the listener, or from outside.
HandlerActs(h) ==
    \/ \E a \in handler[h].todo : TakeAuto(h, a)
    \/ ExecuteAction(h) \/ ActionFails(h) \/ SendWebhook(h) \/ RepostWebhook(h)
    \/ RecordRun(h) \/ CountRun(h) \/ RecordFailed(h) \/ HandlerDies(h)
FromOutside ==
    \/ DueScan \/ DueMark \/ DueEmit \/ DueClear \/ DueDies
    \/ \E s \in Statuses : ChangeStatus(s)
    \/ AddComment \/ RemoveTask
    \/ \E d \in Dues : SetDueDate(d)
    \/ \E a \in Autos, to \in {"on", "off", "gone"} : EditAutomation(a, to)

\* The steps, grouped by who takes them.
LEMMA AutomationsSteps ==
  AutomationsNext <=> \/ \E h \in Handlers : HandlerActs(h) \/ \E e \in inbox : Listen(h, e)
                      \/ FromOutside
BY DEF AutomationsNext, HandlerStep, HandlerActs, FromOutside

\* Types are kept, and what handlers hold.
LEMMA AutoTypeStep ==
  ASSUME AutoType, [AutomationsNext]_automationVars
  PROVE  AutoType'
<1>0. /\ started \in [Autos -> Nat] /\ succeeded \in [Autos -> Nat] /\ complete \in [Autos -> Nat]
      /\ runCount \in [Autos -> Nat] /\ failed \in [Autos -> Nat]
  BY DEF AutoType, Tally
<1>m. ASSUME NEW a \in Autos, NEW tally \in [Autos -> Nat] PROVE OneMore(tally, a) \in [Autos -> Nat]
  BY DEF OneMore
<1>1. ASSUME NEW h \in Handlers, HandlerActs(h) PROVE AutoType'
  <2>1. /\ OnlyHandler(h) /\ NoEmit /\ UNCHANGED <<enabled, ringer, rung, moves>>
        /\ task' \in [there: BOOLEAN, status: Statuses, due: Dues, marked: BOOLEAN]
        /\ breaks' \in 0..MaxMoves
    <3>1. task \in [there: BOOLEAN, status: Statuses, due: Dues, marked: BOOLEAN] /\ breaks \in 0..MaxMoves
      BY DEF AutoType
    <3> QED
      BY <1>1, <3>1, TakeEffect, ActEffect, RecordEffect, CountEffect, FailEffect, DieEffect DEF HandlerActs
  <2>2. /\ started' \in [Autos -> Nat] /\ succeeded' \in [Autos -> Nat] /\ complete' \in [Autos -> Nat]
        /\ runCount' \in [Autos -> Nat] /\ failed' \in [Autos -> Nat]
    <3>1. CASE \E a \in handler[h].todo : TakeAuto(h, a)
      <4> PICK a \in handler[h].todo : TakeAuto(h, a)
        BY <3>1
      <4>1. /\ started' \in {started, [started EXCEPT ![a] = @ + 1]}
            /\ UNCHANGED <<succeeded, failed, complete, runCount>>
        BY TakeEffect
      <4> QED
        BY <1>0, <4>1
    <3>2. CASE ExecuteAction(h) \/ ActionFails(h) \/ SendWebhook(h) \/ RepostWebhook(h)
      BY <1>0, <3>2, ActEffect
    <3>3. CASE RecordRun(h)
      BY <1>0, <1>m, <3>3, RecordEffect
    <3>4. CASE CountRun(h)
      BY <1>0, <1>m, <3>4, CountEffect
    <3>5. CASE RecordFailed(h)
      BY <1>0, <1>m, <3>5, FailEffect
    <3>6. CASE HandlerDies(h)
      BY <1>0, <3>6, DieEffect
    <3> QED
      BY <1>1, <3>1, <3>2, <3>3, <3>4, <3>5, <3>6 DEF HandlerActs
  <2> QED
    BY <2>1, <2>2 DEF AutoType, OnlyHandler, NoEmit, Tally
<1>2. ASSUME NEW h \in Handlers, NEW e \in inbox, Listen(h, e) PROVE AutoType'
  <2>1. /\ OnlyHandler(h) /\ inbox' = inbox \ {e}
        /\ UNCHANGED <<task, enabled, emitted, outside, started, succeeded, failed, complete, runCount,
                       ringer, rung, moves, breaks>>
    BY <1>2, ListenEffect
  <2> QED
    BY <2>1 DEF AutoType, OnlyHandler
<1>3. CASE FromOutside
  <2>1. /\ UNCHANGED <<handler, started, succeeded, failed, complete, runCount>>
        /\ \/ NoEmit
           \/ emitted' = emitted + 1 /\ outside' = outside + 1 /\ \E ev \in Event : inbox' = inbox \cup {ev}
        /\ enabled' \in [Autos -> {"on", "off", "gone"}]
        /\ breaks' \in 0..MaxMoves /\ moves' \in 0..MaxMoves
        /\ task' \in [there: BOOLEAN, status: Statuses, due: Dues, marked: BOOLEAN]
        /\ rung' \in Nat /\ ringer' \in {"idle", "mark", "emit", "clear"}
    BY <1>3, OutsideEffect DEF FromOutside
  <2>2. inbox' \subseteq Event /\ emitted' \in Nat /\ outside' \in Nat
    BY <2>1 DEF AutoType, NoEmit
  <2> QED
    BY <2>1, <2>2 DEF AutoType
<1>4. CASE UNCHANGED automationVars
  BY <1>4 DEF automationVars, AutoType
<1> QED
  BY <1>1, <1>2, <1>3, <1>4, AutomationsSteps

\* No step of an automation makes work for another.
LEMMA CascadeStep ==
  ASSUME AutoType, CascadeInv, IsFiniteSet(Handlers), [AutomationsNext]_automationVars
  PROVE  CascadeInv'
<1>0. /\ started \in [Autos -> Nat] /\ emitted \in Nat /\ outside \in Nat
      /\ handler \in [Handlers -> AutoRow]
      /\ \A a \in Autos : Waiting(a) \in SUBSET Handlers /\ Waiting(a)' \in SUBSET Handlers
      /\ IsFiniteSet(inbox) /\ Cardinality(inbox) \in Nat
  BY FS_CardinalityType DEF AutoType, Tally, Waiting, CascadeInv
<1>1. ASSUME NEW h \in Handlers, HandlerActs(h) PROVE CascadeInv'
  <2>1. OnlyHandler(h) /\ NoEmit
    BY <1>1, TakeEffect, ActEffect, RecordEffect, CountEffect, FailEffect, DieEffect DEF HandlerActs
  <2>2. \A a \in Autos :
          \/ started'[a] = started[a] /\ (a \in handler'[h].todo => a \in handler[h].todo)
          \/ started'[a] = started[a] + 1 /\ a \in handler[h].todo /\ a \notin handler'[h].todo
    <3>1. CASE \E a \in handler[h].todo : TakeAuto(h, a)
      <4> PICK b \in handler[h].todo : TakeAuto(h, b)
        BY <3>1
      <4>1. /\ started' \in {started, [started EXCEPT ![b] = @ + 1]} /\ b \in Autos
            /\ b \notin handler'[h].todo /\ handler'[h].todo \subseteq handler[h].todo
        BY TakeEffect
      <4> QED
        BY <1>0, <4>1
    <3>2. CASE ~\E a \in handler[h].todo : TakeAuto(h, a)
      <4>1. started' = started /\ (handler'[h].todo = handler[h].todo \/ handler'[h] = Free)
        BY <1>1, <3>2, ActEffect, RecordEffect, CountEffect, FailEffect, DieEffect DEF HandlerActs
      <4> QED
        BY <4>1, FreeRow
    <3> QED
      BY <3>1, <3>2
  <2>3. ASSUME NEW a \in Autos
        PROVE  started'[a] + Cardinality(inbox') + Cardinality(Waiting(a)') <= emitted'
    <3>1. \A g \in Handlers : g # h => (g \in Waiting(a) <=> g \in Waiting(a)')
      BY <2>1 DEF OnlyHandler, Waiting
    <3>2. /\ h \in Waiting(a) <=> a \in handler[h].todo
          /\ h \in Waiting(a)' <=> a \in handler'[h].todo
      BY DEF Waiting
    <3>3. /\ Cardinality(Waiting(a)) \in Nat /\ Cardinality(Waiting(a)') \in Nat
          /\ (h \in Waiting(a) <=> h \in Waiting(a)') => Cardinality(Waiting(a)) = Cardinality(Waiting(a)')
          /\ h \in Waiting(a) /\ h \notin Waiting(a)' => Cardinality(Waiting(a)) = Cardinality(Waiting(a)') + 1
      BY <1>0, <3>1, ByOne
    <3>4. inbox' = inbox /\ emitted' = emitted
      BY <2>1 DEF NoEmit
    <3>5. started[a] + Cardinality(inbox) + Cardinality(Waiting(a)) <= emitted
      BY DEF CascadeInv
    <3> HIDE DEF Waiting
    <3> QED
      BY <1>0, <2>2, <3>2, <3>3, <3>4, <3>5
  <2> QED
    BY <2>1, <2>3 DEF CascadeInv, NoEmit
<1>2. ASSUME NEW h \in Handlers, NEW e \in inbox, Listen(h, e) PROVE CascadeInv'
  <2>1. /\ OnlyHandler(h) /\ inbox' = inbox \ {e} /\ handler[h] = Free
        /\ UNCHANGED <<emitted, outside, started>>
    BY <1>2, ListenEffect
  <2>2. IsFiniteSet(inbox') /\ Cardinality(inbox') = Cardinality(inbox) - 1
    BY <1>0, <2>1, FS_RemoveElement
  <2>3. ASSUME NEW a \in Autos
        PROVE  started'[a] + Cardinality(inbox') + Cardinality(Waiting(a)') <= emitted'
    <3>1. \A g \in Handlers : g # h => (g \in Waiting(a) <=> g \in Waiting(a)')
      BY <2>1 DEF OnlyHandler, Waiting
    <3>2. h \notin Waiting(a)
      BY <2>1, FreeRow DEF Waiting
    <3>3. /\ Cardinality(Waiting(a)) \in Nat /\ Cardinality(Waiting(a)') \in Nat
          /\ Cardinality(Waiting(a)') <= Cardinality(Waiting(a)) + 1
      BY <1>0, <3>1, <3>2, ByOne
    <3>4. started[a] + Cardinality(inbox) + Cardinality(Waiting(a)) <= emitted
      BY DEF CascadeInv
    <3> QED
      BY <1>0, <2>1, <2>2, <3>3, <3>4
  <2> QED
    BY <2>1, <2>2, <2>3 DEF CascadeInv
<1>3. CASE FromOutside
  <2>1. /\ UNCHANGED <<handler, started>>
        /\ \/ NoEmit
           \/ emitted' = emitted + 1 /\ outside' = outside + 1 /\ \E ev \in Event : inbox' = inbox \cup {ev}
    BY <1>3, OutsideEffect DEF FromOutside
  <2>2. \A a \in Autos : Waiting(a)' = Waiting(a) /\ Cardinality(Waiting(a)) \in Nat
    <3>1. \A a \in Autos : Cardinality(Waiting(a)) \in Nat
      BY <1>0, FS_Subset, FS_CardinalityType
    <3> QED
      BY <2>1, <3>1 DEF Waiting
  <2>3. CASE NoEmit
    BY <2>1, <2>2, <2>3 DEF CascadeInv, NoEmit
  <2>4. CASE emitted' = emitted + 1 /\ outside' = outside + 1 /\ \E ev \in Event : inbox' = inbox \cup {ev}
    <3>1. IsFiniteSet(inbox') /\ Cardinality(inbox') \in Nat /\ Cardinality(inbox') <= Cardinality(inbox) + 1
      <4> PICK ev \in Event : inbox' = inbox \cup {ev}
        BY <2>4
      <4>1. /\ IsFiniteSet(inbox \cup {ev})
            /\ Cardinality(inbox \cup {ev}) = (IF ev \in inbox THEN Cardinality(inbox) ELSE Cardinality(inbox) + 1)
        BY <1>0, FS_AddElement
      <4> QED
        BY <1>0, <4>1
    <3>2. \A a \in Autos : started[a] + Cardinality(inbox) + Cardinality(Waiting(a)) <= emitted
      BY DEF CascadeInv
    <3>3. \A a \in Autos : started'[a] + Cardinality(inbox') + Cardinality(Waiting(a)') <= emitted'
      <4> TAKE a \in Autos
      <4>1. started[a] \in Nat /\ started'[a] = started[a] /\ Waiting(a)' = Waiting(a)
        BY <1>0, <2>1, <2>2
      <4>2. started[a] + Cardinality(inbox) + Cardinality(Waiting(a)) <= emitted /\ Cardinality(Waiting(a)) \in Nat
        BY <2>2, <3>2
      <4> QED
        BY <1>0, <2>4, <3>1, <4>1, <4>2
    <3> QED
      BY <2>4, <3>1, <3>3 DEF CascadeInv
  <2> QED
    BY <2>1, <2>3, <2>4
<1>4. CASE UNCHANGED automationVars
  BY <1>4 DEF automationVars, CascadeInv, Waiting
<1> QED
  BY <1>1, <1>2, <1>3, <1>4, AutomationsSteps

\* The records of success keep behind the runs that are complete.
LEMMA SuccessStep ==
  ASSUME AutoType, SuccessIsComplete, [AutomationsNext]_automationVars
  PROVE  SuccessIsComplete'
<1>0. succeeded \in [Autos -> Nat] /\ complete \in [Autos -> Nat]
  BY DEF AutoType, Tally
<1>1. ASSUME NEW h \in Handlers, RecordRun(h) PROVE SuccessIsComplete'
  <2> DEFINE a == handler[h].auto
  <2>1. /\ a \in Autos /\ succeeded' \in {succeeded, OneMore(succeeded, a)}
        /\ complete' = OneMore(complete, a)
    BY <1>1, RecordEffect
  <2> HIDE DEF a
  <2>2. /\ succeeded'[a] <= succeeded[a] + 1 /\ complete'[a] = complete[a] + 1 /\ succeeded'[a] \in Nat
        /\ \A b \in Autos : b # a => succeeded'[b] = succeeded[b] /\ complete'[b] = complete[b]
    BY <1>0, <2>1 DEF OneMore
  <2>3. \A b \in Autos : succeeded[b] \in Nat /\ complete[b] \in Nat /\ succeeded[b] <= complete[b]
    BY <1>0 DEF SuccessIsComplete
  <2>4. succeeded'[a] <= complete'[a]
    BY <2>1, <2>2, <2>3
  <2> QED
    BY <2>2, <2>3, <2>4 DEF SuccessIsComplete
<1>2. CASE UNCHANGED <<succeeded, complete>>
  BY <1>2 DEF SuccessIsComplete
<1>3. ASSUME NEW h \in Handlers, HandlerActs(h), ~RecordRun(h) PROVE UNCHANGED <<succeeded, complete>>
  BY <1>3, TakeEffect, ActEffect, CountEffect, FailEffect, DieEffect DEF HandlerActs
<1>4. ASSUME NEW h \in Handlers, NEW e \in inbox, Listen(h, e) PROVE UNCHANGED <<succeeded, complete>>
  BY <1>4, ListenEffect
<1>5. FromOutside => UNCHANGED <<succeeded, complete>>
  BY OutsideEffect DEF FromOutside
<1>6. UNCHANGED automationVars => UNCHANGED <<succeeded, complete>>
  BY DEF automationVars
<1> QED
  BY <1>1, <1>2, <1>3, <1>4, <1>5, <1>6, AutomationsSteps

\* What one step does to the account of one automation.
AccountStep(e, st, su, fa, co, rc, cn, pn, br, st1, su1, fa1, co1, rc1, cn1, pn1, br1) ==
    \* nothing
    \/ /\ st1 = st /\ su1 = su /\ fa1 = fa /\ co1 = co /\ rc1 = rc /\ cn1 = cn /\ pn1 = pn
    \* a run begins
    \/ /\ st1 = st + 1 /\ su1 = su /\ fa1 = fa /\ co1 = co /\ rc1 = rc /\ cn1 = cn /\ pn1 = pn + 1
    \* its success is recorded, or the row is not written
    \/ /\ st1 = st /\ fa1 = fa /\ co1 = co + 1 /\ rc1 = rc /\ cn1 = cn + 1 /\ pn = pn1 + 1
       /\ su1 = su + 1 \/ (su1 = su /\ (e = "gone" \/ br1 = br + 1))
    \* it is counted
    \/ /\ st1 = st /\ su1 = su /\ fa1 = fa /\ co1 = co /\ rc1 = rc + 1 /\ cn = cn1 + 1 /\ pn1 = pn
       /\ e # "gone"
    \* the count fails
    \/ /\ st1 = st /\ su1 = su /\ fa1 = fa /\ co1 = co /\ rc1 = rc /\ cn = cn1 + 1 /\ pn1 = pn + 1
       /\ e = "gone" \/ br1 = br + 1
    \* its failure is recorded, or the row is not written
    \/ /\ st1 = st /\ su1 = su /\ co1 = co /\ rc1 = rc /\ cn1 = cn /\ pn = pn1 + 1
       /\ fa1 = fa + 1 \/ (fa1 = fa /\ (e = "gone" \/ br1 = br + 1))
    \* the replica dies before the count, or before the record
    \/ /\ st1 = st /\ su1 = su /\ fa1 = fa /\ co1 = co /\ rc1 = rc /\ br1 = br + 1
       /\ \/ cn = cn1 + 1 /\ pn1 = pn
          \/ cn1 = cn /\ pn = pn1 + 1

\* Each of these keeps the account: what is lost or doubled is a break.
LEMMA AccountKept ==
  ASSUME NEW e, NEW e1, e = "gone" => e1 = "gone",
         NEW st \in Nat, NEW su \in Nat, NEW fa \in Nat, NEW co \in Nat, NEW rc \in Nat,
         NEW cn \in Nat, NEW pn \in Nat, NEW br \in Nat,
         NEW st1 \in Nat, NEW su1 \in Nat, NEW fa1 \in Nat, NEW co1 \in Nat, NEW rc1 \in Nat,
         NEW cn1 \in Nat, NEW pn1 \in Nat, NEW br1 \in Nat, br1 \in {br, br + 1},
         AccountInv(e, st, su, fa, co, rc, cn, pn, br),
         AccountStep(e, st, su, fa, co, rc, cn, pn, br, st1, su1, fa1, co1, rc1, cn1, pn1, br1)
  PROVE  AccountInv(e1, st1, su1, fa1, co1, rc1, cn1, pn1, br1)
<1>1. rc1 + cn1 <= co1
  BY DEF AccountInv, AccountStep
<1>2. rc1 <= su1 + br1
  BY DEF AccountInv, AccountStep
<1>3. ASSUME e1 # "gone"
      PROVE  rc1 + cn1 <= su1 + br1 /\ su1 <= rc1 + cn1 + br1
  BY <1>3 DEF AccountInv, AccountStep
<1>4. ASSUME e1 # "gone"
      PROVE  st1 <= su1 + fa1 + pn1 + br1 /\ su1 + fa1 + pn1 <= st1 + br1
  BY <1>4 DEF AccountInv, AccountStep
<1> QED
  BY <1>1, <1>2, <1>3, <1>4 DEF AccountInv

\* The step of the account of a.
AccountMoves(a) ==
    AccountStep(enabled[a], started[a], succeeded[a], failed[a], complete[a], runCount[a],
                Cardinality(Counting(a)), Cardinality(Pending(a)), breaks,
                started'[a], succeeded'[a], failed'[a], complete'[a], runCount'[a],
                Cardinality(Counting(a)'), Cardinality(Pending(a)'), breaks')

\* Every step of a handler is one of these for every automation.
LEMMA HandlerAccounts ==
  ASSUME AutoType, IsFiniteSet(Handlers), NEW h \in Handlers, HandlerActs(h), NEW a \in Autos
  PROVE  AccountMoves(a)
<1>0. /\ started \in [Autos -> Nat] /\ succeeded \in [Autos -> Nat] /\ failed \in [Autos -> Nat]
      /\ complete \in [Autos -> Nat] /\ runCount \in [Autos -> Nat]
  BY DEF AutoType, Tally
<1>m. ASSUME NEW b \in Autos, NEW tally \in [Autos -> Nat]
      PROVE  OneMore(tally, b)[a] = IF a = b THEN tally[a] + 1 ELSE tally[a]
  BY DEF OneMore
<1> DEFINE cn == Cardinality(Counting(a))
           pn == Cardinality(Pending(a))
           cn1 == Cardinality(Counting(a)')
           pn1 == Cardinality(Pending(a)')
           counts == handler[h].auto = a /\ handler[h].pc = "count"
           counts1 == handler'[h].auto = a /\ handler'[h].pc = "count"
           pends == handler[h].auto = a /\ handler[h].pc \in {"act", "repost", "record", "fail"}
           pends1 == handler'[h].auto = a /\ handler'[h].pc \in {"act", "repost", "record", "fail"}
<1>1. OnlyHandler(h)
  BY TakeEffect, ActEffect, RecordEffect, CountEffect, FailEffect, DieEffect DEF HandlerActs
<1>2. /\ (counts <=> counts1) => cn1 = cn
      /\ ~counts /\ counts1 => cn1 = cn + 1
      /\ counts /\ ~counts1 => cn = cn1 + 1
  <2>1. /\ Counting(a) \in SUBSET Handlers /\ Counting(a)' \in SUBSET Handlers
        /\ \A g \in Handlers : g # h => (g \in Counting(a) <=> g \in Counting(a)')
        /\ (h \in Counting(a) <=> counts) /\ (h \in Counting(a)' <=> counts1)
    BY <1>1 DEF OnlyHandler, Counting, InHand
  <2> QED
    BY <2>1, ByOne
<1>3. /\ (pends <=> pends1) => pn1 = pn
      /\ ~pends /\ pends1 => pn1 = pn + 1
      /\ pends /\ ~pends1 => pn = pn1 + 1
  <2>1. /\ Pending(a) \in SUBSET Handlers /\ Pending(a)' \in SUBSET Handlers
        /\ \A g \in Handlers : g # h => (g \in Pending(a) <=> g \in Pending(a)')
        /\ (h \in Pending(a) <=> pends) /\ (h \in Pending(a)' <=> pends1)
    BY <1>1 DEF OnlyHandler, Pending, InHand
  <2> QED
    BY <2>1, ByOne
<1> DEFINE Moves ==
      AccountStep(enabled[a], started[a], succeeded[a], failed[a], complete[a], runCount[a],
                  cn, pn, breaks, started'[a], succeeded'[a], failed'[a], complete'[a], runCount'[a],
                  cn1, pn1, breaks')
<1> SUFFICES Moves
  BY DEF AccountMoves
<1> HIDE DEF cn, pn, cn1, pn1
<1>4. CASE \E b \in handler[h].todo : TakeAuto(h, b)
  <2> PICK b \in handler[h].todo : TakeAuto(h, b)
    BY <1>4
  <2>1. /\ b \in Autos /\ handler[h].pc = "loop"
        /\ \/ started' = OneMore(started, b) /\ handler'[h].pc = "act" /\ handler'[h].auto = b
           \/ started' = started /\ handler'[h].pc \in {"idle", "loop"}
        /\ UNCHANGED <<succeeded, failed, complete, runCount, breaks>>
    BY TakeEffect DEF OneMore
  <2>2. ~counts /\ ~counts1 /\ ~pends
    BY <2>1
  <2>3. \/ started'[a] = started[a] + 1 /\ pends1
        \/ started'[a] = started[a] /\ ~pends1
    BY <1>0, <1>m, <2>1
  <2>4. cn1 = cn /\ (pends1 => pn1 = pn + 1) /\ (~pends1 => pn1 = pn)
    BY <1>2, <1>3, <2>2
  <2> HIDE DEF counts, counts1, pends, pends1
  <2> QED
    BY <2>1, <2>3, <2>4 DEF AccountStep
<1>5. CASE ExecuteAction(h) \/ ActionFails(h) \/ SendWebhook(h) \/ RepostWebhook(h)
  <2>1. /\ handler[h].pc \in {"act", "repost"} /\ handler'[h].auto = handler[h].auto
        /\ handler'[h].pc \in {"act", "repost", "record", "fail"}
        /\ UNCHANGED <<started, succeeded, failed, complete, runCount>>
    BY <1>5, ActEffect
  <2>2. ~counts /\ ~counts1 /\ (pends <=> pends1)
    BY <2>1
  <2> HIDE DEF counts, counts1, pends, pends1
  <2> QED
    BY <1>2, <1>3, <2>1, <2>2 DEF AccountStep
<1>6. CASE RecordRun(h)
  <2> DEFINE b == handler[h].auto
  <2>1. /\ b \in Autos /\ handler[h].pc = "record" /\ handler'[h].pc = "count" /\ handler'[h].auto = b
        /\ \/ succeeded' = OneMore(succeeded, b)
           \/ succeeded' = succeeded /\ (enabled[b] = "gone" \/ breaks' = breaks + 1)
        /\ complete' = OneMore(complete, b)
        /\ UNCHANGED <<started, failed, runCount>>
    BY <1>6, RecordEffect
  <2>2. ~counts /\ ~pends1 /\ (counts1 <=> a = b) /\ (pends <=> a = b)
    BY <2>1
  <2> HIDE DEF b, counts, counts1, pends, pends1
  <2>3. CASE a = b
    <3>1. /\ complete'[a] = complete[a] + 1
          /\ \/ succeeded'[a] = succeeded[a] + 1
             \/ succeeded'[a] = succeeded[a] /\ (enabled[a] = "gone" \/ breaks' = breaks + 1)
      BY <1>0, <1>m, <2>1, <2>3
    <3>2. cn1 = cn + 1 /\ pn = pn1 + 1
      BY <1>2, <1>3, <2>2, <2>3
    <3> QED
      BY <2>1, <3>1, <3>2 DEF AccountStep
  <2>4. CASE a # b
    <3>1. complete'[a] = complete[a] /\ succeeded'[a] = succeeded[a]
      BY <1>0, <1>m, <2>1, <2>4
    <3> QED
      BY <1>2, <1>3, <2>1, <2>2, <2>4, <3>1 DEF AccountStep
  <2> QED
    BY <2>3, <2>4
<1>7. CASE CountRun(h)
  <2> DEFINE b == handler[h].auto
  <2>1. /\ b \in Autos /\ handler[h].pc = "count"
        /\ \/ /\ runCount' = OneMore(runCount, b) /\ handler'[h].pc \in {"idle", "loop"}
              /\ enabled[b] # "gone"
           \/ /\ runCount' = runCount /\ handler'[h].pc = "fail" /\ handler'[h].auto = b
              /\ enabled[b] = "gone" \/ breaks' = breaks + 1
        /\ UNCHANGED <<started, succeeded, failed, complete>>
    BY <1>7, CountEffect
  <2>2. /\ ~counts1 /\ ~pends /\ (counts <=> a = b)
        /\ pends1 <=> a = b /\ handler'[h].pc = "fail"
    BY <2>1
  <2> HIDE DEF b, counts, counts1, pends, pends1
  <2>3. CASE a = b /\ handler'[h].pc = "fail"
    <3>1. cn = cn1 + 1 /\ pn1 = pn + 1
      BY <1>2, <1>3, <2>2, <2>3
    <3> QED
      BY <2>1, <2>3, <3>1 DEF AccountStep
  <2>4. CASE a = b /\ handler'[h].pc # "fail"
    <3>1. cn = cn1 + 1 /\ pn1 = pn
      BY <1>2, <1>3, <2>2, <2>4
    <3>2. runCount'[a] = runCount[a] + 1 /\ enabled[a] # "gone"
      BY <1>0, <1>m, <2>1, <2>4
    <3> QED
      BY <2>1, <3>1, <3>2 DEF AccountStep
  <2>5. CASE a # b
    <3>1. runCount'[a] = runCount[a]
      BY <1>0, <1>m, <2>1, <2>5
    <3> QED
      BY <1>2, <1>3, <2>1, <2>2, <2>5, <3>1 DEF AccountStep
  <2> QED
    BY <2>3, <2>4, <2>5
<1>8. CASE RecordFailed(h)
  <2> DEFINE b == handler[h].auto
  <2>1. /\ b \in Autos /\ handler[h].pc = "fail" /\ handler'[h].pc \in {"idle", "loop"}
        /\ \/ failed' = OneMore(failed, b)
           \/ failed' = failed /\ (enabled[b] = "gone" \/ breaks' = breaks + 1)
        /\ UNCHANGED <<started, succeeded, complete, runCount>>
    BY <1>8, FailEffect
  <2>2. ~counts /\ ~counts1 /\ ~pends1 /\ (pends <=> a = b)
    BY <2>1
  <2> HIDE DEF b, counts, counts1, pends, pends1
  <2>3. CASE a = b
    <3>1. \/ failed'[a] = failed[a] + 1
          \/ failed'[a] = failed[a] /\ (enabled[a] = "gone" \/ breaks' = breaks + 1)
      BY <1>0, <1>m, <2>1, <2>3
    <3>2. cn1 = cn /\ pn = pn1 + 1
      BY <1>2, <1>3, <2>2, <2>3
    <3> QED
      BY <2>1, <3>1, <3>2 DEF AccountStep
  <2>4. CASE a # b
    <3>1. failed'[a] = failed[a]
      BY <1>0, <1>m, <2>1, <2>4
    <3> QED
      BY <1>2, <1>3, <2>1, <2>2, <2>4, <3>1 DEF AccountStep
  <2> QED
    BY <2>3, <2>4
<1>9. CASE HandlerDies(h)
  <2>1. /\ handler'[h].pc = "idle" /\ breaks' = breaks + 1
        /\ UNCHANGED <<started, succeeded, failed, complete, runCount>>
    BY <1>9, DieEffect, FreeRow
  <2>2. ~counts1 /\ ~pends1 /\ ~(counts /\ pends)
    BY <2>1
  <2> HIDE DEF counts, counts1, pends, pends1
  <2>3. \/ cn1 = cn /\ pn1 = pn
        \/ cn = cn1 + 1 /\ pn1 = pn
        \/ cn1 = cn /\ pn = pn1 + 1
    BY <1>2, <1>3, <2>2
  <2> QED
    BY <2>1, <2>3 DEF AccountStep
<1> QED
  BY <1>4, <1>5, <1>6, <1>7, <1>8, <1>9 DEF HandlerActs

\* A step that leaves the tallies and the runs at hand alone.
LEMMA QuietAccounts ==
  ASSUME UNCHANGED <<started, succeeded, failed, complete, runCount>>,
         NEW a \in Autos, Counting(a)' = Counting(a), Pending(a)' = Pending(a)
  PROVE  AccountMoves(a)
<1>1. /\ Cardinality(Counting(a)') = Cardinality(Counting(a))
      /\ Cardinality(Pending(a)') = Cardinality(Pending(a))
  OBVIOUS
<1> QED
  BY <1>1 DEF AccountMoves, AccountStep

\* The records and runCount follow the runs, one step at a time.
LEMMA CountStep ==
  ASSUME AutoType, CountInv, IsFiniteSet(Handlers), [AutomationsNext]_automationVars
  PROVE  CountInv'
<1>1. /\ \A a \in Autos : AccountMoves(a) /\ (enabled[a] = "gone" => enabled'[a] = "gone")
      /\ breaks' \in {breaks, breaks + 1}
  <2>1. ASSUME NEW h \in Handlers, HandlerActs(h)
        PROVE  enabled' = enabled /\ breaks' \in {breaks, breaks + 1}
    BY <2>1, TakeEffect, ActEffect, RecordEffect, CountEffect, FailEffect, DieEffect DEF HandlerActs
  <2>2. ASSUME NEW h \in Handlers, NEW e \in inbox, Listen(h, e), NEW a \in Autos
        PROVE  AccountMoves(a) /\ enabled' = enabled /\ breaks' = breaks
    <3>1. /\ OnlyHandler(h) /\ handler[h].pc = "idle" /\ handler'[h].pc \in {"idle", "loop"}
          /\ UNCHANGED <<enabled, started, succeeded, failed, complete, runCount, breaks>>
      BY <2>2, ListenEffect, FreeRow
    <3>2. Counting(a)' = Counting(a) /\ Pending(a)' = Pending(a)
      BY <3>1 DEF OnlyHandler, Counting, Pending, InHand
    <3> QED
      BY <3>1, <3>2, QuietAccounts
  <2>3. ASSUME FromOutside, NEW a \in Autos
        PROVE  /\ AccountMoves(a) /\ (enabled[a] = "gone" => enabled'[a] = "gone")
               /\ breaks' \in {breaks, breaks + 1}
    <3>1. /\ UNCHANGED <<handler, started, succeeded, failed, complete, runCount>>
          /\ enabled[a] = "gone" => enabled'[a] = "gone"
          /\ breaks' \in {breaks, breaks + 1}
      BY <2>3, OutsideEffect DEF FromOutside
    <3>2. Counting(a)' = Counting(a) /\ Pending(a)' = Pending(a)
      BY <3>1 DEF Counting, Pending, InHand
    <3> QED
      BY <3>1, <3>2, QuietAccounts
  <2>4. ASSUME UNCHANGED automationVars, NEW a \in Autos
        PROVE  AccountMoves(a) /\ enabled' = enabled /\ breaks' = breaks
    <3>1. UNCHANGED <<handler, enabled, started, succeeded, failed, complete, runCount, breaks>>
      BY <2>4 DEF automationVars
    <3>2. Counting(a)' = Counting(a) /\ Pending(a)' = Pending(a)
      BY <3>1 DEF Counting, Pending, InHand
    <3> QED
      BY <3>1, <3>2, QuietAccounts
  <2>5. CASE \E h \in Handlers : HandlerActs(h)
    BY <2>1, <2>5, HandlerAccounts
  <2>6. CASE \E h \in Handlers : \E e \in inbox : Listen(h, e)
    <3> PICK h \in Handlers, e \in inbox : Listen(h, e)
      BY <2>6
    <3>1. enabled' = enabled /\ breaks' = breaks
      BY ListenEffect
    <3> QED
      BY <2>2, <3>1
  <2>7. CASE FromOutside
    <3>1. breaks' \in {breaks, breaks + 1}
      BY <2>7, OutsideEffect DEF FromOutside
    <3> QED
      BY <2>3, <2>7, <3>1
  <2>8. CASE UNCHANGED automationVars
    <3>1. breaks' = breaks
      BY <2>8 DEF automationVars
    <3> QED
      BY <2>4, <2>8, <3>1
  <2> QED
    BY <2>5, <2>6, <2>7, <2>8, AutomationsSteps
<1>2. AutoType'
  BY AutoTypeStep
<1>3. ASSUME NEW a \in Autos
      PROVE  /\ started[a] \in Nat /\ succeeded[a] \in Nat /\ failed[a] \in Nat
             /\ complete[a] \in Nat /\ runCount[a] \in Nat
             /\ started'[a] \in Nat /\ succeeded'[a] \in Nat /\ failed'[a] \in Nat
             /\ complete'[a] \in Nat /\ runCount'[a] \in Nat
  BY <1>2 DEF AutoType, Tally
<1>4. breaks \in Nat /\ breaks' \in Nat
  BY <1>2, AutomationsAssumption DEF AutoType
<1>5. ASSUME NEW a \in Autos
      PROVE  /\ Cardinality(Counting(a)) \in Nat /\ Cardinality(Pending(a)) \in Nat
             /\ Cardinality(Counting(a)') \in Nat /\ Cardinality(Pending(a)') \in Nat
  <2>1. /\ Counting(a) \in SUBSET Handlers /\ Counting(a)' \in SUBSET Handlers
        /\ Pending(a) \in SUBSET Handlers /\ Pending(a)' \in SUBSET Handlers
    BY DEF Counting, Pending, InHand
  <2> QED
    BY <2>1, FS_Subset, FS_CardinalityType
<1>6. ASSUME NEW a \in Autos
      PROVE  AccountInv(enabled'[a], started'[a], succeeded'[a], failed'[a], complete'[a],
                        runCount'[a], Cardinality(Counting(a)'), Cardinality(Pending(a)'), breaks')
  <2> DEFINE e == enabled[a]
             e1 == enabled'[a]
             cn == Cardinality(Counting(a))
             pn == Cardinality(Pending(a))
             cn1 == Cardinality(Counting(a)')
             pn1 == Cardinality(Pending(a)')
  <2>1. e = "gone" => e1 = "gone"
    BY <1>1
  <2>2. cn \in Nat /\ pn \in Nat /\ cn1 \in Nat /\ pn1 \in Nat
    BY <1>5
  <2>3. AccountInv(e, started[a], succeeded[a], failed[a], complete[a], runCount[a], cn, pn, breaks)
    BY DEF CountInv
  <2>4. AccountStep(e, started[a], succeeded[a], failed[a], complete[a], runCount[a], cn, pn, breaks,
                    started'[a], succeeded'[a], failed'[a], complete'[a], runCount'[a], cn1, pn1, breaks')
    BY <1>1 DEF AccountMoves
  <2> HIDE DEF e, e1, cn, pn, cn1, pn1
  <2>5. AccountInv(e1, started'[a], succeeded'[a], failed'[a], complete'[a], runCount'[a], cn1, pn1,
                   breaks')
    BY <1>1, <1>3, <1>4, <2>1, <2>2, <2>3, <2>4, AccountKept
  <2> QED
    BY <2>5 DEF e1, cn1, pn1
<1> QED
  BY <1>6 DEF CountInv

\* Only the tick puts the marker up and takes it down.
LEMMA RingStep ==
  ASSUME AutoType, RingInv, [AutomationsNext]_automationVars
  PROVE  RingInv'
<1>0. /\ task \in [there: BOOLEAN, status: Statuses, due: Dues, marked: BOOLEAN]
      /\ rung \in Nat /\ ringer \in {"idle", "mark", "emit", "clear"}
  BY DEF AutoType
<1>1. ASSUME task'.marked = task.marked, UNCHANGED <<ringer, rung>> PROVE RingInv'
  BY <1>1 DEF RingInv
<1>2. ASSUME NEW h \in Handlers, HandlerActs(h) PROVE RingInv'
  <2>1. task'.marked = task.marked /\ UNCHANGED <<ringer, rung>>
    BY <1>2, TakeEffect, ActEffect, RecordEffect, CountEffect, FailEffect, DieEffect DEF HandlerActs
  <2> QED
    BY <1>1, <2>1
<1>3. ASSUME NEW h \in Handlers, NEW e \in inbox, Listen(h, e) PROVE RingInv'
  <2>1. UNCHANGED <<task, ringer, rung>>
    BY <1>3, ListenEffect
  <2> QED
    BY <1>1, <2>1
<1>4. CASE DueScan
  <2>1. UNCHANGED <<task, rung>> /\ ringer' = "mark" /\ ~task.marked
    BY <1>4 DEF DueScan
  <2> QED
    BY <2>1 DEF RingInv
<1>5. CASE DueMark
  <2>1. ringer = "mark" /\ ringer' = "emit" /\ rung' = rung /\ task' = [task EXCEPT !.marked = TRUE]
    BY <1>5 DEF DueMark
  <2>2. task'.marked = TRUE
    BY <1>0, <2>1
  <2> QED
    BY <2>1, <2>2 DEF RingInv
<1>6. CASE DueEmit
  <2>1. ringer = "emit" /\ ringer' = "clear" /\ task' = task /\ rung' = rung + 1
    BY <1>6 DEF DueEmit
  <2> QED
    BY <1>0, <2>1 DEF RingInv
<1>7. CASE DueClear
  <2> DEFINE out == task.due \in {"none", "far"} \/ task.status \in Closed
  <2>1. /\ ringer' = "idle" /\ rung' = (IF out THEN 0 ELSE rung)
        /\ task' = [task EXCEPT !.marked = task.marked /\ ~out]
    BY <1>7 DEF DueClear
  <2> HIDE DEF out
  <2>2. CASE out
    BY <1>0, <2>1, <2>2 DEF RingInv
  <2>3. CASE ~out
    <3>1. rung' = rung /\ (task.marked => task'.marked)
      BY <1>0, <2>1, <2>3
    <3> QED
      BY <2>1, <3>1 DEF RingInv
  <2> QED
    BY <2>2, <2>3
<1>8. CASE DueDies
  <2>1. ringer' = "idle" /\ UNCHANGED <<task, rung>>
    BY <1>8 DEF DueDies
  <2> QED
    BY <2>1 DEF RingInv
<1>9. CASE \/ \E s \in Statuses : ChangeStatus(s)
           \/ AddComment \/ RemoveTask
           \/ \E d \in Dues : SetDueDate(d)
           \/ \E a \in Autos, to \in {"on", "off", "gone"} : EditAutomation(a, to)
  <2>1. UNCHANGED <<ringer, rung>>
    BY <1>9 DEF ChangeStatus, AddComment, RemoveTask, SetDueDate, EditAutomation
  <2>2. task'.marked = task.marked
    <3>1. \/ task' = task \/ \E s \in Statuses : task' = [task EXCEPT !.status = s]
          \/ task' = [task EXCEPT !.there = FALSE] \/ \E d \in Dues : task' = [task EXCEPT !.due = d]
      BY <1>9 DEF ChangeStatus, AddComment, RemoveTask, SetDueDate, EditAutomation
    <3> QED
      BY <1>0, <3>1
  <2> QED
    BY <1>1, <2>1, <2>2
<1>10. CASE UNCHANGED automationVars
  BY <1>10 DEF automationVars, RingInv
<1> QED
  BY <1>2, <1>3, <1>4, <1>5, <1>6, <1>7, <1>8, <1>9, <1>10, AutomationsSteps DEF FromOutside

AutomationsIInv == AutoType /\ CascadeInv /\ SuccessIsComplete /\ CountInv /\ RingInv

\* The invariant holds before the first event.
LEMMA AutomationsStart ==
  ASSUME IsFiniteSet(Handlers), AutomationsInit
  PROVE  AutomationsIInv
<1>1. handler \in [Handlers -> AutoRow] /\ \A h \in Handlers : handler[h] = Free
  BY FreeRow DEF AutomationsInit
<1>2. AutoType
  <2>1. task \in [there: BOOLEAN, status: Statuses, due: Dues, marked: BOOLEAN]
    BY DEF AutomationsInit, Dues
  <2>2. \A h \in Handlers : RunAt(handler[h])
    BY <1>1, FreeRow
  <2>3. /\ started \in Tally /\ succeeded \in Tally /\ complete \in Tally /\ runCount \in Tally
        /\ failed \in Tally /\ enabled \in [Autos -> {"on", "off", "gone"}]
    BY DEF AutomationsInit, Tally
  <2> QED
    BY <1>1, <2>1, <2>2, <2>3, AutomationsAssumption DEF AutomationsInit, AutoType
<1>3. \A a \in Autos : Waiting(a) = {} /\ Counting(a) = {} /\ Pending(a) = {}
  BY <1>1, FreeRow DEF Waiting, Counting, Pending, InHand
<1>4. Cardinality({}) = 0 /\ IsFiniteSet({})
  BY FS_EmptySet
<1>5. CascadeInv
  BY <1>3, <1>4 DEF AutomationsInit, CascadeInv
<1>5a. ASSUME NEW a \in Autos
       PROVE  AccountInv(enabled[a], started[a], succeeded[a], failed[a], complete[a],
                         runCount[a], Cardinality(Counting(a)), Cardinality(Pending(a)), breaks)
  <2>1. /\ started[a] = 0 /\ succeeded[a] = 0 /\ failed[a] = 0 /\ complete[a] = 0 /\ runCount[a] = 0
        /\ breaks = 0
    BY DEF AutomationsInit
  <2>2. Cardinality(Counting(a)) = 0 /\ Cardinality(Pending(a)) = 0
    BY <1>3, <1>4
  <2> QED
    BY <2>1, <2>2 DEF AccountInv
<1>5b. CountInv
  BY <1>5a DEF CountInv
<1>6. SuccessIsComplete /\ RingInv
  BY DEF AutomationsInit, SuccessIsComplete, RingInv
<1> QED
  BY <1>2, <1>5, <1>5b, <1>6 DEF AutomationsIInv

\* For any automations, any finite number of handlers and any number of edits,
\* failures and dead replicas: the state of the automations is well typed
\* (AutomationsService, DueSoonScheduler).
THEOREM AutomationsTyped == AutomationsSpec => []AutomationsTypeOK
<1>1. AutomationsInit => AutoType
  <2> SUFFICES ASSUME AutomationsInit PROVE AutoType
    OBVIOUS
  <2>1. handler \in [Handlers -> AutoRow] /\ \A h \in Handlers : RunAt(handler[h])
    BY FreeRow DEF AutomationsInit
  <2>2. task \in [there: BOOLEAN, status: Statuses, due: Dues, marked: BOOLEAN]
    BY DEF AutomationsInit, Dues
  <2>3. /\ started \in Tally /\ succeeded \in Tally /\ complete \in Tally /\ runCount \in Tally
        /\ failed \in Tally /\ enabled \in [Autos -> {"on", "off", "gone"}]
    BY DEF AutomationsInit, Tally
  <2> QED
    BY <2>1, <2>2, <2>3, AutomationsAssumption DEF AutomationsInit, AutoType
<1>2. AutoType /\ [AutomationsNext]_automationVars => AutoType'
  BY AutoTypeStep
<1>3. AutoType => AutomationsTypeOK
  BY DEF AutoType, AutomationsTypeOK, AutoRow
<1> QED
  BY <1>1, <1>2, <1>3, PTL DEF AutomationsSpec

\* For any automations, however they undo each other, and any finite number of
\* handlers: each runs once at most per event from outside, a recorded success
\* is complete, runCount and the records agree but for runs at work, rejected
\* writes and dead replicas, each run leaves one record with the same
\* exceptions, and a reminder rings once (AutomationsService.runMatchingAutomations,
\* DueSoonScheduler.tick).
THEOREM AutomationsAreSound ==
  ASSUME IsFiniteSet(Handlers)
  PROVE  AutomationsSpec => []AutomationsSound
<1>1. AutomationsInit => AutomationsIInv
  BY AutomationsStart
<1>2. AutomationsIInv /\ [AutomationsNext]_automationVars => AutomationsIInv'
  BY AutoTypeStep, CascadeStep, SuccessStep, CountStep, RingStep DEF AutomationsIInv
<1>3. AutomationsIInv => AutomationsSound
  <2> SUFFICES ASSUME AutomationsIInv PROVE AutomationsSound
    OBVIOUS
  <2>1. /\ started \in [Autos -> Nat] /\ succeeded \in [Autos -> Nat] /\ failed \in [Autos -> Nat]
        /\ complete \in [Autos -> Nat] /\ runCount \in [Autos -> Nat]
        /\ emitted \in Nat /\ breaks \in Nat
    BY AutomationsAssumption DEF AutomationsIInv, AutoType, Tally
  <2>2. \A a \in Autos : /\ Cardinality(Waiting(a)) \in Nat /\ Cardinality(Counting(a)) \in Nat
                        /\ Cardinality(Pending(a)) \in Nat
    <3>1. \A a \in Autos : /\ Waiting(a) \in SUBSET Handlers /\ Counting(a) \in SUBSET Handlers
                          /\ Pending(a) \in SUBSET Handlers
      BY DEF Waiting, Counting, Pending, InHand
    <3> QED
      BY <3>1, FS_Subset, FS_CardinalityType
  <2>3. NoCascade
    <3>1. Cardinality(inbox) \in Nat
      BY FS_CardinalityType DEF AutomationsIInv, CascadeInv
    <3> QED
      BY <2>1, <2>2, <3>1 DEF AutomationsIInv, CascadeInv, NoCascade
  <2>4. RunCountTracksSuccess /\ EveryRunRecorded
    <3>1. ASSUME NEW a \in Autos
          PROVE  /\ runCount[a] <= complete[a] /\ runCount[a] <= succeeded[a] + breaks
                 /\ enabled[a] # "gone" =>
                      /\ succeeded[a] <= runCount[a] + Cardinality(Counting(a)) + breaks
                      /\ started[a] <= succeeded[a] + failed[a] + Cardinality(Pending(a)) + breaks
                      /\ succeeded[a] + failed[a] + Cardinality(Pending(a)) <= started[a] + breaks
      <4>1. AccountInv(enabled[a], started[a], succeeded[a], failed[a], complete[a],
                       runCount[a], Cardinality(Counting(a)), Cardinality(Pending(a)), breaks)
        BY DEF AutomationsIInv, CountInv
      <4> QED
        BY <2>1, <2>2, <4>1 DEF AccountInv
    <3> QED
      BY <3>1 DEF RunCountTracksSuccess, EveryRunRecorded, Counting, Pending
  <2> QED
    BY <2>3, <2>4 DEF AutomationsIInv, RingInv, AutomationsSound, RingsOncePerMark
<1> QED
  BY <1>1, <1>2, <1>3, PTL DEF AutomationsSpec

-----------------------------------------------------------------------------
(* Imports from other trackers *)

ImportRow ==
    [pc: {"none", "find", "pick", "create", "fetch", "reserve", "issue", "task",
          "over", "throw", "thrown", "lost"},
     source: {"jira", "linear", "github"}, dry: BOOLEAN, project: 0..MaxProjects,
     total: 0..MaxIssues, done: Nat, number: Nat, errors: 0..ErrorCap, noted: BOOLEAN,
     created: Nat, errored: Nat, skipped: Nat, tasks: SUBSET (ProjectKeys \X Nat),
     status: {"running", "succeeded", "failed"}]

\* The keys a run has taken and not used: the number of the issue at Jira's,
\* what is left of the block elsewhere.
Reserved(i) ==
    IF i.source = "jira"
    THEN IF i.pc = "task" THEN {<<i.project, i.number>>} ELSE {}
    ELSE IF i.pc = "issue" THEN {<<i.project, m>> : m \in (i.number + i.done)..(i.number + i.total - 1)}
         ELSE {}

\* What a run knows, and its counters.
RunInv(i) ==
    /\ i.pc \in {"create", "fetch", "reserve", "issue", "task"} => i.project \in ProjectKeys
    /\ i.pc \in {"reserve", "issue", "task"} => ~i.dry
    /\ i.pc \in {"none", "find", "pick", "create", "fetch", "reserve"} => i.done = 0
    /\ i.pc \in {"issue", "task"} => i.done <= i.total
    /\ i.pc = "task" => i.done < i.total /\ i.source = "jira"
    /\ i.created + i.errored = i.done
    /\ ~i.noted /\ i.errored <= ErrorCap => i.errors = i.errored
    /\ IsFiniteSet(i.tasks) /\ Cardinality(i.tasks) >= i.created
    /\ i.pc = "over" /\ ~i.dry =>
          \/ i.status = "failed" <=> i.total > 0 /\ i.errored = i.total
          \/ i.source # "linear" /\ i.total > ErrorCap
          \/ i.noted

\* No key is taken twice, nor one that is still to be given out.
KeyInv ==
    /\ \A r, q \in ImportIds : r # q =>
          /\ imp[r].tasks \cap imp[q].tasks = {}
          /\ Reserved(imp[r]) \cap Reserved(imp[q]) = {}
    /\ \A r, q \in ImportIds : Reserved(imp[r]) \cap imp[q].tasks = {}
    /\ \A r \in ImportIds : \A t \in imp[r].tasks \cup Reserved(imp[r]) : t[2] < nextTaskNumber[t[1]]

ImportsIInv ==
    /\ imp \in [ImportIds -> ImportRow]
    /\ nextTaskNumber \in [ProjectKeys -> Nat]
    /\ \A r \in ImportIds : RunInv(imp[r])
    /\ KeyInv

\* Keys that are taken are keys.
LEMMA ReservedTyped ==
  ASSUME NEW i \in ImportRow, RunInv(i)
  PROVE  Reserved(i) \subseteq ProjectKeys \X Nat
<1>1. i.number \in Nat /\ i.done \in Nat /\ i.total \in Nat
  BY SourceImportsAssumption DEF ImportRow
<1>2. \A m \in (i.number + i.done)..(i.number + i.total - 1) : m \in Nat
  BY <1>1
<1> QED
  BY <1>1, <1>2 DEF Reserved, RunInv

\* A step of a run that counts nothing.
SameCounters(y, i) ==
    /\ y.source = i.source /\ y.done = i.done /\ y.number = i.number /\ y.errors = i.errors
    /\ y.noted = i.noted /\ y.created = i.created /\ y.errored = i.errored /\ y.tasks = i.tasks

\* A step of one run that takes new numbers, or uses those it has taken.
LEMMA RunStep ==
  ASSUME ImportsIInv, NEW r \in ImportIds, NEW y \in ImportRow, imp' = [imp EXCEPT ![r] = y], RunInv(y),
         nextTaskNumber' \in [ProjectKeys -> Nat],
         \A k \in ProjectKeys : nextTaskNumber[k] <= nextTaskNumber'[k],
         y.tasks \subseteq imp[r].tasks \cup Reserved(imp[r]),
         \A t \in Reserved(y) : /\ t \in Reserved(imp[r]) \/ t[2] >= nextTaskNumber[t[1]]
                                /\ t[2] < nextTaskNumber'[t[1]]
                                /\ t \notin y.tasks
  PROVE  ImportsIInv'
<1>1. /\ imp' \in [ImportIds -> ImportRow] /\ imp'[r] = y
      /\ \A q \in ImportIds : q # r => imp'[q] = imp[q]
  BY DEF ImportsIInv
<1>2. /\ nextTaskNumber \in [ProjectKeys -> Nat] /\ KeyInv
      /\ \A q \in ImportIds : imp[q] \in ImportRow /\ RunInv(imp[q])
  BY DEF ImportsIInv
<1>3. \A q \in ImportIds : RunInv(imp'[q])
  BY <1>1, <1>2
<1>4. /\ \A q \in ImportIds : imp[q].tasks \subseteq ProjectKeys \X Nat /\ Reserved(imp[q]) \subseteq ProjectKeys \X Nat
      /\ Reserved(y) \subseteq ProjectKeys \X Nat
  BY <1>2, ReservedTyped DEF ImportRow
<1>5. /\ \A t \in ProjectKeys \X Nat : t[2] < nextTaskNumber[t[1]] => t[2] < nextTaskNumber'[t[1]]
      /\ \A t \in ProjectKeys \X Nat : ~(t[2] < nextTaskNumber[t[1]] /\ t[2] >= nextTaskNumber[t[1]])
  <2>1. ASSUME NEW t \in ProjectKeys \X Nat
        PROVE  /\ t[2] < nextTaskNumber[t[1]] => t[2] < nextTaskNumber'[t[1]]
               /\ ~(t[2] < nextTaskNumber[t[1]] /\ t[2] >= nextTaskNumber[t[1]])
    <3>1. PICK m \in Nat, a \in Nat, b \in Nat : /\ m = t[2] /\ a = nextTaskNumber[t[1]]
                                                 /\ b = nextTaskNumber'[t[1]] /\ a <= b
      BY <1>2
    <3> QED
      BY <3>1
  <2> QED
    BY <2>1
<1>6. \A q \in ImportIds : \A t \in imp'[q].tasks \cup Reserved(imp'[q]) : t[2] < nextTaskNumber'[t[1]]
  BY <1>1, <1>2, <1>4, <1>5 DEF KeyInv
<1>7. \A q \in ImportIds : q # r => /\ y.tasks \cap imp[q].tasks = {}
                                    /\ Reserved(y) \cap Reserved(imp[q]) = {}
                                    /\ Reserved(y) \cap imp[q].tasks = {}
                                    /\ Reserved(imp[q]) \cap y.tasks = {}
  BY <1>2, <1>4, <1>5 DEF KeyInv
<1>8. KeyInv'
  <2>1. \A p, q \in ImportIds : p # q => imp'[p].tasks \cap imp'[q].tasks = {}
    BY <1>1, <1>2, <1>7 DEF KeyInv
  <2>2. \A p, q \in ImportIds : p # q => Reserved(imp'[p]) \cap Reserved(imp'[q]) = {}
    BY <1>1, <1>2, <1>7 DEF KeyInv
  <2>3. \A p, q \in ImportIds : Reserved(imp'[p]) \cap imp'[q].tasks = {}
    BY <1>1, <1>2, <1>7 DEF KeyInv
  <2> QED
    BY <1>6, <2>1, <2>2, <2>3 DEF KeyInv
<1> QED
  BY <1>1, <1>3, <1>8 DEF ImportsIInv

\* A step of one run that takes no number and makes no task.
LEMMA QuietStep ==
  ASSUME ImportsIInv, NEW r \in ImportIds, NEW y \in ImportRow, imp' = [imp EXCEPT ![r] = y], RunInv(y),
         UNCHANGED nextTaskNumber, y.tasks = imp[r].tasks, Reserved(y) = {}
  PROVE  ImportsIInv'
<1>1. \A k \in ProjectKeys : nextTaskNumber[k] <= nextTaskNumber'[k]
  BY DEF ImportsIInv
<1>2. nextTaskNumber' \in [ProjectKeys -> Nat]
  BY DEF ImportsIInv
<1> QED
  BY <1>1, <1>2, RunStep

\* runImport.
LEMMA StartImportKeeps ==
  ASSUME ImportsIInv, NEW r \in ImportIds, StartImport(r)
  PROVE  ImportsIInv'
<1>0. PICK i \in ImportRow : i = imp[r] /\ RunInv(i) /\ i.pc = "none"
  BY DEF ImportsIInv, StartImport, At
<1>1. imp \in [ImportIds -> ImportRow] /\ nextTaskNumber \in [ProjectKeys -> Nat]
  BY DEF ImportsIInv
<1>2. PICK dry \in BOOLEAN :
          \/ imp' = [imp EXCEPT ![r].pc = "find", ![r].dry = dry]
          \/ \E k \in Existing : imp' = [imp EXCEPT ![r].pc = "fetch", ![r].project = k, ![r].dry = dry]
  BY DEF StartImport
<1>3. CASE imp' = [imp EXCEPT ![r].pc = "find", ![r].dry = dry]
  <2> DEFINE y == [i EXCEPT !.pc = "find", !.dry = dry]
  <2>1. /\ y \in ImportRow /\ SameCounters(y, i)
        /\ y.pc = "find" /\ y.dry = dry /\ y.project = i.project /\ y.total = i.total /\ y.status = i.status
    BY DEF ImportRow, SameCounters
  <2>2. imp' = [imp EXCEPT ![r] = y] /\ UNCHANGED nextTaskNumber
    BY <1>0, <1>1, <1>3 DEF StartImport
  <2> HIDE DEF y
  <2>3. RunInv(y) /\ Reserved(y) = {} /\ y.tasks = imp[r].tasks
    BY <1>0, <2>1 DEF RunInv, Reserved, SameCounters
  <2> QED
    BY <2>1, <2>2, <2>3, QuietStep
<1>4. ASSUME NEW k \in Existing, imp' = [imp EXCEPT ![r].pc = "fetch", ![r].project = k, ![r].dry = dry]
      PROVE  ImportsIInv'
  <2> DEFINE y == [i EXCEPT !.pc = "fetch", !.project = k, !.dry = dry]
  <2>0. k \in ProjectKeys /\ k \in 0..MaxProjects
    BY SourceImportsAssumption DEF Existing, ProjectKeys
  <2>1. /\ y \in ImportRow /\ SameCounters(y, i)
        /\ y.pc = "fetch" /\ y.dry = dry /\ y.project = k /\ y.total = i.total /\ y.status = i.status
    BY <2>0 DEF ImportRow, SameCounters
  <2>2. imp' = [imp EXCEPT ![r] = y] /\ UNCHANGED nextTaskNumber
    BY <1>0, <1>1, <1>4 DEF StartImport
  <2> HIDE DEF y
  <2>3. RunInv(y) /\ Reserved(y) = {} /\ y.tasks = imp[r].tasks
    BY <1>0, <2>1, <2>0 DEF RunInv, Reserved, SameCounters
  <2> QED
    BY <2>1, <2>2, <2>3, QuietStep
<1> QED
  BY <1>2, <1>3, <1>4

\* A run uses the project of that name, or goes on to make one.
LEMMA FindProjectKeeps ==
  ASSUME ImportsIInv, NEW r \in ImportIds, FindProject(r)
  PROVE  ImportsIInv'
<1>0. PICK i \in ImportRow : i = imp[r] /\ RunInv(i) /\ i.pc = "find"
  BY DEF ImportsIInv, FindProject, At
<1>1. imp \in [ImportIds -> ImportRow] /\ nextTaskNumber \in [ProjectKeys -> Nat]
  BY DEF ImportsIInv
<1>2. ASSUME NEW k \in Existing, imp' = [imp EXCEPT ![r].pc = "fetch", ![r].project = k]
      PROVE  ImportsIInv'
  <2> DEFINE y == [i EXCEPT !.pc = "fetch", !.project = k]
  <2>0. k \in ProjectKeys /\ k \in 0..MaxProjects
    BY SourceImportsAssumption DEF Existing, ProjectKeys
  <2>1. /\ y \in ImportRow /\ SameCounters(y, i)
        /\ y.pc = "fetch" /\ y.dry = i.dry /\ y.project = k /\ y.total = i.total /\ y.status = i.status
    BY <2>0 DEF ImportRow, SameCounters
  <2>2. imp' = [imp EXCEPT ![r] = y] /\ UNCHANGED nextTaskNumber
    BY <1>0, <1>1, <1>2 DEF FindProject
  <2> HIDE DEF y
  <2>3. RunInv(y) /\ Reserved(y) = {} /\ y.tasks = imp[r].tasks
    BY <1>0, <2>1, <2>0 DEF RunInv, Reserved, SameCounters
  <2> QED
    BY <2>1, <2>2, <2>3, QuietStep
<1>3. CASE imp[r].dry /\ imp' = [imp EXCEPT ![r].pc = "over", ![r].status = "succeeded"]
  <2> DEFINE y == [i EXCEPT !.pc = "over", !.status = "succeeded"]
  <2>1. /\ y \in ImportRow /\ SameCounters(y, i)
        /\ y.pc = "over" /\ y.dry = i.dry /\ y.project = i.project /\ y.total = i.total /\ y.status = "succeeded"
    BY DEF ImportRow, SameCounters
  <2>2. imp' = [imp EXCEPT ![r] = y] /\ UNCHANGED nextTaskNumber
    BY <1>0, <1>1, <1>3 DEF FindProject
  <2> HIDE DEF y
  <2>3. RunInv(y) /\ Reserved(y) = {} /\ y.tasks = imp[r].tasks
    BY <1>0, <2>1, <1>3 DEF RunInv, Reserved, SameCounters
  <2> QED
    BY <2>1, <2>2, <2>3, QuietStep
<1>4. ASSUME NEW p \in {"pick", "create"}, imp' = [imp EXCEPT ![r].pc = p, ![r].project = 1]
      PROVE  ImportsIInv'
  <2> DEFINE y == [i EXCEPT !.pc = p, !.project = 1]
  <2>0. 1 \in ProjectKeys /\ 1 \in 0..MaxProjects
    BY SourceImportsAssumption DEF ProjectKeys
  <2>1. /\ y \in ImportRow /\ SameCounters(y, i)
        /\ y.pc = p /\ y.dry = i.dry /\ y.project = 1 /\ y.total = i.total /\ y.status = i.status
    BY <2>0 DEF ImportRow, SameCounters
  <2>2. imp' = [imp EXCEPT ![r] = y] /\ UNCHANGED nextTaskNumber
    BY <1>0, <1>1, <1>4 DEF FindProject
  <2> HIDE DEF y
  <2>3. RunInv(y) /\ Reserved(y) = {} /\ y.tasks = imp[r].tasks
    BY <1>0, <2>1, <2>0, <1>4 DEF RunInv, Reserved, SameCounters
  <2> QED
    BY <2>1, <2>2, <2>3, QuietStep
<1> QED
  BY <1>2, <1>3, <1>4 DEF FindProject

SmallerNumber == {p \in Nat \X Nat : p[1] < p[2]}

\* A set of numbers that is not empty has a least one.
LEMMA LeastIn ==
  ASSUME NEW S \in SUBSET Nat, S # {}
  PROVE  Min(S) \in S
<1>1. IsWellFoundedOn(SmallerNumber, Nat)
  BY NatLessThanWellFounded DEF OpToRel, SmallerNumber
<1>2. PICK x \in S : \A y \in S : <<y, x>> \notin SmallerNumber
  BY <1>1, WFMin
<1>3. ASSUME NEW y \in S PROVE x =< y
  <2>1. y < x => <<y, x>> \in SmallerNumber
    BY DEF SmallerNumber
  <2> QED
    BY <1>2, <2>1
<1> QED
  BY <1>3 DEF Min

\* pickUniqueKey takes a key there is.
LEMMA PickKeyKeeps ==
  ASSUME ImportsIInv, NEW r \in ImportIds, PickKey(r)
  PROVE  ImportsIInv'
<1>0. PICK i \in ImportRow : i = imp[r] /\ RunInv(i) /\ i.pc = "pick"
  BY DEF ImportsIInv, PickKey, At
<1>1. imp \in [ImportIds -> ImportRow] /\ nextTaskNumber \in [ProjectKeys -> Nat]
  BY DEF ImportsIInv
<1>2. PICK k \in ProjectKeys : imp' = [imp EXCEPT ![r].pc = "create", ![r].project = k]
  <2>1. ProjectKeys \ Existing \in SUBSET Nat /\ ProjectKeys \ Existing # {}
    BY SourceImportsAssumption DEF PickKey, ProjectKeys
  <2>2. Min(ProjectKeys \ Existing) \in ProjectKeys
    BY <2>1, LeastIn
  <2> QED
    BY <2>2 DEF PickKey
<1> DEFINE y == [i EXCEPT !.pc = "create", !.project = k]
<1>3. k \in 0..MaxProjects
  BY SourceImportsAssumption DEF ProjectKeys
<1>4. /\ y \in ImportRow /\ SameCounters(y, i)
      /\ y.pc = "create" /\ y.dry = i.dry /\ y.project = k /\ y.total = i.total /\ y.status = i.status
  BY <1>2, <1>3 DEF ImportRow, SameCounters
<1>5. imp' = [imp EXCEPT ![r] = y] /\ UNCHANGED nextTaskNumber
  BY <1>0, <1>1, <1>2 DEF PickKey
<1> HIDE DEF y
<1>6. RunInv(y) /\ Reserved(y) = {} /\ y.tasks = imp[r].tasks
  BY <1>0, <1>2, <1>4 DEF RunInv, Reserved, SameCounters
<1> QED
  BY <1>4, <1>5, <1>6, QuietStep

\* runImport's catch.
LEMMA CatchImportKeeps ==
  ASSUME ImportsIInv, NEW r \in ImportIds, CatchImport(r)
  PROVE  ImportsIInv'
<1>0. PICK i \in ImportRow : i = imp[r] /\ RunInv(i) /\ i.pc = "throw"
  BY DEF ImportsIInv, CatchImport, At
<1>1. imp \in [ImportIds -> ImportRow] /\ nextTaskNumber \in [ProjectKeys -> Nat]
  BY DEF ImportsIInv
<1> DEFINE y == [i EXCEPT !.pc = "thrown", !.status = "failed"]
<1>2. /\ y \in ImportRow /\ SameCounters(y, i)
      /\ y.pc = "thrown" /\ y.dry = i.dry /\ y.project = i.project /\ y.total = i.total /\ y.status = "failed"
  BY DEF ImportRow, SameCounters
<1>3. imp' = [imp EXCEPT ![r] = y] /\ UNCHANGED nextTaskNumber
  BY <1>0, <1>1 DEF CatchImport
<1> HIDE DEF y
<1>4. RunInv(y) /\ Reserved(y) = {} /\ y.tasks = imp[r].tasks
  BY <1>0, <1>2 DEF RunInv, Reserved, SameCounters
<1> QED
  BY <1>2, <1>3, <1>4, QuietStep

\* The issues are read; a dry run ends here.
LEMMA FetchIssuesKeeps ==
  ASSUME ImportsIInv, NEW r \in ImportIds, FetchIssues(r)
  PROVE  ImportsIInv'
<1>0. PICK i \in ImportRow : i = imp[r] /\ RunInv(i) /\ i.pc = "fetch"
  BY DEF ImportsIInv, FetchIssues, At
<1>1. imp \in [ImportIds -> ImportRow] /\ nextTaskNumber \in [ProjectKeys -> Nat]
  BY DEF ImportsIInv
<1>2. PICK n \in 0..MaxIssues, p \in {"over", "issue", "reserve"}, st \in {"succeeded", "running"}, k \in Nat :
         /\ imp' = [imp EXCEPT ![r].total = n, ![r].skipped = k, ![r].status = st, ![r].pc = p]
         /\ p = "over" <=> imp[r].dry
         /\ p = "issue" <=> ~imp[r].dry /\ imp[r].source = "jira"
  <2>1. PICK n \in 0..MaxIssues :
          imp' = [imp EXCEPT ![r].total = n,
                             ![r].skipped = IF imp[r].dry THEN n ELSE 0,
                             ![r].status = IF imp[r].dry THEN "succeeded" ELSE "running",
                             ![r].pc = IF imp[r].dry THEN "over"
                                       ELSE IF imp[r].source = "jira" THEN "issue" ELSE "reserve"]
    BY DEF FetchIssues
  <2>2. PICK p \in {"over", "issue", "reserve"} :
          p = IF imp[r].dry THEN "over" ELSE IF imp[r].source = "jira" THEN "issue" ELSE "reserve"
    OBVIOUS
  <2>3. PICK st \in {"succeeded", "running"} : st = IF imp[r].dry THEN "succeeded" ELSE "running"
    OBVIOUS
  <2>4. PICK k \in Nat : k = IF imp[r].dry THEN n ELSE 0
    BY SourceImportsAssumption
  <2>5. imp' = [imp EXCEPT ![r].total = n, ![r].skipped = k, ![r].status = st, ![r].pc = p]
    BY <2>1, <2>2, <2>3, <2>4
  <2> QED
    BY <2>2, <2>5
<1>3. n \in Nat /\ 0 <= n
  BY SourceImportsAssumption
<1> DEFINE y == [i EXCEPT !.total = n, !.skipped = k, !.status = st, !.pc = p]
<1>4. /\ y \in ImportRow /\ SameCounters(y, i)
      /\ y.pc = p /\ y.dry = i.dry /\ y.project = i.project /\ y.total = n /\ y.status = st
  BY <1>2 DEF ImportRow, SameCounters
<1>5. imp' = [imp EXCEPT ![r] = y] /\ UNCHANGED nextTaskNumber
  BY <1>0, <1>1, <1>2 DEF FetchIssues
<1> HIDE DEF y
<1>6. RunInv(y) /\ Reserved(y) = {} /\ y.tasks = imp[r].tasks
  <2>1. p = "over" <=> i.dry
    BY <1>0, <1>2
  <2>2. p = "issue" <=> ~i.dry /\ i.source = "jira"
    BY <1>0, <1>2
  <2>3. RunInv(y)
    BY <1>0, <1>2, <1>3, <1>4, <2>1, <2>2 DEF RunInv, SameCounters
  <2>4. Reserved(y) = {}
    BY <1>2, <1>4, <2>2 DEF Reserved, SameCounters
  <2> QED
    BY <1>0, <1>4, <2>3, <2>4 DEF SameCounters
<1> QED
  BY <1>4, <1>5, <1>6, QuietStep

\* The verdict is of the counters, unless the list of errors is not.
LEMMA FinishImportKeeps ==
  ASSUME ImportsIInv, NEW r \in ImportIds, FinishImport(r)
  PROVE  ImportsIInv'
<1>0. PICK i \in ImportRow : i = imp[r] /\ RunInv(i) /\ i.pc = "issue"
  BY DEF ImportsIInv, FinishImport, At
<1>1. imp \in [ImportIds -> ImportRow] /\ nextTaskNumber \in [ProjectKeys -> Nat]
  BY DEF ImportsIInv
<1>2. PICK st \in {"succeeded", "failed"} :
          st = Verdict(imp[r]) /\ imp' = [imp EXCEPT ![r].pc = "over", ![r].status = st]
  BY DEF FinishImport, Verdict
<1> DEFINE y == [i EXCEPT !.pc = "over", !.status = st]
<1>3. /\ y \in ImportRow /\ SameCounters(y, i)
      /\ y.pc = "over" /\ y.dry = i.dry /\ y.project = i.project /\ y.total = i.total /\ y.status = st
  BY <1>2 DEF ImportRow, SameCounters
<1>4. imp' = [imp EXCEPT ![r] = y] /\ UNCHANGED nextTaskNumber
  BY <1>0, <1>1, <1>2 DEF FinishImport
<1> HIDE DEF y
<1>5. PICK done \in Nat, total \in Nat, errored \in Nat, errors \in Nat, created \in Nat :
         /\ done = i.done /\ total = i.total /\ errored = i.errored /\ errors = i.errors
         /\ created = i.created
  BY SourceImportsAssumption DEF ImportRow
<1>6. done = total /\ errored <= total
  <2>1. ~(done < total) /\ done <= total /\ created + errored = done
    BY <1>0, <1>5 DEF FinishImport, More, RunInv
  <2> QED
    BY <1>5, <2>1
<1>7. \/ st = "failed" <=> total > 0 /\ errored = total
      \/ i.source # "linear" /\ total > ErrorCap
      \/ i.noted
  <2>1. CASE i.source = "linear"
    BY <1>0, <1>2, <1>5, <2>1 DEF Verdict
  <2>2. CASE i.source # "linear" /\ total <= ErrorCap /\ ~i.noted
    <3>1. errored <= ErrorCap
      BY <1>5, <1>6, <2>2, SourceImportsAssumption
    <3>2. errors = errored
      BY <1>0, <1>5, <2>2, <3>1 DEF RunInv
    <3> QED
      BY <1>0, <1>2, <1>5, <2>2, <3>2 DEF Verdict
  <2>3. total <= ErrorCap \/ total > ErrorCap
    BY <1>5, SourceImportsAssumption
  <2> QED
    BY <2>1, <2>2, <2>3
<1>8. RunInv(y) /\ Reserved(y) = {} /\ y.tasks = imp[r].tasks
  BY <1>0, <1>3, <1>5, <1>7 DEF RunInv, Reserved, SameCounters
<1> QED
  BY <1>3, <1>4, <1>8, QuietStep

\* One run makes the project; the others are refused.
LEMMA CreateProjectKeeps ==
  ASSUME ImportsIInv, NEW r \in ImportIds, CreateProject(r)
  PROVE  ImportsIInv'
<1>0. PICK i \in ImportRow : i = imp[r] /\ RunInv(i) /\ i.pc = "create"
  BY DEF ImportsIInv, CreateProject, At
<1>1. imp \in [ImportIds -> ImportRow] /\ nextTaskNumber \in [ProjectKeys -> Nat]
  BY DEF ImportsIInv
<1>2. PICK k \in ProjectKeys : k = imp[r].project
  BY <1>0 DEF RunInv
<1>3. CASE k \in Existing
  <2> DEFINE y == [i EXCEPT !.pc = "throw"]
  <2>1. /\ y \in ImportRow /\ SameCounters(y, i)
        /\ y.pc = "throw" /\ y.dry = i.dry /\ y.project = i.project /\ y.total = i.total /\ y.status = i.status
    BY DEF ImportRow, SameCounters
  <2>2. imp' = [imp EXCEPT ![r] = y] /\ UNCHANGED nextTaskNumber
    BY <1>0, <1>1, <1>2, <1>3 DEF CreateProject, Go
  <2> HIDE DEF y
  <2>3. RunInv(y) /\ Reserved(y) = {} /\ y.tasks = imp[r].tasks
    BY <1>0, <2>1 DEF RunInv, Reserved, SameCounters
  <2> QED
    BY <2>1, <2>2, <2>3, QuietStep
<1>4. CASE k \notin Existing
  <2> DEFINE y == [i EXCEPT !.pc = "fetch"]
  <2>1. /\ y \in ImportRow /\ SameCounters(y, i)
        /\ y.pc = "fetch" /\ y.dry = i.dry /\ y.project = i.project /\ y.total = i.total /\ y.status = i.status
    BY DEF ImportRow, SameCounters
  <2>2. imp' = [imp EXCEPT ![r] = y] /\ nextTaskNumber' = [nextTaskNumber EXCEPT ![k] = 1]
    BY <1>0, <1>1, <1>2, <1>4 DEF CreateProject, Go
  <2> HIDE DEF y
  <2>3. RunInv(y) /\ Reserved(y) = {} /\ y.tasks = imp[r].tasks
    BY <1>0, <1>2, <2>1 DEF RunInv, Reserved, SameCounters
  <2>4. nextTaskNumber[k] \in Nat /\ nextTaskNumber[k] <= 1
    BY <1>1, <1>4 DEF Existing
  <2>5. /\ nextTaskNumber' \in [ProjectKeys -> Nat]
        /\ \A c \in ProjectKeys : nextTaskNumber[c] <= nextTaskNumber'[c]
    BY <1>1, <2>2, <2>4
  <2> QED
    BY <2>1, <2>2, <2>3, <2>5, RunStep
<1> QED
  BY <1>3, <1>4

\* The block begins at the next number and ends before the one after it.
LEMMA ReserveKeeps ==
  ASSUME ImportsIInv, NEW r \in ImportIds, Reserve(r)
  PROVE  ImportsIInv'
<1>0. PICK i \in ImportRow : i = imp[r] /\ RunInv(i) /\ i.pc = "reserve"
  BY DEF ImportsIInv, Reserve, At
<1>1. imp \in [ImportIds -> ImportRow] /\ nextTaskNumber \in [ProjectKeys -> Nat]
  BY DEF ImportsIInv
<1>2. PICK k \in ProjectKeys, n \in Nat, total \in Nat :
         /\ k = i.project /\ n = nextTaskNumber[k] /\ total = i.total
         /\ imp' = [imp EXCEPT ![r].pc = "issue", ![r].number = n]
         /\ nextTaskNumber' = [nextTaskNumber EXCEPT ![k] = n + total]
  <2>1. i.project \in ProjectKeys /\ i.total \in Nat
    BY <1>0, SourceImportsAssumption DEF RunInv, ImportRow
  <2> QED
    BY <1>0, <1>1, <2>1 DEF Reserve
<1> DEFINE y == [i EXCEPT !.pc = "issue", !.number = n]
<1>3. /\ y \in ImportRow /\ y.pc = "issue" /\ y.source = i.source /\ y.dry = i.dry
      /\ y.project = i.project /\ y.total = i.total /\ y.done = i.done /\ y.number = n
      /\ y.errors = i.errors /\ y.noted = i.noted /\ y.created = i.created
      /\ y.errored = i.errored /\ y.tasks = i.tasks /\ y.status = i.status
  BY DEF ImportRow
<1>4. imp' = [imp EXCEPT ![r] = y]
  BY <1>0, <1>1, <1>2
<1> HIDE DEF y
<1>5. RunInv(y)
  BY <1>0, <1>2, <1>3 DEF RunInv
<1>6. /\ nextTaskNumber' \in [ProjectKeys -> Nat] /\ nextTaskNumber'[k] = n + total
      /\ \A c \in ProjectKeys : nextTaskNumber[c] <= nextTaskNumber'[c]
  <2>1. n + total \in Nat /\ n <= n + total
    BY <1>2
  <2> QED
    BY <1>1, <1>2, <2>1
<1>7. ASSUME NEW t \in Reserved(y)
      PROVE  t[2] >= nextTaskNumber[t[1]] /\ t[2] < nextTaskNumber'[t[1]] /\ t \notin y.tasks
  <2>1. i.done = 0
    BY <1>0 DEF RunInv
  <2>2. PICK m \in (n + 0)..(n + total - 1) : t = <<k, m>>
    BY <1>2, <1>3, <1>7, <2>1 DEF Reserved
  <2>3. m \in Nat /\ m >= n /\ m < n + total
    BY <1>2, <2>2
  <2>4. t \notin i.tasks
    <3>1. t \in i.tasks => m < n
      BY <1>0, <1>2, <2>2 DEF ImportsIInv, KeyInv
    <3> QED
      BY <1>2, <2>3, <3>1
  <2> QED
    BY <1>2, <1>3, <1>6, <2>2, <2>3, <2>4
<1>8. \A t \in Reserved(y) : /\ t \in Reserved(imp[r]) \/ t[2] >= nextTaskNumber[t[1]]
                             /\ t[2] < nextTaskNumber'[t[1]]
                             /\ t \notin y.tasks
  BY <1>7
<1>9. y.tasks \subseteq imp[r].tasks \cup Reserved(imp[r])
  BY <1>0, <1>3
<1> QED
  BY <1>3, <1>4, <1>5, <1>6, <1>8, <1>9, RunStep

\* Jira's issue takes the next number.
LEMMA TakeNumberKeeps ==
  ASSUME ImportsIInv, NEW r \in ImportIds, TakeNumber(r)
  PROVE  ImportsIInv'
<1>0. PICK i \in ImportRow : i = imp[r] /\ RunInv(i) /\ i.pc = "issue"
  BY DEF ImportsIInv, TakeNumber, At
<1>1. imp \in [ImportIds -> ImportRow] /\ nextTaskNumber \in [ProjectKeys -> Nat]
  BY DEF ImportsIInv
<1>2. PICK k \in ProjectKeys, n \in Nat :
         /\ k = i.project /\ n = nextTaskNumber[k] /\ i.done < i.total /\ i.source = "jira"
         /\ imp' = [imp EXCEPT ![r].pc = "task", ![r].number = n]
         /\ nextTaskNumber' = [nextTaskNumber EXCEPT ![k] = n + 1]
  <2>1. i.project \in ProjectKeys
    BY <1>0 DEF RunInv
  <2> QED
    BY <1>0, <1>1, <2>1 DEF TakeNumber, More
<1> DEFINE y == [i EXCEPT !.pc = "task", !.number = n]
<1>3. /\ y \in ImportRow /\ y.pc = "task" /\ y.source = i.source /\ y.dry = i.dry
      /\ y.project = i.project /\ y.total = i.total /\ y.done = i.done /\ y.number = n
      /\ y.errors = i.errors /\ y.noted = i.noted /\ y.created = i.created
      /\ y.errored = i.errored /\ y.tasks = i.tasks /\ y.status = i.status
  BY DEF ImportRow
<1>4. imp' = [imp EXCEPT ![r] = y]
  BY <1>0, <1>1, <1>2
<1> HIDE DEF y
<1>5. RunInv(y)
  BY <1>0, <1>2, <1>3 DEF RunInv
<1>6. /\ nextTaskNumber' \in [ProjectKeys -> Nat] /\ nextTaskNumber'[k] = n + 1
      /\ \A c \in ProjectKeys : nextTaskNumber[c] <= nextTaskNumber'[c]
  <2>1. n + 1 \in Nat /\ n <= n + 1
    BY <1>2
  <2> QED
    BY <1>1, <1>2, <2>1
<1>7. ASSUME NEW t \in Reserved(y)
      PROVE  t[2] >= nextTaskNumber[t[1]] /\ t[2] < nextTaskNumber'[t[1]] /\ t \notin y.tasks
  <2>1. t = <<k, n>>
    BY <1>2, <1>3, <1>7 DEF Reserved
  <2>2. t \notin i.tasks
    <3>1. t \in i.tasks => n < n
      BY <1>0, <1>2, <2>1 DEF ImportsIInv, KeyInv
    <3> QED
      BY <1>2, <3>1
  <2>3. n >= n /\ n < n + 1
    BY <1>2
  <2> QED
    BY <1>2, <1>3, <1>6, <2>1, <2>2, <2>3
<1>8. \A t \in Reserved(y) : /\ t \in Reserved(imp[r]) \/ t[2] >= nextTaskNumber[t[1]]
                             /\ t[2] < nextTaskNumber'[t[1]]
                             /\ t \notin y.tasks
  BY <1>7
<1>9. y.tasks \subseteq imp[r].tasks \cup Reserved(imp[r])
  BY <1>0, <1>3
<1> QED
  BY <1>3, <1>4, <1>5, <1>6, <1>8, <1>9, RunStep

\* The key a task is given is one the run has taken.
LEMMA NumberReserved ==
  ASSUME ImportsIInv, NEW r \in ImportIds, ReadyForTask(r)
  PROVE  <<imp[r].project, NumberOf(r)>> \in Reserved(imp[r])
<1>1. imp[r] \in ImportRow /\ RunInv(imp[r])
  BY DEF ImportsIInv
<1>2. PICK i \in ImportRow, done \in Nat, total \in Nat, n \in Nat :
         i = imp[r] /\ done = i.done /\ total = i.total /\ n = i.number
  BY <1>1, SourceImportsAssumption DEF ImportRow
<1>3. CASE At(r, "task")
  <2>1. i.source = "jira" /\ i.pc = "task"
    BY <1>1, <1>2, <1>3 DEF At, RunInv
  <2>2. NumberOf(r) = n /\ imp[r].project = i.project
    BY <1>2, <2>1 DEF NumberOf
  <2>3. Reserved(i) = {<<i.project, n>>}
    BY <1>2, <2>1 DEF Reserved
  <2> QED
    BY <1>2, <2>2, <2>3
<1>4. CASE At(r, "issue") /\ imp[r].source # "jira" /\ More(r)
  <2>1. n + done \in (n + done)..(n + total - 1)
    BY <1>2, <1>4 DEF More
  <2>2. i.source # "jira" /\ i.pc = "issue"
    BY <1>2, <1>4 DEF At
  <2>3. NumberOf(r) = n + done /\ imp[r].project = i.project
    BY <1>2, <2>2 DEF NumberOf
  <2>4. Reserved(i) = {<<i.project, m>> : m \in (n + done)..(n + total - 1)}
    BY <1>2, <2>2 DEF Reserved
  <2> QED
    BY <1>2, <2>1, <2>3, <2>4
<1> QED
  BY <1>3, <1>4 DEF ReadyForTask

\* The list of errors stops at its cap.
LEMMA CappedIs ==
  ASSUME NEW n \in Nat
  PROVE  Capped(n) \in 0..ErrorCap /\ (n <= ErrorCap => Capped(n) = n)
<1>1. n <= ErrorCap => Min({n, ErrorCap}) = n
  BY SourceImportsAssumption DEF Min
<1>2. n > ErrorCap => Min({n, ErrorCap}) = ErrorCap
  BY SourceImportsAssumption DEF Min
<1> QED
  BY <1>1, <1>2, SourceImportsAssumption DEF Capped

\* An issue is counted once, and its task has a key of its own.
LEMMA IssueDoneKeeps ==
  ASSUME ImportsIInv, NEW r \in ImportIds, NEW made \in BOOLEAN, NEW bad \in BOOLEAN,
         NEW notes \in Nat, IssueDone(r, made, bad, notes), UNCHANGED nextTaskNumber,
         imp[r].pc \in {"issue", "task"}, imp[r].done < imp[r].total,
         made => ReadyForTask(r), ~bad => made
  PROVE  ImportsIInv'
<1>0. PICK i \in ImportRow : i = imp[r] /\ RunInv(i)
  BY DEF ImportsIInv
<1>1. imp \in [ImportIds -> ImportRow] /\ nextTaskNumber \in [ProjectKeys -> Nat] /\ KeyInv
  BY DEF ImportsIInv
<1>2. PICK done \in Nat, total \in Nat, errored \in Nat, errors \in Nat, created \in Nat, n \in Nat :
         /\ done = i.done /\ total = i.total /\ errored = i.errored /\ errors = i.errors
         /\ created = i.created /\ n = i.number /\ errors <= ErrorCap
  <2>1. /\ i.done \in Nat /\ i.errored \in Nat /\ i.created \in Nat /\ i.number \in Nat
        /\ i.total \in 0..MaxIssues /\ i.errors \in 0..ErrorCap
    BY DEF ImportRow
  <2>2. i.total \in Nat /\ i.errors \in Nat /\ i.errors <= ErrorCap
    BY <2>1, SourceImportsAssumption
  <2> QED
    BY <2>1, <2>2
<1>3. PICK key : key = <<imp[r].project, NumberOf(r)>>
  OBVIOUS
<1>4. PICK tasks \in SUBSET (ProjectKeys \X Nat) : tasks = IF made THEN i.tasks \cup {key} ELSE i.tasks
  <2>1. made => key \in ProjectKeys \X Nat
    BY <1>0, <1>3, NumberReserved, ReservedTyped
  <2>2. i.tasks \in SUBSET (ProjectKeys \X Nat)
    BY DEF ImportRow
  <2> QED
    BY <2>1, <2>2
<1>5. PICK e \in {0, 1}, c \in {0, 1}, noted \in BOOLEAN :
         /\ e = IF bad THEN 1 ELSE 0
         /\ c = IF bad THEN 0 ELSE 1
         /\ noted <=> i.noted \/ notes > 0
  OBVIOUS
<1>6. PICK listed \in 0..ErrorCap : /\ listed = Capped(errors + notes + e)
                                    /\ errors + notes + e <= ErrorCap => listed = errors + notes + e
  <2>1. errors + notes + e \in Nat
    BY <1>2, <1>5
  <2> QED
    BY <2>1, CappedIs
<1>6a. PICK d \in Nat, cr \in Nat, er \in Nat : d = done + 1 /\ cr = created + c /\ er = errored + e
  <2>1. done + 1 \in Nat /\ created + c \in Nat /\ errored + e \in Nat
    BY <1>2, <1>5
  <2> QED
    BY <2>1
<1>6b. PICK y : y = [i EXCEPT !.pc = "issue", !.done = d, !.tasks = tasks, !.noted = noted,
                              !.errors = listed, !.created = cr, !.errored = er]
  OBVIOUS
<1>7. /\ y \in ImportRow /\ y.pc = "issue" /\ y.source = i.source /\ y.dry = i.dry
      /\ y.project = i.project /\ y.total = i.total /\ y.done = done + 1 /\ y.number = i.number
      /\ y.errors = listed /\ y.noted = noted /\ y.created = created + c
      /\ y.errored = errored + e /\ y.tasks = tasks /\ y.status = i.status
  <2>1. /\ y \in ImportRow /\ y.pc = "issue" /\ y.source = i.source /\ y.dry = i.dry
        /\ y.project = i.project /\ y.total = i.total /\ y.done = d /\ y.number = i.number
        /\ y.errors = listed /\ y.noted = noted /\ y.created = cr
        /\ y.errored = er /\ y.tasks = tasks /\ y.status = i.status
    BY <1>6b DEF ImportRow
  <2> QED
    BY <1>6a, <2>1
<1>8. imp' = [imp EXCEPT ![r] = y]
  <2>1. i.noted \in BOOLEAN
    BY DEF ImportRow
  <2>2. noted = (i.noted \/ notes > 0)
    BY <1>5, <2>1
  <2>3. /\ (IF bad THEN 1 ELSE 0) = e /\ (IF bad THEN 0 ELSE 1) = c
        /\ (IF made THEN imp[r].tasks \cup {<<imp[r].project, NumberOf(r)>>} ELSE imp[r].tasks) = tasks
    BY <1>0, <1>3, <1>4, <1>5
  <2>4. /\ imp[r].done + 1 = d /\ (imp[r].noted \/ notes > 0) = noted
        /\ Capped(imp[r].errors + notes + e) = listed
        /\ imp[r].created + c = cr /\ imp[r].errored + e = er
    BY <1>0, <1>2, <1>6, <1>6a, <2>2
  <2>5. imp' = [imp EXCEPT ![r].pc = "issue", ![r].done = d, ![r].tasks = tasks, ![r].noted = noted,
                           ![r].errors = listed, ![r].created = cr, ![r].errored = er]
    BY <2>3, <2>4 DEF IssueDone
  <2> QED
    BY <1>0, <1>1, <1>6b, <2>5
<1>9. made => key \in Reserved(i) /\ key \notin i.tasks
  BY <1>0, <1>1, <1>3, NumberReserved DEF KeyInv
<1>10. IsFiniteSet(tasks) /\ Cardinality(tasks) >= created + c
  <2>1. IsFiniteSet(i.tasks) /\ Cardinality(i.tasks) \in Nat /\ Cardinality(i.tasks) >= created
    BY <1>0, <1>2, FS_CardinalityType DEF RunInv
  <2>2. CASE made
    <3>1. IsFiniteSet(tasks) /\ Cardinality(tasks) = Cardinality(i.tasks) + 1
      BY <1>4, <1>9, <2>1, <2>2, FS_AddElement
    <3> QED
      BY <1>2, <1>5, <2>1, <3>1
  <2>3. CASE ~made
    <3>1. c = 0
      BY <1>5, <2>3
    <3> QED
      BY <1>2, <1>4, <2>1, <2>3, <3>1
  <2> QED
    BY <2>2, <2>3
<1>11. RunInv(y)
  <2>1. /\ done < total /\ created + errored = done
        /\ ~i.noted /\ errored <= ErrorCap => errors = errored
        /\ i.project \in ProjectKeys /\ ~i.dry
    BY <1>0, <1>2 DEF RunInv
  <2>2. done + 1 <= total /\ (created + c) + (errored + e) = done + 1
    BY <1>2, <1>5, <2>1
  <2>3. ~noted /\ errored + e <= ErrorCap => listed = errored + e
    <3>1. SUFFICES ASSUME ~noted, errored + e <= ErrorCap PROVE listed = errored + e
      OBVIOUS
    <3>2. notes = 0 /\ ~i.noted
      BY <1>5, <3>1
    <3>3. errored <= ErrorCap
      BY <1>2, <1>5, <3>1, SourceImportsAssumption
    <3>4. errors = errored
      BY <2>1, <3>2, <3>3
    <3>5. errors + notes + e = errored + e
      BY <1>2, <1>5, <3>2, <3>4
    <3> QED
      BY <1>6, <3>1, <3>5
  <2> QED
    BY <1>2, <1>7, <1>10, <2>1, <2>2, <2>3 DEF RunInv
<1>12. ASSUME NEW t \in Reserved(y)
       PROVE  t \in Reserved(i) /\ t \notin tasks
  <2>1. i.source # "jira" /\ \E x \in (n + (done + 1))..(n + total - 1) : t = <<i.project, x>>
    BY <1>2, <1>7, <1>12 DEF Reserved
  <2>2. PICK x \in (n + (done + 1))..(n + total - 1) : t = <<i.project, x>>
    BY <2>1
  <2>3. x \in (n + done)..(n + total - 1) /\ x # n + done
    BY <1>2, <2>2
  <2>4. i.pc = "issue"
    BY <1>0, <2>1 DEF RunInv
  <2>5. t \in Reserved(i)
    BY <1>2, <2>1, <2>2, <2>3, <2>4 DEF Reserved
  <2>6. t # key
    BY <1>0, <1>2, <1>3, <2>1, <2>2, <2>3 DEF NumberOf
  <2>7. t \notin i.tasks
    BY <1>0, <1>1, <2>5 DEF KeyInv
  <2> QED
    BY <1>4, <2>5, <2>6, <2>7
<1>13. \A t \in Reserved(i) : t[2] < nextTaskNumber[t[1]]
  BY <1>0, <1>1 DEF KeyInv
<1>14. tasks \subseteq i.tasks \cup Reserved(i)
  BY <1>4, <1>9
<1>15. \A k \in ProjectKeys : nextTaskNumber[k] <= nextTaskNumber'[k]
  BY <1>1
<1> QED
  BY <1>0, <1>1, <1>7, <1>8, <1>11, <1>12, <1>13, <1>14, <1>15, RunStep

\* Whichever way an issue ends.
LEMMA ImportIssueKeeps ==
  ASSUME ImportsIInv, NEW r \in ImportIds, ImportIssue(r)
  PROVE  ImportsIInv'
<1>0. PICK i \in ImportRow : i = imp[r] /\ RunInv(i)
  BY DEF ImportsIInv
<1>1. imp[r].pc \in {"issue", "task"} /\ imp[r].done < imp[r].total /\ UNCHANGED nextTaskNumber
  <2>1. (At(r, "issue") /\ More(r)) \/ At(r, "task")
    BY DEF ImportIssue, ReadyForTask
  <2> QED
    BY <1>0, <2>1 DEF At, More, RunInv, ImportIssue
<1>2. PICK made \in BOOLEAN, bad \in BOOLEAN, notes \in Nat :
         IssueDone(r, made, bad, notes) /\ (made => ReadyForTask(r)) /\ (~bad => made)
  <2>1. 0..ErrorCap \subseteq Nat
    BY SourceImportsAssumption
  <2> QED
    BY <2>1 DEF ImportIssue
<1> QED
  BY <1>1, <1>2, IssueDoneKeeps

\* A run that stops, with or without the task it was making, gives back no
\* number.
LEMMA RejectImportKeeps ==
  ASSUME ImportsIInv, NEW r \in ImportIds, RejectImport(r)
  PROVE  ImportsIInv'
<1>0. PICK i \in ImportRow : i = imp[r] /\ RunInv(i)
  BY DEF ImportsIInv
<1>1. imp \in [ImportIds -> ImportRow] /\ nextTaskNumber \in [ProjectKeys -> Nat] /\ KeyInv
  BY DEF ImportsIInv
<1>2. PICK made \in BOOLEAN :
         /\ made => ReadyForTask(r)
         /\ imp' = [imp EXCEPT
              ![r].pc = IF @ = "throw" THEN "lost" ELSE "throw",
              ![r].tasks = IF made THEN @ \cup {<<imp[r].project, NumberOf(r)>>} ELSE @]
  BY DEF RejectImport
<1>3. PICK key : key = <<imp[r].project, NumberOf(r)>>
  OBVIOUS
<1>4. made => key \in Reserved(i) /\ key \notin i.tasks
  BY <1>0, <1>1, <1>2, <1>3, NumberReserved DEF KeyInv
<1>5. PICK tasks \in SUBSET (ProjectKeys \X Nat), pc \in {"lost", "throw"} :
         /\ tasks = IF made THEN i.tasks \cup {key} ELSE i.tasks
         /\ pc = IF i.pc = "throw" THEN "lost" ELSE "throw"
  <2>1. i.tasks \in SUBSET (ProjectKeys \X Nat)
    BY DEF ImportRow
  <2>2. made => key \in ProjectKeys \X Nat
    BY <1>0, <1>4, ReservedTyped
  <2> QED
    BY <2>1, <2>2
<1> DEFINE y == [i EXCEPT !.pc = pc, !.tasks = tasks]
<1>6. /\ y \in ImportRow /\ y.pc = pc /\ y.source = i.source /\ y.dry = i.dry
      /\ y.project = i.project /\ y.total = i.total /\ y.done = i.done /\ y.number = i.number
      /\ y.errors = i.errors /\ y.noted = i.noted /\ y.created = i.created
      /\ y.errored = i.errored /\ y.tasks = tasks /\ y.status = i.status
  BY DEF ImportRow
<1>7. imp' = [imp EXCEPT ![r] = y]
  <2>1. /\ (IF imp[r].pc = "throw" THEN "lost" ELSE "throw") = pc
        /\ (IF made THEN imp[r].tasks \cup {<<imp[r].project, NumberOf(r)>>} ELSE imp[r].tasks) = tasks
    BY <1>0, <1>3, <1>5
  <2>2. imp' = [imp EXCEPT ![r].pc = pc, ![r].tasks = tasks]
    BY <1>2, <2>1
  <2> QED
    BY <1>0, <1>1, <2>2
<1> HIDE DEF y
<1>8. IsFiniteSet(tasks) /\ Cardinality(tasks) >= i.created
  <2>0. i.created \in Nat
    BY DEF ImportRow
  <2>1. IsFiniteSet(i.tasks) /\ Cardinality(i.tasks) \in Nat /\ Cardinality(i.tasks) >= i.created
    BY <1>0, FS_CardinalityType DEF RunInv
  <2>2. CASE made
    <3>1. IsFiniteSet(tasks) /\ Cardinality(tasks) = Cardinality(i.tasks) + 1
      BY <1>4, <1>5, <2>1, <2>2, FS_AddElement
    <3> QED
      BY <2>0, <2>1, <3>1
  <2>3. CASE ~made
    BY <1>5, <2>1, <2>3
  <2> QED
    BY <2>2, <2>3
<1>9. RunInv(y) /\ Reserved(y) = {}
  BY <1>0, <1>5, <1>6, <1>8 DEF RunInv, Reserved
<1>10. y.tasks \subseteq imp[r].tasks \cup Reserved(imp[r])
  BY <1>0, <1>4, <1>5, <1>6
<1>11. /\ nextTaskNumber' \in [ProjectKeys -> Nat]
       /\ \A k \in ProjectKeys : nextTaskNumber[k] <= nextTaskNumber'[k]
  BY <1>1 DEF RejectImport
<1> QED
  BY <1>6, <1>7, <1>9, <1>10, <1>11, RunStep

\* The process dies: what the runs had reserved is nobody's.
LEMMA ImportsDieKeeps ==
  ASSUME ImportsIInv, ImportsDie
  PROVE  ImportsIInv'
<1>1. imp \in [ImportIds -> ImportRow] /\ nextTaskNumber \in [ProjectKeys -> Nat] /\ KeyInv
  BY DEF ImportsIInv
<1>2. ASSUME NEW r \in ImportIds
      PROVE  /\ imp'[r] \in ImportRow /\ RunInv(imp'[r]) /\ imp'[r].tasks = imp[r].tasks
             /\ Reserved(imp'[r]) \subseteq Reserved(imp[r])
  <2>0. PICK i \in ImportRow : i = imp[r] /\ RunInv(i)
    BY DEF ImportsIInv
  <2>1. CASE imp[r].pc \in {"none", "over", "thrown"}
    BY <2>0, <2>1 DEF ImportsDie
  <2>2. CASE imp[r].pc \notin {"none", "over", "thrown"}
    <3> DEFINE y == [i EXCEPT !.pc = "lost"]
    <3>1. /\ y \in ImportRow /\ SameCounters(y, i)
          /\ y.pc = "lost" /\ y.dry = i.dry /\ y.project = i.project /\ y.total = i.total /\ y.status = i.status
      BY DEF ImportRow, SameCounters
    <3>2. imp'[r] = y
      BY <2>0, <2>2 DEF ImportsDie
    <3> HIDE DEF y
    <3>3. RunInv(y) /\ Reserved(y) = {} /\ y.tasks = i.tasks
      BY <2>0, <3>1 DEF RunInv, Reserved, SameCounters
    <3> QED
      BY <2>0, <3>1, <3>2, <3>3
  <2> QED
    BY <2>1, <2>2
<1>3. imp' \in [ImportIds -> ImportRow] /\ nextTaskNumber' = nextTaskNumber
  <2>1. imp' = [r \in ImportIds |-> imp'[r]]
    BY DEF ImportsDie
  <2> QED
    BY <1>2, <2>1 DEF ImportsDie
<1>4. KeyInv'
  BY <1>1, <1>2, <1>3 DEF KeyInv
<1> QED
  BY <1>1, <1>2, <1>3, <1>4 DEF ImportsIInv

\* Every step of the imports.
LEMMA ImportsStep ==
  ASSUME ImportsIInv, [SourceImportsNext]_sourceImportVars
  PROVE  ImportsIInv'
<1>1. CASE ImportsDie
  BY <1>1, ImportsDieKeeps
<1>2. ASSUME NEW r \in ImportIds, StartImport(r) \/ ImportStep(r) \/ RejectImport(r)
      PROVE  ImportsIInv'
  BY <1>2, StartImportKeeps, FindProjectKeeps, PickKeyKeeps, CreateProjectKeeps, FetchIssuesKeeps,
     ReserveKeeps, TakeNumberKeeps, ImportIssueKeeps, FinishImportKeeps, CatchImportKeeps,
     RejectImportKeeps DEF ImportStep
<1>3. CASE UNCHANGED sourceImportVars
  BY <1>3 DEF sourceImportVars, ImportsIInv, KeyInv
<1> QED
  BY <1>1, <1>2, <1>3 DEF SourceImportsNext

\* No run has begun.
LEMMA ImportsStart ==
  ASSUME SourceImportsInit
  PROVE  ImportsIInv
<1>1. PICK sources \in [ImportIds -> {"jira", "linear", "github"}], n \in {0, 1} :
         /\ imp = [r \in ImportIds |-> NewImport(sources[r])]
         /\ nextTaskNumber = [k \in ProjectKeys |-> IF k = 1 THEN n ELSE 0]
  BY SourceImportsAssumption DEF SourceImportsInit
<1>2. nextTaskNumber \in [ProjectKeys -> Nat]
  BY <1>1
<1>3. ASSUME NEW s \in {"jira", "linear", "github"}
      PROVE  /\ NewImport(s) \in ImportRow /\ RunInv(NewImport(s))
             /\ NewImport(s).tasks = {} /\ Reserved(NewImport(s)) = {}
  <2>1. NewImport(s) \in ImportRow
    BY SourceImportsAssumption DEF NewImport, ImportRow
  <2>2. IsFiniteSet({}) /\ Cardinality({}) = 0
    BY FS_EmptySet
  <2> QED
    BY <2>1, <2>2, SourceImportsAssumption DEF NewImport, RunInv, Reserved
<1>4. imp \in [ImportIds -> ImportRow] /\ \A r \in ImportIds : /\ RunInv(imp[r]) /\ imp[r].tasks = {}
                                                              /\ Reserved(imp[r]) = {}
  BY <1>1, <1>3
<1>5. KeyInv
  BY <1>4 DEF KeyInv
<1> QED
  BY <1>2, <1>4, <1>5 DEF ImportsIInv

\* The types of the imports hold in every reachable state.
THEOREM SourceImportsTyped == SourceImportsSpec => []SourceImportsTypeOK
<1>1. ImportsIInv => SourceImportsTypeOK
  BY DEF ImportsIInv, ImportRow, RunInv, SourceImportsTypeOK
<1> QED
  BY <1>1, ImportsStart, ImportsStep, PTL DEF SourceImportsSpec

\* Imports that overlap take different keys, and a run that came to its end
\* says truly how it went.
THEOREM ImportsAreSound == SourceImportsSpec => []ImportsSound
<1>1. ImportsIInv => ImportsSound
  BY DEF ImportsIInv, KeyInv, RunInv, ImportsSound, ImportKeysUnique, VerdictMatchesCounts
<1> QED
  BY <1>1, ImportsStart, ImportsStep, PTL DEF SourceImportsSpec
-----------------------------------------------------------------------------
(* The rules for snoozing *)

\* Remainders of the numbers up to twice the divisor.
LEMMA Remainders ==
  ASSUME NEW m \in Nat \ {0}, NEW x \in Nat
  PROVE  /\ x < m => x % m = x
         /\ m <= x /\ x < m + m => x % m = x - m
  OBVIOUS

\* The hours of a week are numbered without a gap or an overlap.
LEMMA HourOfWeek ==
  ASSUME NEW d \in Days, NEW h \in Hours
  PROVE  /\ d * HoursPerDay \in Nat /\ DaysPerWeek * HoursPerDay \in Nat
         /\ d * HoursPerDay + h < DaysPerWeek * HoursPerDay
         /\ (d + 1) * HoursPerDay = d * HoursPerDay + HoursPerDay
  <1>1. d \in Nat /\ h \in Nat /\ HoursPerDay \in Nat /\ DaysPerWeek \in Nat
        /\ d <= DaysPerWeek - 1 /\ h < HoursPerDay
    BY SnoozeAssumption DEF Days, Hours
  <1>2. PICK n \in Nat : DaysPerWeek = d + 1 + n
    <2>1. DaysPerWeek - d - 1 \in Nat
      BY <1>1
    <2> QED
      BY <1>1, <2>1
  <1>3. DaysPerWeek * HoursPerDay = d * HoursPerDay + HoursPerDay + n * HoursPerDay
    BY <1>1, <1>2
  <1>4. n * HoursPerDay \in Nat /\ d * HoursPerDay \in Nat
    BY <1>1
  <1> QED
    BY <1>1, <1>3, <1>4

\* An hour of the week is of one day.
LEMMA SameHour ==
  ASSUME NEW d \in Days, NEW h \in Hours, NEW e \in Days, NEW i \in Hours,
         d * HoursPerDay + h = e * HoursPerDay + i
  PROVE  d = e /\ h = i
<1>1. ASSUME NEW a \in Days, NEW b \in Days, NEW x \in Hours, NEW y \in Hours, a < b
      PROVE  a * HoursPerDay + x < b * HoursPerDay + y
  <2>1. a \in Nat /\ b \in Nat /\ x \in Nat /\ y \in Nat /\ HoursPerDay \in Nat /\ x < HoursPerDay
    BY SnoozeAssumption DEF Days, Hours
  <2>2. PICK n \in Nat : b = a + 1 + n
    <3>1. b - a - 1 \in Nat
      BY <1>1, <2>1
    <3> QED
      BY <2>1, <3>1
  <2>3. b * HoursPerDay = a * HoursPerDay + HoursPerDay + n * HoursPerDay
    BY <2>1, <2>2
  <2>4. n * HoursPerDay \in Nat /\ a * HoursPerDay \in Nat
    BY <2>1
  <2> QED
    BY <2>1, <2>3, <2>4
<1>2. d * HoursPerDay \in Nat /\ e * HoursPerDay \in Nat
  BY HourOfWeek
<1>3. d = e
  <2>1. ~(d < e) /\ ~(e < d)
    <3>1. d < e => d * HoursPerDay + h < e * HoursPerDay + i
      BY <1>1
    <3>2. e < d => e * HoursPerDay + i < d * HoursPerDay + h
      BY <1>1
    <3> QED
      BY <1>2, <3>1, <3>2 DEF Hours
  <2> QED
    BY <2>1, SnoozeAssumption DEF Days
<1> QED
  BY <1>2, <1>3, SnoozeAssumption DEF Hours

\* The day after d, and the day before it.
Tomorrow(d) == IF d = DaysPerWeek - 1 THEN 0 ELSE d + 1

LEMMA Yesterday ==
  ASSUME NEW d \in Days, NEW e \in Days
  PROVE  /\ Tomorrow(d) \in Days
         /\ (e + DaysPerWeek - 1) % DaysPerWeek = d <=> e = Tomorrow(d)
         /\ (e + DaysPerWeek - 1) % DaysPerWeek \in Days
<1>1. d \in Nat /\ e \in Nat /\ DaysPerWeek \in Nat \ {0} /\ d < DaysPerWeek /\ e < DaysPerWeek
  BY SnoozeAssumption DEF Days
<1>2. CASE e = 0
  <2>1. (e + DaysPerWeek - 1) % DaysPerWeek = DaysPerWeek - 1
    <3>1. e + DaysPerWeek - 1 \in Nat /\ e + DaysPerWeek - 1 < DaysPerWeek
      BY <1>1, <1>2
    <3> QED
      BY <1>1, <1>2, <3>1, Remainders
  <2> QED
    BY <1>1, <1>2, <2>1 DEF Tomorrow, Days
<1>3. CASE e # 0
  <2>1. (e + DaysPerWeek - 1) % DaysPerWeek = e - 1
    <3>1. e + DaysPerWeek - 1 \in Nat /\ DaysPerWeek <= e + DaysPerWeek - 1
          /\ e + DaysPerWeek - 1 < DaysPerWeek + DaysPerWeek
      BY <1>1, <1>3
    <3>2. (e + DaysPerWeek - 1) % DaysPerWeek = (e + DaysPerWeek - 1) - DaysPerWeek
      BY <1>1, <3>1, Remainders
    <3> QED
      BY <1>1, <3>2
  <2> QED
    BY <1>1, <1>3, <2>1 DEF Tomorrow, Days
<1> QED
  BY <1>2, <1>3

\* The hour that is k hours after the start of a window that began on day d.
LEMMA LaterHour ==
  ASSUME NEW d \in Days, NEW x \in Nat, x < HoursPerDay + HoursPerDay
  PROVE  (d * HoursPerDay + x) % (DaysPerWeek * HoursPerDay) =
           IF x < HoursPerDay THEN d * HoursPerDay + x
           ELSE Tomorrow(d) * HoursPerDay + (x - HoursPerDay)
<1> DEFINE H == HoursPerDay
           W == DaysPerWeek * HoursPerDay
<1>1. H \in Nat \ {0} /\ 0 \in Days /\ 0 \in Hours
  BY SnoozeAssumption DEF Days, Hours
<1>2. /\ d * H \in Nat /\ W \in Nat /\ d * H < W /\ W # 0
      /\ (d + 1) * H = d * H + H
  BY <1>1, HourOfWeek
<1>3. CASE x < H
  <2>1. x \in Hours
    BY <1>1, <1>3 DEF Hours
  <2>2. d * H + x < W /\ d * H + x \in Nat
    BY <1>2, <2>1, HourOfWeek
  <2> HIDE DEF W
  <2>3. (d * H + x) % W = d * H + x
    BY <1>2, <2>2, Remainders
  <2> QED
    BY <1>3, <2>3 DEF W
<1>4. CASE ~(x < H)
  <2>1. x - H \in Hours /\ x - H \in Nat
    BY <1>1, <1>4 DEF Hours
  <2>2. CASE d = DaysPerWeek - 1
    <3>1. d + 1 = DaysPerWeek
      BY <2>2, SnoozeAssumption
    <3>2. d * H + H = W
      BY <1>2, <3>1
    <3>3. x - H < H
      BY <1>1
    <3>4. H <= W
      BY <1>1, <1>2, <3>2
    <3>5. d * H + x = W + (x - H)
      BY <1>1, <1>2, <3>2
    <3> HIDE DEF W
    <3>6. (d * H + x) % W = x - H
      <4>1. W + (x - H) \in Nat /\ W <= W + (x - H) /\ W + (x - H) < W + W
        BY <1>1, <1>2, <2>1, <3>3, <3>4
      <4>2. (W + (x - H)) % W = (W + (x - H)) - W
        BY <1>2, <4>1, Remainders
      <4> QED
        BY <1>2, <2>1, <3>5, <4>2
    <3>7. Tomorrow(d) * H = 0
      BY <1>1, <2>2 DEF Tomorrow
    <3> QED
      BY <1>1, <1>4, <2>1, <3>6, <3>7 DEF W
  <2>3. CASE d # DaysPerWeek - 1
    <3>1. Tomorrow(d) = d + 1 /\ d + 1 \in Days
      BY <2>3, SnoozeAssumption DEF Tomorrow, Days
    <3>2. /\ (d + 1) * H + (x - H) < W /\ (d + 1) * H \in Nat
      BY <2>1, <3>1, HourOfWeek
    <3>3. d * H + x = (d + 1) * H + (x - H) /\ d * H + x \in Nat
      BY <1>1, <1>2
    <3> HIDE DEF W
    <3>4. (d * H + x) % W = d * H + x
      BY <1>2, <3>2, <3>3, Remainders
    <3> QED
      BY <1>4, <3>1, <3>3, <3>4 DEF W
  <2> QED
    BY <2>2, <2>3
<1> QED
  BY <1>3, <1>4

\* The check of the dispatcher is the window.
LEMMA InsideIsWindow ==
  ASSUME NEW w \in Windows, NEW day \in Days, NEW hour \in Hours
  PROVE  IsNowInsideRule(w, day, hour) <=> (day * HoursPerDay + hour) \in WindowHours(w)
<1>1. /\ w.days \subseteq Days /\ w.start \in Hours /\ w.end \in Hours
  BY DEF Windows
<1>2. PICK days \in SUBSET Days, start \in Hours, end \in Hours :
        days = w.days /\ start = w.start /\ end = w.end
  BY <1>1
<1>3. start \in Nat /\ end \in Nat /\ start < HoursPerDay /\ end < HoursPerDay /\ HoursPerDay \in Nat
      /\ hour \in Nat /\ hour < HoursPerDay
  BY SnoozeAssumption DEF Hours
<1> DEFINE length == IF end < start THEN end + HoursPerDay - start ELSE end - start
           HourAt(d, k) == (d * HoursPerDay + start + k) % (DaysPerWeek * HoursPerDay)
           here == day * HoursPerDay + hour
<1>4. here \in WindowHours(w) <=> \E d \in days, k \in 0..(length - 1) : HourAt(d, k) = here
  BY <1>2 DEF WindowHours
<1>5. ASSUME NEW d \in days, NEW k \in 0..(length - 1)
      PROVE  HourAt(d, k) = here <=> IF start + k < HoursPerDay
                                 THEN day = d /\ hour = start + k
                                 ELSE day = Tomorrow(d) /\ hour = start + k - HoursPerDay
  <2>1. start + k \in Nat /\ start + k < HoursPerDay + HoursPerDay /\ k \in Nat
    BY <1>3
  <2>2. PICK x \in Nat : x = start + k
    BY <2>1
  <2>3. x < HoursPerDay + HoursPerDay /\ d \in Days /\ d * HoursPerDay \in Nat
    BY <2>1, <2>2, HourOfWeek
  <2>4. HourAt(d, k) = (d * HoursPerDay + x) % (DaysPerWeek * HoursPerDay)
    <3>1. d * HoursPerDay + start + k = d * HoursPerDay + x
      BY <1>3, <2>1, <2>2, <2>3
    <3> QED
      BY <3>1
  <2>5. HourAt(d, k) = IF x < HoursPerDay THEN d * HoursPerDay + x
                   ELSE Tomorrow(d) * HoursPerDay + (x - HoursPerDay)
    BY <2>3, <2>4, LaterHour
  <2> HIDE DEF HourAt
  <2>6. CASE x < HoursPerDay
    <3>1. x \in Hours
      BY <1>3, <2>6 DEF Hours
    <3>2. HourAt(d, k) = here <=> day = d /\ hour = x
      <4>1. HourAt(d, k) = d * HoursPerDay + x
        BY <2>5, <2>6
      <4>2. d * HoursPerDay + x = day * HoursPerDay + hour => d = day /\ x = hour
        BY <2>3, <3>1, SameHour
      <4> QED
        BY <4>1, <4>2
    <3> QED
      BY <2>2, <2>6, <3>2
  <2>7. CASE ~(x < HoursPerDay)
    <3>1. x - HoursPerDay \in Hours /\ Tomorrow(d) \in Days
      BY <1>3, <2>3, <2>7, Yesterday DEF Hours
    <3>2. HourAt(d, k) = here <=> day = Tomorrow(d) /\ hour = x - HoursPerDay
      <4>1. HourAt(d, k) = Tomorrow(d) * HoursPerDay + (x - HoursPerDay)
        BY <2>5, <2>7
      <4>2. PICK e \in Days, i \in Hours : e = Tomorrow(d) /\ i = x - HoursPerDay
        BY <3>1
      <4>3. e * HoursPerDay + i = day * HoursPerDay + hour => e = day /\ i = hour
        BY SameHour
      <4>4. HourAt(d, k) = e * HoursPerDay + i
        BY <4>1, <4>2
      <4>5. HourAt(d, k) = here <=> day = e /\ hour = i
        BY <4>3, <4>4
      <4> QED
        BY <4>2, <4>5
    <3> QED
      BY <1>3, <2>1, <2>2, <2>7, <3>2
  <2> QED
    BY <2>6, <2>7
<1> HIDE DEF HourAt
<1>6. CASE ~(end < start)
  <2>1. length = end - start
    BY <1>6
  <2>2. (\E d \in days, k \in 0..(length - 1) : HourAt(d, k) = here) => day \in days /\ start <= hour /\ hour < end
    <3> SUFFICES ASSUME NEW d \in days, NEW k \in 0..(length - 1), HourAt(d, k) = here
                 PROVE  day \in days /\ start <= hour /\ hour < end
      OBVIOUS
    <3>1. k \in Nat /\ k < end - start /\ start + k < HoursPerDay
      BY <1>3, <2>1
    <3> QED
      BY <1>3, <1>5, <3>1
  <2>3. ASSUME day \in days, start <= hour, hour < end
        PROVE  \E d \in days, k \in 0..(length - 1) : HourAt(d, k) = here
    <3>1. hour - start \in 0..(length - 1) /\ start + (hour - start) = hour
      BY <1>3, <2>1, <2>3
    <3> QED
      BY <1>3, <1>5, <2>3, <3>1
  <2> QED
    BY <1>2, <1>3, <1>4, <1>6, <2>2, <2>3 DEF IsNowInsideRule
<1>7. CASE end < start
  <2> DEFINE before == (day + DaysPerWeek - 1) % DaysPerWeek
  <2>1. length = end + HoursPerDay - start
    BY <1>7
  <2>2. \A d \in days : before = d <=> day = Tomorrow(d)
    BY Yesterday
  <2>3. ASSUME NEW d \in days, NEW k \in 0..(length - 1), HourAt(d, k) = here
        PROVE  (day \in days /\ hour >= start) \/ (before \in days /\ hour < end)
    <3>1. k \in Nat /\ k < end + HoursPerDay - start
      BY <1>3, <2>1
    <3>2. CASE start + k < HoursPerDay
      BY <1>3, <1>5, <2>3, <3>1, <3>2
    <3>3. CASE ~(start + k < HoursPerDay)
      <4>1. day = Tomorrow(d) /\ hour = start + k - HoursPerDay
        BY <1>5, <2>3, <3>3
      <4> QED
        BY <1>3, <2>2, <3>1, <4>1
    <3> QED
      BY <3>2, <3>3
  <2>4. ASSUME day \in days, hour >= start
        PROVE  \E d \in days, k \in 0..(length - 1) : HourAt(d, k) = here
    <3>1. hour - start \in 0..(length - 1) /\ start + (hour - start) = hour
      BY <1>3, <2>1, <2>4
    <3> QED
      BY <1>3, <1>5, <2>4, <3>1
  <2>5. ASSUME before \in days, hour < end
        PROVE  \E d \in days, k \in 0..(length - 1) : HourAt(d, k) = here
    <3>0. hour + HoursPerDay - start \in 0..(length - 1)
      BY <1>3, <1>7, <2>1, <2>5
    <3>4. PICK k \in 0..(length - 1) : k = hour + HoursPerDay - start
      BY <3>0
    <3>1. ~(start + k < HoursPerDay) /\ start + k - HoursPerDay = hour
      BY <1>3, <3>4
    <3>2. day = Tomorrow(before)
      BY <2>2, <2>5
    <3>3. HourAt(before, k) = here
      BY <1>5, <2>5, <3>1, <3>2
    <3> QED
      BY <2>5, <3>3
  <2> QED
    BY <1>2, <1>3, <1>4, <1>7, <2>3, <2>4, <2>5 DEF IsNowInsideRule
<1> QED
  BY <1>6, <1>7

\* A window whose hours differ covers one.
LEMMA WindowCovers ==
  ASSUME NEW w \in Windows, w.start # w.end
  PROVE  WindowHours(w) # {}
<1>1. PICK d \in Days : d \in w.days
  BY DEF Windows
<1>2. w.start \in Hours /\ w.end \in Hours
  BY DEF Windows
<1>3. PICK start \in Hours, end \in Hours : start = w.start /\ end = w.end
  BY <1>2
<1> DEFINE length == IF end < start THEN end + HoursPerDay - start ELSE end - start
<1>4. 0 \in 0..(length - 1)
  BY <1>3, SnoozeAssumption DEF Hours
<1>5. (d * HoursPerDay + start + 0) % (DaysPerWeek * HoursPerDay) \in WindowHours(w)
  BY <1>1, <1>3, <1>4 DEF WindowHours
<1> QED
  BY <1>5

\* A row that no partial patch has written was validated.
SnoozeIInv ==
    /\ SnoozeTypeOK
    /\ \A r \in RuleIds : r \notin piecemeal /\ snooze[r] # NoRule => snooze[r].start # snooze[r].end

\* No window begins without days.
LEMMA WindowIsRule == \A w \in Windows : w # NoRule
  BY DEF Windows, NoRule

\* A patch leaves a window.
LEMMA PatchedWindow ==
  ASSUME NEW old \in Windows, NEW patch \in Windows, NEW given \in SUBSET (Whole \cup {"enabled"})
  PROVE  AfterPatch(old, patch, given) \in Windows
<1>1. /\ old.days \in (SUBSET Days) \ {{}} /\ old.start \in Hours /\ old.end \in Hours
      /\ old.enabled \in BOOLEAN
      /\ patch.days \in (SUBSET Days) \ {{}} /\ patch.start \in Hours /\ patch.end \in Hours
      /\ patch.enabled \in BOOLEAN
  BY DEF Windows
<1> QED
  BY <1>1 DEF AfterPatch, Windows

LEMMA SnoozeStart == SnoozeInit => SnoozeIInv
  BY DEF SnoozeInit, SnoozeIInv, SnoozeTypeOK

LEMMA SnoozeStep == SnoozeIInv /\ [SnoozeNext]_snoozeVars => SnoozeIInv'
<1> SUFFICES ASSUME SnoozeIInv, [SnoozeNext]_snoozeVars PROVE SnoozeIInv'
  OBVIOUS
<1>0. snooze \in [RuleIds -> Windows \cup {NoRule}] /\ piecemeal \subseteq RuleIds
  BY DEF SnoozeIInv, SnoozeTypeOK
<1>1. ASSUME NEW r \in RuleIds, CreateRule(r) PROVE SnoozeIInv'
  <2>1. PICK w \in Windows : Validated(w) /\ snooze' = [snooze EXCEPT ![r] = w]
    BY <1>1 DEF CreateRule
  <2> QED
    BY <1>0, <1>1, <2>1 DEF CreateRule, Validated, SnoozeIInv, SnoozeTypeOK
<1>2. ASSUME NEW r \in RuleIds, UpdateRule(r) PROVE SnoozeIInv'
  <2>1. PICK patch \in Windows, given \in SUBSET (Whole \cup {"enabled"}) :
          /\ Whole \subseteq given => Validated(patch)
          /\ snooze' = [snooze EXCEPT ![r] = AfterPatch(@, patch, given)]
          /\ piecemeal' = CASE Whole \subseteq given -> piecemeal \ {r}
                            [] given \cap {"start", "end"} # {} /\ ~(Whole \subseteq given) ->
                                 piecemeal \cup {r}
                            [] OTHER -> piecemeal
    BY <1>2 DEF UpdateRule
  <2>2. PICK old \in Windows : old = snooze[r]
    BY <1>0, <1>2 DEF UpdateRule
  <2>3. PICK new \in Windows : new = AfterPatch(old, patch, given)
    BY PatchedWindow
  <2>4. snooze' = [snooze EXCEPT ![r] = new]
    BY <1>0, <2>1, <2>2, <2>3
  <2>5. /\ piecemeal' \subseteq RuleIds
        /\ \A q \in RuleIds \ {r} : q \in piecemeal' <=> q \in piecemeal
    BY <1>0, <2>1
  <2>6. ASSUME r \notin piecemeal' PROVE new.start # new.end
    <3>1. CASE Whole \subseteq given
      BY <2>1, <2>3, <3>1 DEF Whole, AfterPatch, Validated
    <3>2. CASE ~(Whole \subseteq given)
      <4>1. given \cap {"start", "end"} = {} /\ r \notin piecemeal
        BY <2>1, <2>6, <3>2
      <4>2. new.start = old.start /\ new.end = old.end
        BY <2>3, <4>1 DEF AfterPatch
      <4>3. old.start # old.end
        BY <2>2, <4>1, WindowIsRule DEF SnoozeIInv
      <4> QED
        BY <4>2, <4>3
    <3> QED
      BY <3>1, <3>2
  <2> QED
    BY <1>0, <2>4, <2>5, <2>6 DEF SnoozeIInv, SnoozeTypeOK
<1>3. ASSUME NEW r \in RuleIds, RemoveRule(r) PROVE SnoozeIInv'
  BY <1>0, <1>3 DEF RemoveRule, SnoozeIInv, SnoozeTypeOK
<1>4. CASE UNCHANGED snoozeVars
  BY <1>4 DEF snoozeVars, SnoozeIInv, SnoozeTypeOK
<1> QED
  BY <1>1, <1>2, <1>3, <1>4 DEF SnoozeNext

\* Rules and their history stay well typed, whatever a patch leaves out.
THEOREM SnoozeTyped == SnoozeSpec => []SnoozeTypeOK
<1>1. SnoozeIInv => SnoozeTypeOK
  BY DEF SnoozeIInv
<1> QED
  BY <1>1, SnoozeStart, SnoozeStep, PTL DEF SnoozeSpec

\* For a week and a day of any length and any number of rules: the dispatcher
\* is silent exactly in the hours the enabled rules cover, across midnight and
\* the end of the week, and a rule that covers none was left by a patch of one
\* hour (NotificationSnoozeService).
THEOREM SnoozeIsHonest == SnoozeSpec => []SnoozeSound
<1>1. SnoozeIInv => SnoozedExactlyInWindow
  <2> SUFFICES ASSUME SnoozeIInv, NEW day \in Days, NEW hour \in Hours, NEW r \in RuleIds, snooze[r].enabled
               PROVE  IsNowInsideRule(snooze[r], day, hour)
                        <=> (day * HoursPerDay + hour) \in WindowHours(snooze[r])
    BY DEF SnoozedExactlyInWindow, IsWithinSnoozeWindow
  <2>1. snooze[r] \in Windows \cup {NoRule} /\ NoRule.enabled = FALSE
    BY DEF SnoozeIInv, SnoozeTypeOK, NoRule
  <2> QED
    BY <2>1, InsideIsWindow
<1>2. SnoozeIInv => EmptyWindowIsPiecemeal
  BY WindowCovers DEF SnoozeIInv, SnoozeTypeOK, EmptyWindowIsPiecemeal
<1> QED
  BY <1>1, <1>2, SnoozeStart, SnoozeStep, PTL DEF SnoozeSpec, SnoozeSound

-----------------------------------------------------------------------------
(* Formula fields *)

\* Less, as a set of pairs.
SmallerIndex == {p \in Nat \X Nat : p[1] < p[2]}

\* A set of numbers that is not empty has a least member.
LEMMA LeastIndex ==
  ASSUME NEW S \in SUBSET Nat, S # {}
  PROVE  \E x \in S : \A y \in S : x <= y
<1>1. IsWellFoundedOn(SmallerIndex, Nat)
  BY NatLessThanWellFounded DEF OpToRel, SmallerIndex
<1>2. PICK x \in S : \A y \in S : <<y, x>> \notin SmallerIndex
  BY <1>1, WFMin
<1>3. ASSUME NEW y \in S PROVE x <= y
  <2>1. y < x => <<y, x>> \in SmallerIndex
    BY DEF SmallerIndex
  <2> QED
    BY <1>2, <2>1
<1> QED
  BY <1>3

\* A set that has what f uses and what its members use.
ClosedUnder(d, f, S) == \A h \in S \cup {f}, k \in Fields : Uses(d, h, k) => k \in S

\* A walk is kept within every such set.
LEMMA WalkStaysIn ==
  ASSUME NEW d, NEW f, NEW g, NEW S \in SUBSET Fields, ClosedUnder(d, f, S), Reaches(d, f, g)
  PROVE  g \in S
  BY DEF Reaches, ClosedUnder

\* A member that no walk comes to is outside one.
LEMMA NoWalk ==
  ASSUME NEW d, NEW f, NEW g, ~Reaches(d, f, g)
  PROVE  \E S \in SUBSET Fields : ClosedUnder(d, f, S) /\ g \notin S
  BY DEF Reaches, ClosedUnder

\* Fewer references, fewer walks.
LEMMA FewerWalks ==
  ASSUME NEW d, NEW e, NEW f \in Fields, NEW g,
         \A h, k \in Fields : Uses(e, h, k) => Uses(d, h, k),
         Reaches(e, f, g)
  PROVE  Reaches(d, f, g)
<1> SUFFICES ASSUME NEW S \in SUBSET Fields, ClosedUnder(d, f, S) PROVE g \in S
  BY DEF Reaches, ClosedUnder
<1>1. ClosedUnder(e, f, S)
  BY DEF ClosedUnder
<1> QED
  BY <1>1, WalkStaysIn

\* What assertNoFormulaCycle is for: a circle that was not there before goes
\* through the row that is written.
LEMMA NewCircle ==
  ASSUME NEW d, NEW e, NEW f \in Fields,
         \A h, k \in Fields \ {f} : Uses(e, h, k) => Uses(d, h, k),
         ~Cyclic(d), ~Reaches(e, f, f)
  PROVE  ~Cyclic(e)
<1> SUFFICES ASSUME NEW g \in Fields, g # f PROVE ~Reaches(e, g, g)
  BY DEF Cyclic
<1>1. PICK S \in SUBSET Fields : ClosedUnder(e, f, S) /\ f \notin S
  BY NoWalk
<1>2. PICK T \in SUBSET Fields : ClosedUnder(d, g, T) /\ g \notin T
  BY NoWalk DEF Cyclic
<1>3. CASE g \in S
  <2>1. ClosedUnder(e, g, S \cap T)
    <3> SUFFICES ASSUME NEW h \in (S \cap T) \cup {g}, NEW k \in Fields, Uses(e, h, k)
                 PROVE  k \in S \cap T
      BY DEF ClosedUnder
    <3>1. h \in S /\ k \in S
      BY <1>1, <1>3 DEF ClosedUnder
    <3>2. h # f /\ k # f
      BY <1>1, <3>1
    <3>3. Uses(d, h, k)
      BY <3>1, <3>2
    <3> QED
      BY <1>2, <3>1, <3>3 DEF ClosedUnder
  <2> QED
    BY <1>2, <2>1, WalkStaysIn
<1>4. CASE g \notin S
  <2>1. ClosedUnder(e, g, T \cup S \cup {f})
    <3> SUFFICES ASSUME NEW h \in T \cup S \cup {f} \cup {g}, NEW k \in Fields, Uses(e, h, k), k # f
                 PROVE  k \in T \cup S
      BY DEF ClosedUnder
    <3>1. CASE h \in S \cup {f}
      BY <1>1, <3>1 DEF ClosedUnder
    <3>2. CASE h \notin S \cup {f}
      <4>1. Uses(d, h, k)
        BY <3>2
      <4> QED
        BY <1>2, <3>2, <4>1 DEF ClosedUnder
    <3> QED
      BY <3>1, <3>2
  <2> QED
    BY <1>2, <1>4, <2>1, WalkStaysIn
<1> QED
  BY <1>3, <1>4

-----------------------------------------------------------------------------
\* A save in flight.
SaveRow == [field: Fields, stale: BOOLEAN, patch: Patches]

\* A save in flight has a row to write, and while no row has been written
\* since its check and its name has no blanks, the row closes no circle.
Live(row) == [row EXCEPT !.st = "live"]
Padded(p) == p.part = "row" /\ p.padded
SaveInv(s) ==
    s # NoSave =>
        /\ s \in SaveRow
        /\ mischief = {} /\ ~s.stale /\ ~Padded(s.patch) =>
             LET row == Patched(def[s.field], s.patch)
             IN  row.formula =>
                   ~Reaches([def EXCEPT ![s.field] = Live(row)], s.field, s.field)

FormulasIInv ==
    /\ FormulasTypeOK
    /\ CycleNeedsRaceOrBlanks
    /\ \A e \in Editors : SaveInv(save[e])
    /\ save \in [Editors -> SaveRow \cup {NoSave}]

\* The patches, one kind at a time.
LEMMA PatchKinds ==
  ASSUME NEW p \in Patches, NEW row \in Definitions
  PROVE  /\ Patched(row, p) \in Definitions
         /\ p.part = "row" \/ Patched(row, p).st = row.st
         /\ p.part = "row" => Patched(row, p).st = "live"
<1>1. CASE p \in [part: {"row"}, name: Names, refs: Expressions, padded: BOOLEAN]
  BY <1>1 DEF Patched, Definitions, Expressions
<1>2. CASE p \in [part: {"name"}, name: Names]
  BY <1>2 DEF Patched, Definitions, Expressions
<1>3. CASE p \in [part: {"expression"}, refs: Expressions]
  BY <1>3 DEF Patched, Definitions, Expressions
<1>4. CASE p \in [part: {"kind"}, formula: BOOLEAN]
  BY <1>4 DEF Patched, Definitions, Expressions
<1> QED
  BY <1>1, <1>2, <1>3, <1>4 DEF Patches

\* NoSave is no save in flight.
LEMMA NoSaveIsNone == \A s \in SaveRow : s # NoSave
  BY DEF SaveRow, NoSave, Fields

\* The row a patch leads to is the same whether its field is archived or not.
LEMMA ArchivedPatch ==
  ASSUME NEW p \in Patches, NEW row \in Definitions, NEW old,
         old = [row EXCEPT !.st = "archived"]
  PROVE  /\ Live(Patched(old, p)) = Live(Patched(row, p))
         /\ Patched(old, p).formula = Patched(row, p).formula
<1>1. CASE p \in [part: {"row"}, name: Names, refs: Expressions, padded: BOOLEAN]
  BY <1>1 DEF Patched, Definitions, Expressions, Live
<1>2. CASE p \in [part: {"name"}, name: Names]
  BY <1>2 DEF Patched, Definitions, Expressions, Live
<1>3. CASE p \in [part: {"expression"}, refs: Expressions]
  BY <1>3 DEF Patched, Definitions, Expressions, Live
<1>4. CASE p \in [part: {"kind"}, formula: BOOLEAN]
  BY <1>4 DEF Patched, Definitions, Expressions, Live
<1> QED
  BY <1>1, <1>2, <1>3, <1>4 DEF Patches
\* A field that is archived uses nothing and is used by nobody.
LEMMA ArchivedUses ==
  ASSUME NEW d, NEW f \in DOMAIN d, NEW row, row.st # "live"
  PROVE  \A h, k : Uses([d EXCEPT ![f] = row], h, k) => Uses(d, h, k)
  BY DEF Uses, LiveFormula

-----------------------------------------------------------------------------
(* The steps *)

\* The types of a save.
LEMMA SaveTypes ==
  \A s \in SaveRow \cup {NoSave} : s.field \in Fields \cup {0} /\ s.stale \in BOOLEAN
<1>1. \A s \in SaveRow : s.field \in Fields /\ s.stale \in BOOLEAN
  BY DEF SaveRow
<1>2. NoSave.field = 0 /\ NoSave.stale = FALSE
  BY DEF NoSave
<1> QED
  BY <1>1, <1>2

\* Formulas that were saved one after the other have no circle.
LEMMA FormulasStart == FormulasInit => FormulasIInv
<1> SUFFICES ASSUME FormulasInit PROVE FormulasIInv
  OBVIOUS
<1>1. PICK refs \in [Fields -> SUBSET Names], last \in {"none", "live"} :
        def = [f \in Fields |-> [st |-> IF f = MaxFields THEN last ELSE "live",
                                 name |-> FirstName[f], formula |-> TRUE, refs |-> refs[f]]]
  BY DEF FormulasInit
<1>2. def \in [Fields -> Definitions] /\ \A f \in Fields : def[f].name = FirstName[f]
  BY <1>1, FormulasAssumption DEF Definitions
<1>3. FormulasTypeOK
  BY <1>2, SaveTypes, FormulasAssumption DEF FormulasInit, FormulasTypeOK
<1> QED
  BY <1>3 DEF FormulasInit, FormulasIInv, CycleNeedsRaceOrBlanks, SaveInv


\* A check that succeeds leaves a save that closes no circle.
LEMMA CheckKeeps ==
  ASSUME FormulasIInv, NEW e \in Editors, NEW f \in Fields, Check(e, f)
  PROVE  FormulasIInv'
<1>1. PICK p \in Patches :
        LET row == Patched(def[f], p)
            padded == p.part = "row" /\ p.padded
        IN  /\ row.formula => NoFormulaCycle(f, row, padded)
            /\ save' = [save EXCEPT ![e] = [field |-> f, stale |-> FALSE, patch |-> p]]
  BY DEF Check
<1>2. def' = def /\ mischief' = mischief /\ saves' = saves + 1 /\ saves < MaxSaves
  BY DEF Check
<1>3. PICK s \in SaveRow : s = [field |-> f, stale |-> FALSE, patch |-> p]
  BY DEF SaveRow
<1>4. save' = [save EXCEPT ![e] = s] /\ save' \in [Editors -> SaveRow \cup {NoSave}]
  BY <1>1, <1>3 DEF FormulasIInv
<1>5. SaveInv(s)
  BY <1>1, <1>3 DEF SaveInv, NoFormulaCycle, Padded, Live
<1>6. ASSUME NEW x \in Editors PROVE SaveInv(save[x])'
  <2>1. save'[x] = IF x = e THEN s ELSE save[x]
    BY <1>4 DEF FormulasIInv
  <2>2. SaveInv(save'[x])
    BY <1>5, <2>1 DEF FormulasIInv
  <2> QED
    BY <1>2, <2>2 DEF SaveInv
<1>7. FormulasTypeOK'
  BY <1>2, <1>4, SaveTypes, FormulasAssumption DEF FormulasIInv, FormulasTypeOK
<1> QED
  BY <1>2, <1>4, <1>6, <1>7 DEF FormulasIInv, CycleNeedsRaceOrBlanks

\* A field that is archived takes references away.
LEMMA RemoveKeeps ==
  ASSUME FormulasIInv, NEW f \in Fields, RemoveField(f)
  PROVE  FormulasIInv'
<1>1. /\ def \in [Fields -> Definitions]
      /\ save' = save /\ mischief' = mischief /\ saves' = saves + 1 /\ saves < MaxSaves
      /\ def' = [def EXCEPT ![f].st = "archived"]
  BY DEF RemoveField, FormulasIInv, FormulasTypeOK
<1>2. PICK old \in Definitions : old = [def[f] EXCEPT !.st = "archived"]
  BY <1>1 DEF Definitions
<1>3. def' = [def EXCEPT ![f] = old] /\ old.st = "archived" /\ old.name = def[f].name
  BY <1>1, <1>2 DEF Definitions
<1>4. \A h, k \in Fields : Uses(def', h, k) => Uses(def, h, k)
  <2>1. f \in DOMAIN def
    BY <1>1
  <2>2. \A h, k : Uses([def EXCEPT ![f] = old], h, k) => Uses(def, h, k)
    BY <1>3, <2>1, ArchivedUses
  <2> QED
    BY <1>3, <2>2
<1>5. Cyclic(def') => Cyclic(def)
  BY <1>4, FewerWalks DEF Cyclic
<1>6. FormulasTypeOK'
  <2>1. def' \in [Fields -> Definitions]
    BY <1>1, <1>3
  <2>2. \A g \in Fields : def'[g].name = def[g].name /\ (def'[g].st # "none" => g = f \/ def[g].st # "none")
    BY <1>1, <1>3
  <2>3. def[f].st # "none"
    BY DEF RemoveField
  <2> QED
    BY <1>1, <2>1, <2>2, <2>3, FormulasAssumption DEF FormulasIInv, FormulasTypeOK
<1>7. ASSUME NEW e \in Editors, save[e] # NoSave, mischief = {}, ~save[e].stale, ~Padded(save[e].patch),
             Patched(def'[save[e].field], save[e].patch).formula
      PROVE  ~Reaches([def' EXCEPT ![save[e].field] = Live(Patched(def'[save[e].field], save[e].patch))],
                      save[e].field, save[e].field)
  <2>1. save[e] \in SaveRow
    BY <1>7 DEF FormulasIInv
  <2>2. PICK h \in Fields, p \in Patches : h = save[e].field /\ p = save[e].patch
    BY <2>1 DEF SaveRow
  <2>3. Patched(def[h], p).formula =>
          ~Reaches([def EXCEPT ![h] = Live(Patched(def[h], p))], h, h)
    BY <1>7, <2>2 DEF FormulasIInv, SaveInv
  <2>4. CASE h = f
    <3>1. /\ Live(Patched(def'[f], p)) = Live(Patched(def[f], p))
          /\ Patched(def'[f], p).formula = Patched(def[f], p).formula
      BY <1>1, <1>2, <1>3, ArchivedPatch
    <3>2. \A row : [def' EXCEPT ![f] = row] = [def EXCEPT ![f] = row]
      BY <1>1, <1>3
    <3> QED
      BY <1>7, <2>2, <2>3, <2>4, <3>1, <3>2
  <2>5. CASE h # f
    <3>1. def'[h] = def[h]
      BY <1>1, <1>3, <2>5
    <3> DEFINE row == Live(Patched(def[h], p))
               d == [def EXCEPT ![h] = row]
               e2 == [def' EXCEPT ![h] = row]
    <3>2. e2 = [d EXCEPT ![f] = old] /\ f \in DOMAIN d
      BY <1>1, <1>3, <2>5
    <3> HIDE DEF d, row
    <3>3. \A i, k \in Fields : Uses(e2, i, k) => Uses(d, i, k)
      BY <1>3, <3>2, ArchivedUses
    <3>4. Reaches(e2, h, h) => Reaches(d, h, h)
      BY <3>3, FewerWalks
    <3> QED
      BY <1>7, <2>2, <2>3, <3>1, <3>4 DEF d, row
  <2> QED
    BY <2>4, <2>5
<1>8. ASSUME NEW e \in Editors PROVE SaveInv(save[e])'
  BY <1>1, <1>7 DEF FormulasIInv, SaveInv
<1> QED
  BY <1>1, <1>5, <1>6, <1>8 DEF FormulasIInv, CycleNeedsRaceOrBlanks

\* A write closes a circle only if its check was stale or missed the name.
LEMMA WriteKeeps ==
  ASSUME FormulasIInv, NEW e \in Editors, Write(e)
  PROVE  FormulasIInv'
<1>1. /\ def \in [Fields -> Definitions] /\ save \in [Editors -> SaveRow \cup {NoSave}]
      /\ save[e] # NoSave /\ saves' = saves
  BY DEF Write, FormulasIInv, FormulasTypeOK
<1>2. PICK s \in SaveRow : s = save[e]
  BY <1>1
<1>3. PICK f \in Fields, p \in Patches : f = s.field /\ p = s.patch
  BY DEF SaveRow
<1>4. PICK row \in Definitions : row = Patched(def[f], p)
  BY <1>1, PatchKinds
<1> DEFINE Taken == \E g \in Fields \ {f} : def[g].st # "none" /\ def[g].name = row.name
           Skipped == Taken \/ (p.part = "row" /\ def[f].st # "none")
           Added == (IF s.stale THEN {"stale"} ELSE {}) \cup (IF Padded(p) THEN {"padded"} ELSE {})
<1>5. CASE Skipped
  <2>1. /\ def' = def /\ mischief' = mischief
        /\ save' = [save EXCEPT ![e] = NoSave]
    BY <1>2, <1>3, <1>4, <1>5 DEF Write, Padded
  <2>2. save' \in [Editors -> SaveRow \cup {NoSave}]
    BY <1>1, <2>1
  <2>3. ASSUME NEW x \in Editors PROVE SaveInv(save[x])'
    <3>1. save'[x] = NoSave \/ save'[x] = save[x]
      BY <1>1, <2>1
    <3> QED
      BY <2>1, <3>1 DEF FormulasIInv, SaveInv
  <2>4. FormulasTypeOK'
    BY <1>1, <2>1, <2>2, SaveTypes DEF FormulasIInv, FormulasTypeOK
  <2> QED
    BY <2>1, <2>2, <2>3, <2>4 DEF FormulasIInv, CycleNeedsRaceOrBlanks
<1>6. CASE ~Skipped
  <2>1. /\ def' = [def EXCEPT ![f] = row] /\ mischief' = mischief \cup Added
        /\ save' = [x \in Editors |-> IF x = e \/ save[x] = NoSave THEN NoSave
                                      ELSE [save[x] EXCEPT !.stale = TRUE]]
    BY <1>2, <1>3, <1>4, <1>6 DEF Write, Padded
  <2>2. ASSUME NEW x \in Editors
        PROVE  save'[x] = NoSave \/ (save'[x] \in SaveRow /\ save'[x].stale)
    <3>1. CASE x = e \/ save[x] = NoSave
      BY <2>1, <3>1
    <3>2. CASE x # e /\ save[x] # NoSave
      <4> PICK y \in SaveRow : y = save[x]
        BY <1>1, <3>2
      <4> QED
        BY <2>1, <3>2 DEF SaveRow
    <3> QED
      BY <3>1, <3>2
  <2>3. save' \in [Editors -> SaveRow \cup {NoSave}]
    BY <2>1, <2>2
  <2>4. ASSUME NEW x \in Editors PROVE SaveInv(save[x])'
    BY <2>2 DEF SaveInv
  <2>5. mischief' \subseteq {"stale", "padded"}
    BY <2>1 DEF FormulasIInv, FormulasTypeOK
  <2>6. FormulasTypeOK'
    <3>1. def' \in [Fields -> Definitions]
      BY <1>1, <2>1
    <3>2. \A g \in Fields \ {f} : def'[g] = def[g]
      BY <1>1, <2>1
    <3>3. def'[f] = row
      BY <1>1, <2>1
    <3>4. \A g \in Fields \ {f} : def[g].st # "none" => def[g].name # row.name
      BY <1>6
    <3>5. \A g, h \in Fields : def'[g].st # "none" /\ def'[h].st # "none" /\ def'[g].name = def'[h].name
                                 => g = h
      BY <3>2, <3>3, <3>4 DEF FormulasIInv, FormulasTypeOK
    <3> QED
      BY <1>1, <2>3, <2>5, <3>1, <3>5, SaveTypes DEF FormulasIInv, FormulasTypeOK
  <2>7. ASSUME mischief' = {} PROVE ~Cyclic(def')
    <3>1. mischief = {} /\ ~s.stale /\ ~Padded(p)
      BY <2>1, <2>7
    <3>2. ~Cyclic(def)
      BY <3>1 DEF FormulasIInv, CycleNeedsRaceOrBlanks
    <3>3. row.formula => ~Reaches([def EXCEPT ![f] = Live(row)], f, f)
      BY <1>1, <1>2, <1>3, <1>4, <3>1 DEF FormulasIInv, SaveInv
    <3>4. \A h, k \in Fields \ {f} : Uses(def', h, k) => Uses(def, h, k)
      BY <1>1, <2>1 DEF Uses, LiveFormula
    <3>5. ~Reaches(def', f, f)
      <4>1. CASE row.formula /\ row.st = "live"
        <5>1. Live(row) = row
          BY <4>1 DEF Live, Definitions
        <5> QED
          BY <2>1, <3>3, <4>1, <5>1
      <4>2. CASE ~row.formula \/ row.st # "live"
        <5>1. \A k \in Fields : ~Uses(def', f, k)
          BY <1>1, <2>1, <4>2 DEF Uses, LiveFormula
        <5>2. ClosedUnder(def', f, {})
          BY <5>1 DEF ClosedUnder
        <5> QED
          BY <5>2, WalkStaysIn
      <4> QED
        BY <4>1, <4>2
    <3> QED
      BY <3>2, <3>4, <3>5, NewCircle
  <2> QED
    BY <2>3, <2>4, <2>6, <2>7 DEF FormulasIInv, CycleNeedsRaceOrBlanks
<1> QED
  BY <1>5, <1>6

\* The invariant is kept.
LEMMA FormulasStep == FormulasIInv /\ [FormulasNext]_formulaVars => FormulasIInv'
<1> SUFFICES ASSUME FormulasIInv, [FormulasNext]_formulaVars PROVE FormulasIInv'
  OBVIOUS
<1>1. CASE UNCHANGED formulaVars
  BY <1>1 DEF formulaVars, FormulasIInv, FormulasTypeOK, CycleNeedsRaceOrBlanks, SaveInv
<1> QED
  BY <1>1, CheckKeeps, RemoveKeeps, WriteKeeps DEF FormulasNext

-----------------------------------------------------------------------------
(* The passes *)

\* What one pass has after the field k, when g has it for the fields before.
PassStep(g, k, settled) ==
    IF k = 0 THEN settled
    ELSE IF \A h \in Fields : Uses(def, k, h) => h \in g[k - 1]
           THEN g[k - 1] \cup {k} ELSE g[k - 1] \ {k}

\* The recursion of a pass has a solution: a first length without one would
\* extend the one before.
LEMMA PassRuns ==
  ASSUME NEW settled, NEW m \in Nat
  PROVE  \E g : g = [k \in 0..m |-> PassStep(g, k, settled)]
<1> DEFINE Solved(n) == \E g : g = [k \in 0..n |-> PassStep(g, k, settled)]
           Bad == {n \in Nat : ~Solved(n)}
<1>1. SUFFICES ASSUME Bad # {} PROVE FALSE
  OBVIOUS
<1>2. PICK n \in Bad : \A j \in Bad : n <= j
  BY <1>1, LeastIndex
<1>3. CASE n = 0
  <2> DEFINE g == [k \in 0..0 |-> settled]
  <2>1. g = [k \in 0..0 |-> PassStep(g, k, settled)]
    BY DEF PassStep
  <2> QED
    BY <1>2, <1>3, <2>1
<1>4. CASE n # 0
  <2>1. n - 1 \in Nat /\ n - 1 \notin Bad
    BY <1>2, <1>4
  <2>2. PICK g : g = [k \in 0..(n - 1) |-> PassStep(g, k, settled)]
    BY <2>1
  <2> DEFINE h == [k \in 0..n |-> IF k = n THEN PassStep(g, n, settled) ELSE g[k]]
  <2>3. ASSUME NEW k \in 0..n PROVE h[k] = PassStep(h, k, settled)
    <3>1. k = 0 \/ (k - 1 \in 0..n /\ k - 1 # n)
      OBVIOUS
    <3>2. PassStep(h, k, settled) = PassStep(g, k, settled)
      BY <3>1 DEF PassStep
    <3>3. k # n => g[k] = PassStep(g, k, settled)
      BY <2>2
    <3> QED
      BY <3>2, <3>3
  <2>4. h = [k \in 0..n |-> PassStep(h, k, settled)]
    BY <2>3
  <2> QED
    BY <1>2, <2>4
<1> QED
  BY <1>3, <1>4

\* What a pass settles: a field that uses settled fields only, those before it
\* as they are after the pass, those after it as they were before.
LEMMA PassSettles ==
  ASSUME NEW settled, NEW f \in Fields, ~Uses(def, f, f)
  PROVE  f \in Pass(settled) <=>
           \A g \in Fields : Uses(def, f, g) => IF g < f THEN g \in Pass(settled) ELSE g \in settled
<1> DEFINE after == CHOOSE g : g = [k \in 0..MaxFields |-> PassStep(g, k, settled)]
<1>1. MaxFields \in Nat
  BY FormulasAssumption
<1>2. after = [k \in 0..MaxFields |-> PassStep(after, k, settled)]
  BY <1>1, PassRuns
<1>3. Pass(settled) = after[MaxFields]
  BY DEF Pass, PassStep
<1> HIDE DEF after
<1>0. after[0] = settled
  BY <1>1, <1>2 DEF PassStep
<1>4. ASSUME NEW k \in Fields
      PROVE  /\ k \in after[k] <=> \A h \in Fields : Uses(def, k, h) => h \in after[k - 1]
             /\ \A h \in Fields \ {k} : h \in after[k] <=> h \in after[k - 1]
  <2>1. k \in 0..MaxFields /\ k # 0
    BY <1>1 DEF Fields
  <2>2. after[k] = PassStep(after, k, settled)
    BY <1>2, <2>1
  <2> DEFINE All == \A h \in Fields : Uses(def, k, h) => h \in after[k - 1]
  <2>3. after[k] = IF All THEN after[k - 1] \cup {k} ELSE after[k - 1] \ {k}
    BY <2>1, <2>2 DEF PassStep
  <2> HIDE DEF All
  <2>4. /\ k \in after[k] <=> All
        /\ \A h \in Fields \ {k} : h \in after[k] <=> h \in after[k - 1]
    BY <2>3
  <2> QED
    BY <2>4 DEF All
<1> DEFINE Known(k) == \A h \in Fields : h \in after[k] <=> IF h <= k THEN h \in after[h] ELSE h \in settled
           Bad == {k \in 0..MaxFields : ~Known(k)}
<1>5. Bad = {}
  <2> SUFFICES ASSUME Bad # {} PROVE FALSE
    OBVIOUS
  <2>0. Bad \in SUBSET Nat
    BY <1>1
  <2>1. PICK k \in Bad : \A j \in Bad : k <= j
    BY <2>0, LeastIndex
  <2>2. k # 0
    BY <1>0, <2>1 DEF Fields
  <2>3. k \in Fields /\ k - 1 \in 0..MaxFields /\ k - 1 \notin Bad
    BY <1>1, <2>1, <2>2 DEF Fields
  <2>4. Known(k - 1)
    BY <2>3
  <2>5. \A h \in Fields \ {k} : h \in after[k] <=> h \in after[k - 1]
    BY <1>4, <2>3
  <2>6. \A h \in Fields \ {k} : h <= k <=> h <= k - 1
    BY <2>3 DEF Fields
  <2>7. Known(k)
    BY <2>4, <2>5, <2>6, <2>3
  <2> QED
    BY <2>1, <2>7
<1>6. \A h \in Fields : h \in Pass(settled) <=> h \in after[h]
  <2>1. Known(MaxFields)
    BY <1>1, <1>5
  <2> QED
    BY <1>1, <1>3, <2>1 DEF Fields
<1>7. Known(f - 1)
  <2>1. f - 1 \in 0..MaxFields
    BY <1>1 DEF Fields
  <2> QED
    BY <1>5, <2>1
<1>8. f \in after[f] <=> \A g \in Fields : Uses(def, f, g) => g \in after[f - 1]
  BY <1>4
<1>9. \A g \in Fields \ {f} : g \in after[f - 1] <=> IF g < f THEN g \in Pass(settled) ELSE g \in settled
  <2>1. \A g \in Fields \ {f} : g <= f - 1 <=> g < f
    BY <1>1 DEF Fields
  <2> QED
    BY <1>6, <1>7, <2>1
<1> QED
  BY <1>6, <1>8, <1>9

\* A reference to a field further down the list.
Below(p) == p \in Fields \X Fields /\ Uses(def, p[1], p[2]) /\ p[2] > p[1]
Leads(f, g) == f = g \/ Reaches(def, f, g)

\* Who uses a field leads where it leads.
LEMMA UseLeads ==
  ASSUME NEW f \in Fields, NEW g \in Fields, NEW h, Uses(def, f, g), Leads(g, h)
  PROVE  Leads(f, h)
<1> SUFFICES ASSUME NEW S \in SUBSET Fields, ClosedUnder(def, f, S) PROVE h \in S
  BY DEF Leads, Reaches, ClosedUnder
<1>1. g \in S /\ ClosedUnder(def, g, S)
  BY DEF ClosedUnder
<1> QED
  BY <1>1, WalkStaysIn DEF Leads

\* The numbers of the fields are numbers.
LEMMA FieldIndex == Fields \in SUBSET Nat
  BY FormulasAssumption DEF Fields

\* The first pass settles the formulas that lead to no reference further down.
LEMMA FirstPass ==
  ASSUME \A h \in Fields : ~Uses(def, h, h), NEW f \in Fields
  PROVE  f \in Pass({}) <=> ~\E p \in Fields \X Fields : Below(p) /\ Leads(f, p[1])
<1> DEFINE Chain(h) == \E p \in Fields \X Fields : Below(p) /\ Leads(h, p[1])
           P1 == Pass({})
<1>1. \A h, k \in Fields : h \in P1 /\ Uses(def, h, k) => k < h /\ k \in P1
  BY PassSettles
<1>2. \A h \in Fields : ~(\A k \in Fields : Uses(def, h, k) => k < h /\ k \in P1) => h \notin P1
  BY <1>1
<1>3. ASSUME NEW h \in Fields, h \notin P1
      PROVE  \E k \in Fields : Uses(def, h, k) /\ (k < h => k \notin P1)
  BY <1>3, PassSettles
<1> HIDE DEF P1
<1>4. ASSUME f \in P1 PROVE ~Chain(f)
  <2> DEFINE S == P1 \cap Fields
  <2>1. ClosedUnder(def, f, S)
    BY <1>1, <1>4 DEF ClosedUnder
  <2>2. ASSUME NEW h, Leads(f, h) PROVE h \in P1
    BY <1>4, <2>1, <2>2, WalkStaysIn DEF Leads
  <2> SUFFICES ASSUME NEW p \in Fields \X Fields, Below(p), Leads(f, p[1]) PROVE FALSE
    OBVIOUS
  <2>3. p[1] \in P1 /\ p[1] \in Fields /\ p[2] \in Fields /\ Uses(def, p[1], p[2]) /\ p[2] > p[1]
    BY <2>2 DEF Below
  <2>4. PICK i \in Fields, j \in Fields : i = p[1] /\ j = p[2]
    BY <2>3
  <2>5. j < i /\ j > i
    BY <1>1, <2>3, <2>4
  <2> QED
    BY <2>4, <2>5, FieldIndex
<1>5. ASSUME NEW h \in Fields, h \notin P1 PROVE Chain(h)
  <2> DEFINE Bad == {k \in Fields : k \notin P1 /\ ~Chain(k)}
  <2> SUFFICES Bad = {}
    BY <1>5
  <2> SUFFICES ASSUME Bad # {} PROVE FALSE
    OBVIOUS
  <2>0. Bad \in SUBSET Nat
    BY FieldIndex
  <2>1. PICK k \in Bad : \A j \in Bad : k <= j
    BY <2>0, LeastIndex
  <2>2. PICK g \in Fields : Uses(def, k, g) /\ (g < k => g \notin P1)
    BY <1>3, <2>1
  <2>3. CASE g < k
    <3>1. g \notin Bad
      BY <2>0, <2>1, <2>3, FieldIndex
    <3>2. PICK p \in Fields \X Fields : Below(p) /\ Leads(g, p[1])
      BY <2>2, <2>3, <3>1
    <3>3. Leads(k, p[1])
      BY <2>1, <2>2, <3>2, UseLeads
    <3> QED
      BY <2>1, <3>2, <3>3
  <2>4. CASE ~(g < k)
    <3>1. g > k
      BY <2>1, <2>2, <2>4, FieldIndex
    <3>2. Below(<<k, g>>)
      BY <2>1, <2>2, <3>1 DEF Below
    <3>3. Leads(k, <<k, g>>[1]) /\ <<k, g>> \in Fields \X Fields
      BY <2>1 DEF Leads
    <3> QED
      BY <2>1, <3>2, <3>3
  <2> QED
    BY <2>3, <2>4
<1> QED
  BY <1>4, <1>5 DEF P1

\* The second pass settles those whose references further down lead to no
\* other one.
LEMMA SecondPass ==
  ASSUME \A h \in Fields : ~Uses(def, h, h), NEW f \in Fields
  PROVE  f \in Pass(Pass({})) <=>
           ~\E p, q \in Fields \X Fields :
               Below(p) /\ Below(q) /\ Leads(f, p[1]) /\ Leads(p[2], q[1])
<1> DEFINE P1 == Pass({})
           P2 == Pass(P1)
           Chain(h) == \E p, q \in Fields \X Fields :
                          Below(p) /\ Below(q) /\ Leads(h, p[1]) /\ Leads(p[2], q[1])
<1>1. \A h, k \in Fields : h \in P1 /\ Uses(def, h, k) => k < h /\ k \in P1
  BY PassSettles
<1>2. \A h \in Fields : h \in P2 <=>
         \A k \in Fields : Uses(def, h, k) => IF k < h THEN k \in P2 ELSE k \in P1
  BY PassSettles
<1>3. \A h \in Fields : h \in P1 <=> ~\E p \in Fields \X Fields : Below(p) /\ Leads(h, p[1])
  BY FirstPass
<1> HIDE DEF P1, P2
<1>4. ASSUME NEW h \in Fields, h \in P1 PROVE h \in P2
  <2> DEFINE Bad == {k \in Fields : k \in P1 /\ k \notin P2}
  <2> SUFFICES ASSUME Bad # {} PROVE FALSE
    BY <1>4
  <2>0. Bad \in SUBSET Nat
    BY FieldIndex
  <2>1. PICK k \in Bad : \A j \in Bad : k <= j
    BY <2>0, LeastIndex
  <2>2. PICK g \in Fields : Uses(def, k, g) /\ ~(IF g < k THEN g \in P2 ELSE g \in P1)
    BY <1>2, <2>1
  <2>3. g < k /\ g \in P1 /\ g \notin P2
    BY <1>1, <2>1, <2>2
  <2> QED
    BY <2>0, <2>1, <2>3, FieldIndex
<1>5. ASSUME f \in P2 PROVE ~Chain(f)
  <2> DEFINE S == P2 \cap Fields
  <2>1. ClosedUnder(def, f, S)
    <3> SUFFICES ASSUME NEW h \in S \cup {f}, NEW k \in Fields, Uses(def, h, k) PROVE k \in P2
      BY DEF ClosedUnder
    <3> QED
      BY <1>2, <1>4, <1>5
  <2>2. ASSUME NEW h, Leads(f, h) PROVE h \in P2
    BY <1>5, <2>1, <2>2, WalkStaysIn DEF Leads
  <2> SUFFICES ASSUME NEW p \in Fields \X Fields, NEW q \in Fields \X Fields, Below(p), Below(q),
                      Leads(f, p[1]), Leads(p[2], q[1])
               PROVE  FALSE
    OBVIOUS
  <2>3. p[1] \in P2 /\ p[1] \in Fields /\ p[2] \in Fields /\ Uses(def, p[1], p[2]) /\ p[2] > p[1]
    BY <2>2 DEF Below
  <2>4. PICK i \in Fields, j \in Fields : i = p[1] /\ j = p[2]
    BY <2>3
  <2>5. ~(j < i)
    BY <2>3, <2>4, FieldIndex
  <2>6. j \in P1
    BY <1>2, <2>3, <2>4, <2>5
  <2> QED
    BY <1>3, <2>4, <2>6
<1>6. ASSUME NEW h \in Fields, h \notin P2 PROVE Chain(h)
  <2> DEFINE Bad == {k \in Fields : k \notin P2 /\ ~Chain(k)}
  <2> SUFFICES Bad = {}
    BY <1>6
  <2> SUFFICES ASSUME Bad # {} PROVE FALSE
    OBVIOUS
  <2>0. Bad \in SUBSET Nat
    BY FieldIndex
  <2>1. PICK k \in Bad : \A j \in Bad : k <= j
    BY <2>0, LeastIndex
  <2>2. PICK g \in Fields : Uses(def, k, g) /\ ~(IF g < k THEN g \in P2 ELSE g \in P1)
    BY <1>2, <2>1
  <2>3. CASE g < k
    <3>1. g \notin Bad /\ g \notin P2
      BY <2>0, <2>1, <2>2, <2>3, FieldIndex
    <3>2. PICK p \in Fields \X Fields, q \in Fields \X Fields :
            Below(p) /\ Below(q) /\ Leads(g, p[1]) /\ Leads(p[2], q[1])
      BY <2>2, <3>1
    <3>3. Leads(k, p[1])
      BY <2>1, <2>2, <3>2, UseLeads
    <3> QED
      BY <2>1, <3>2, <3>3
  <2>4. CASE ~(g < k)
    <3>1. g > k /\ g \notin P1
      BY <2>1, <2>2, <2>4, FieldIndex
    <3>2. PICK q \in Fields \X Fields : Below(q) /\ Leads(g, q[1])
      BY <1>3, <2>2, <3>1
    <3> DEFINE p == <<k, g>>
    <3>3. p \in Fields \X Fields /\ p[1] = k /\ p[2] = g
      BY <2>1, <2>2
    <3>4. Below(p) /\ Leads(k, p[1])
      BY <2>1, <2>2, <3>1, <3>3 DEF Below, Leads
    <3> QED
      BY <2>1, <3>2, <3>3, <3>4
  <2> QED
    BY <2>3, <2>4
<1> QED
  BY <1>5, <1>6 DEF P1, P2

\* Fields and saves stay well typed, and a field shares its name with no other
\* (CustomFieldsService).
THEOREM FormulasTyped == FormulasSpec => []FormulasTypeOK
<1>1. FormulasIInv => FormulasTypeOK
  BY DEF FormulasIInv
<1> QED
  BY <1>1, FormulasStart, FormulasStep, PTL DEF FormulasSpec

\* For any number of fields and of saves that race: formulas use each other in
\* a circle only after two saves overlapped or a name was padded, and without
\* one the two passes compute the formulas that lead to fewer than two
\* references down the list, and no others (assertNoFormulaCycle,
\* getValuesForTask).
THEOREM FormulasAreSound == FormulasSpec => []FormulasSound
<1>1. FormulasIInv => FormulasSound
  <2> SUFFICES ASSUME ~Cyclic(def), NEW f \in Fields
               PROVE  f \in Pass(Pass({})) <=>
                        ~\E p, q \in {r \in Fields \X Fields : Uses(def, r[1], r[2]) /\ r[2] > r[1]} :
                           (f = p[1] \/ Reaches(def, f, p[1])) /\ (p[2] = q[1] \/ Reaches(def, p[2], q[1]))
    BY DEF FormulasIInv, FormulasSound, TwoPassesSettle
  <2>1. ASSUME NEW h \in Fields, Uses(def, h, h) PROVE FALSE
    <3>1. Reaches(def, h, h)
      BY <2>1 DEF Reaches
    <3> QED
      BY <3>1 DEF Cyclic
  <2>2. f \in Pass(Pass({})) <=>
           ~\E p, q \in Fields \X Fields :
               Below(p) /\ Below(q) /\ Leads(f, p[1]) /\ Leads(p[2], q[1])
    BY <2>1, SecondPass
  <2> QED
    BY <2>2 DEF Below, Leads
<1> QED
  BY <1>1, FormulasStart, FormulasStep, PTL DEF FormulasSpec

-----------------------------------------------------------------------------
(* Export runs *)

JobRow == [state : {"none", "waiting", "active", "completed", "failed"}, made : 0..Attempts]

ExportType == /\ creator \in {"ok", "noAccess", "gone"}
              /\ run \in [Runs -> {"none", "queued", "running", "completed", "failed"}]
              /\ job \in [Runs -> JobRow]
              /\ proc \in [Runs -> ProcPoint]
              /\ faults \in 0..MaxFaults /\ crashes \in 0..MaxCrashes

\* A job has a processor while it is active, and attempts left unless it has
\* failed.  As long as no worker has died, the job of a completed run is done
\* or at its mail, which cannot reject.
ExportGood(r) == /\ proc[r] # "none" <=> job[r].state = "active"
                 /\ job[r].state # "failed" => job[r].made < Attempts
                 /\ run[r] = "completed" /\ crashes = 0 => proc[r] = "mail" \/ job[r].state = "completed"

ExportIInv == ExportType /\ \A r \in Runs : ExportGood(r)

LEMMA ExportsStart == Init => ExportIInv
  BY BoundAssumption DEF Init, ExportIInv, ExportType, JobRow, ExportGood, ProcPoint

ExportStatus == {"none", "queued", "running", "completed", "failed"}

\* What a step about one run leaves behind.
RunIs(r, s, j, p) == /\ run' = [run EXCEPT ![r] = s]
                     /\ job' = [job EXCEPT ![r] = j]
                     /\ proc' = [proc EXCEPT ![r] = p]

\* A step about one run, which leaves it good, leaves all of them good.
LEMMA OneRunStep ==
  ASSUME ExportIInv, NEW r \in Runs, NEW s \in ExportStatus, NEW j \in JobRow, NEW p \in ProcPoint,
         RunIs(r, s, j, p), creator' = creator, faults' \in 0..MaxFaults,
         crashes' \in 0..MaxCrashes, crashes' = 0 => crashes = 0,
         p # "none" <=> j.state = "active",
         j.state # "failed" => j.made < Attempts,
         s = "completed" /\ crashes' = 0 => p = "mail" \/ j.state = "completed"
  PROVE  ExportIInv'
<1>1. ExportType'
  BY DEF ExportIInv, ExportType, RunIs, ExportStatus
<1>2. run'[r] = s /\ job'[r] = j /\ proc'[r] = p
  BY DEF ExportIInv, ExportType, RunIs
<1>3. ASSUME NEW q \in Runs PROVE ExportGood(q)'
  <2>1. CASE q = r
    BY <1>2, <2>1 DEF ExportGood
  <2>2. CASE q # r
    <3>1. run'[q] = run[q] /\ job'[q] = job[q] /\ proc'[q] = proc[q]
      BY <2>2 DEF ExportIInv, ExportType, RunIs
    <3> QED
      BY <3>1 DEF ExportIInv, ExportGood
  <2> QED
    BY <2>1, <2>2
<1> QED
  BY <1>1, <1>3 DEF ExportIInv

\* Every step keeps the jobs and their runs in step.
LEMMA ExportsKeep == ExportIInv /\ [Next]_vars => ExportIInv'
<1> SUFFICES ASSUME ExportIInv, [Next]_vars PROVE ExportIInv'
  OBVIOUS
<1>1. /\ run \in [Runs -> {"none", "queued", "running", "completed", "failed"}]
      /\ job \in [Runs -> JobRow] /\ proc \in [Runs -> ProcPoint]
      /\ faults \in 0..MaxFaults /\ crashes \in 0..MaxCrashes
      /\ Attempts \in Nat \ {0} /\ MaxFaults \in Nat /\ MaxCrashes \in Nat
  BY BoundAssumption DEF ExportIInv, ExportType
<1>2. CASE UNCHANGED vars
  BY <1>2 DEF ExportIInv, ExportType, ExportGood, vars
<1>3. CASE ChangeAccess
  BY <1>3 DEF ChangeAccess, ExportIInv, ExportType, ExportGood
<1>4. ASSUME NEW r \in Runs,
             CreateRun(r) \/ Enqueue(r) \/ Process(r) \/ ProcFault(r) \/ ProcCrash(r)
      PROVE  ExportIInv'
  <2>1. /\ run[r] \in {"none", "queued", "running", "completed", "failed"}
        /\ job[r] \in JobRow /\ job[r].made \in 0..Attempts /\ proc[r] \in ProcPoint
        /\ run = [run EXCEPT ![r] = run[r]] /\ job = [job EXCEPT ![r] = job[r]]
        /\ proc = [proc EXCEPT ![r] = proc[r]]
    BY <1>1 DEF JobRow
  <2>2. ExportGood(r)
    BY DEF ExportIInv
  <2>3. /\ \A st \in {"none", "waiting", "active", "completed", "failed"} :
              /\ [job[r] EXCEPT !.state = st] \in JobRow
              /\ [job[r] EXCEPT !.state = st].state = st
              /\ [job[r] EXCEPT !.state = st].made = job[r].made
    BY <2>1 DEF JobRow
  <2>4. CASE CreateRun(r)
    <3>1. RunIs(r, "queued", job[r], proc[r]) /\ UNCHANGED <<creator, faults, crashes>>
      BY <2>1, <2>4 DEF CreateRun, RunIs
    <3> QED
      BY <1>1, <2>1, <2>2, <3>1, OneRunStep DEF ExportGood, ExportStatus
  <2>5. CASE Enqueue(r)
    <3> DEFINE j == [state |-> "waiting", made |-> 0]
    <3>1. j \in JobRow /\ j.state = "waiting" /\ j.made = 0
      BY <1>1 DEF JobRow
    <3>2. job' = [job EXCEPT ![r] = j] /\ run[r] = "queued" /\ job[r].state = "none"
          /\ UNCHANGED <<creator, run, proc, faults, crashes>>
      BY <2>5 DEF Enqueue
    <3> HIDE DEF j
    <3>3. RunIs(r, "queued", j, proc[r])
      BY <2>1, <3>2 DEF RunIs
    <3> QED
      BY <1>1, <2>1, <2>2, <3>1, <3>2, <3>3, OneRunStep DEF ExportGood, ExportStatus
  <2>6. CASE ProcStart(r)
    <3> DEFINE j == [job[r] EXCEPT !.state = "active"]
    <3>1. job' = [job EXCEPT ![r] = j] /\ proc' = [proc EXCEPT ![r] = "read"]
          /\ job[r].state = "waiting" /\ UNCHANGED <<creator, run, faults, crashes>>
      BY <1>1, <2>6 DEF ProcStart, ProcAt
    <3>2. j \in JobRow /\ j.state = "active" /\ j.made = job[r].made
      BY <2>3
    <3> HIDE DEF j
    <3>3. RunIs(r, run[r], j, "read")
      BY <2>1, <3>1 DEF RunIs
    <3>4. run[r] # "completed" \/ crashes # 0
      BY <2>2, <3>1 DEF ExportGood
    <3> QED
      BY <1>1, <2>1, <2>2, <3>1, <3>2, <3>3, <3>4, OneRunStep DEF ExportGood, ExportStatus, ProcPoint
  \* The steps that leave the job active.
  <2>7. ASSUME NEW p \in ProcPoint, p # "none", proc[r] # "none", proc' = [proc EXCEPT ![r] = p],
               NEW s \in {"none", "queued", "running", "completed", "failed"},
               run' = [run EXCEPT ![r] = s], s = "completed" /\ crashes = 0 => p = "mail",
               faults' \in 0..MaxFaults, UNCHANGED <<creator, job, crashes>>
        PROVE  ExportIInv'
    <3>1. RunIs(r, s, job[r], p)
      BY <2>1, <2>7 DEF RunIs
    <3>2. job[r].state = "active" /\ job[r].made < Attempts
      BY <2>2, <2>7 DEF ExportGood
    <3> QED
      BY <1>1, <2>1, <2>7, <3>1, <3>2, OneRunStep DEF ExportStatus
  <2>8. CASE ProcRead(r)
    <3> DEFINE p == IF creator = "gone" THEN "refuse" ELSE "begin"
    <3>1. proc[r] = "read" /\ proc' = [proc EXCEPT ![r] = p]
          /\ UNCHANGED <<creator, run, job, faults, crashes>>
      BY <2>8 DEF ProcRead, ProcAt
    <3>2. p \in ProcPoint /\ p # "none" /\ (run[r] = "completed" => crashes # 0)
      BY <2>2, <3>1 DEF ProcPoint, ExportGood
    <3> HIDE DEF p
    <3> QED
      BY <1>1, <2>1, <2>7, <3>1, <3>2
  <2>9. CASE ProcBegin(r)
    BY <1>1, <2>7, <2>9 DEF ProcBegin, SetRun, ProcAt, ProcPoint
  <2>10. CASE ProcExport(r)
    <3> DEFINE p == IF creator = "ok" THEN "complete" ELSE "fail"
    <3>1. proc[r] = "export" /\ proc' = [proc EXCEPT ![r] = p]
          /\ UNCHANGED <<creator, run, job, faults, crashes>>
      BY <2>10 DEF ProcExport, ProcAt
    <3>2. p \in ProcPoint /\ p # "none" /\ (run[r] = "completed" => crashes # 0)
      BY <2>2, <3>1 DEF ProcPoint, ExportGood
    <3> HIDE DEF p
    <3> QED
      BY <1>1, <2>1, <2>7, <3>1, <3>2
  <2>11. CASE ProcComplete(r)
    BY <1>1, <2>7, <2>11 DEF ProcComplete, SetRun, ProcAt, ProcPoint
  \* The steps that end the job's turn: done, or thrown back to the queue.
  <2>12. ASSUME JobOver(r), proc[r] # "none", NEW s \in {"none", "queued", "running", "completed", "failed"},
                run' = [run EXCEPT ![r] = s], UNCHANGED <<creator, faults, crashes>>
         PROVE  ExportIInv'
    <3> DEFINE j == [job[r] EXCEPT !.state = "completed"]
    <3>1. job' = [job EXCEPT ![r] = j] /\ proc' = [proc EXCEPT ![r] = "none"]
      BY <1>1, <2>12 DEF JobOver, ProcAt
    <3>2. j \in JobRow /\ j.state = "completed" /\ j.made = job[r].made
      BY <2>3
    <3> HIDE DEF j
    <3>3. RunIs(r, s, j, "none")
      BY <2>12, <3>1 DEF RunIs
    <3>4. job[r].made < Attempts
      BY <2>2, <2>12 DEF ExportGood
    <3> QED
      BY <1>1, <2>12, <3>2, <3>3, <3>4, OneRunStep DEF ExportStatus, ProcPoint
  <2>13. ASSUME Throw(r), proc[r] # "none", NEW s \in {"none", "queued", "running", "completed", "failed"},
                run' = [run EXCEPT ![r] = s], s = "completed" => crashes # 0,
                faults' \in 0..MaxFaults, UNCHANGED <<creator, crashes>>
         PROVE  ExportIInv'
    <3> DEFINE st == IF job[r].made + 1 < Attempts THEN "waiting" ELSE "failed"
               j == [state |-> st, made |-> job[r].made + 1]
    <3>1. job' = [job EXCEPT ![r] = j] /\ proc' = [proc EXCEPT ![r] = "none"]
      BY <1>1, <2>13 DEF Throw, ProcAt
    <3>2. job[r].made < Attempts
      BY <2>2, <2>13 DEF ExportGood
    <3>3. j \in JobRow /\ j.state # "active" /\ (j.state # "failed" => j.made < Attempts)
      BY <1>1, <2>1, <3>2 DEF JobRow
    <3> HIDE DEF j
    <3>4. RunIs(r, s, j, "none")
      BY <2>13, <3>1 DEF RunIs
    <3> QED
      BY <1>1, <2>13, <3>3, <3>4, OneRunStep DEF ExportStatus, ProcPoint
  <2>14. CASE ProcRefuse(r)
    BY <2>12, <2>14 DEF ProcRefuse, SetRun
  <2>15. CASE ProcMail(r)
    BY <2>1, <2>12, <2>15 DEF ProcMail
  <2>16. CASE ProcFail(r)
    BY <1>1, <2>13, <2>16 DEF ProcFail, SetRun
  <2>17. CASE ProcFault(r)
    <3>1. /\ proc[r] \notin {"none", "mail"} /\ faults' \in 0..MaxFaults
          /\ UNCHANGED <<creator, run, crashes>>
      BY <1>1, <2>17 DEF ProcFault
    <3>2. run[r] = "completed" => crashes # 0
      BY <2>2, <3>1 DEF ExportGood
    <3>3. CASE proc[r] \in {"export", "complete"}
      <4>1. proc' = [proc EXCEPT ![r] = "fail"] /\ job' = job
        BY <2>17, <3>3 DEF ProcFault, ProcAt
      <4> QED
        BY <2>1, <2>7, <3>1, <3>2, <4>1 DEF ProcPoint
    <3>4. CASE proc[r] \notin {"export", "complete"}
      <4>1. Throw(r)
        BY <2>17, <3>4 DEF ProcFault
      <4> QED
        BY <2>1, <2>13, <3>1, <3>2, <4>1
    <3> QED
      BY <3>3, <3>4
  <2>18. CASE ProcCrash(r)
    <3> DEFINE j == [job[r] EXCEPT !.state = "waiting"]
    <3>1. job' = [job EXCEPT ![r] = j] /\ proc' = [proc EXCEPT ![r] = "none"]
          /\ proc[r] # "none" /\ crashes < MaxCrashes /\ crashes' = crashes + 1
          /\ UNCHANGED <<creator, run, faults>>
      BY <1>1, <2>18 DEF ProcCrash, ProcAt
    <3>2. j \in JobRow /\ j.state = "waiting" /\ j.made = job[r].made
      BY <2>3
    <3>3. crashes' # 0 /\ crashes' <= MaxCrashes
      BY <1>1, <3>1
    <3> HIDE DEF j
    <3>4. RunIs(r, run[r], j, "none")
      BY <2>1, <3>1 DEF RunIs
    <3>5. job[r].made < Attempts /\ crashes' \in 0..MaxCrashes
      BY <1>1, <2>2, <3>1, <3>3 DEF ExportGood
    <3> QED
      BY <1>1, <2>1, <3>1, <3>2, <3>3, <3>4, <3>5, OneRunStep DEF ExportStatus, ProcPoint
  <2> QED
    BY <1>4, <2>4, <2>5, <2>6, <2>8, <2>9, <2>10, <2>11, <2>14, <2>15, <2>16, <2>17, <2>18 DEF Process
<1> QED
  BY <1>2, <1>3, <1>4 DEF Next

\* The runs, their jobs and processors stay well typed, for any number of
\* runs, attempts, faults and crashes.
THEOREM ExportsTyped == Spec => []TypeOK
<1>1. ExportIInv => TypeOK
  BY BoundAssumption DEF ExportIInv, ExportType, ExportGood, JobRow, TypeOK
<1> QED
  BY ExportsStart, ExportsKeep, <1>1, PTL DEF Spec

\* A completed export is never run again, nor marked failed, unless a worker
\* died (ExportsProcessor.process): the part of ExportsEndOnce that no step
\* may violate.
THEOREM CompletedExportsStay == Spec => CompletedStays
<1> DEFINE Stays == \A r \in Runs : run[r] = "completed" => run'[r] = "completed" \/ crashes' > 0
<1>1. ExportIInv /\ [Next]_vars => [Stays]_vars
  <2> SUFFICES ASSUME ExportIInv, [Next]_vars, NEW q \in Runs, run[q] = "completed",
                      ~(crashes' > 0)
               PROVE  run'[q] = "completed"
    OBVIOUS
  <2>1. run \in [Runs -> {"none", "queued", "running", "completed", "failed"}] /\ crashes \in Nat
    BY BoundAssumption DEF ExportIInv, ExportType
  <2>2. crashes' \in Nat
    BY ExportsKeep, BoundAssumption DEF ExportIInv, ExportType
  <2>3. CASE run' = run
    BY <2>3
  <2>4. ASSUME NEW r \in Runs, CreateRun(r) PROVE run'[q] = "completed"
    BY <2>1, <2>4 DEF CreateRun
  <2>5. ASSUME NEW r \in Runs, proc[r] \notin {"none", "mail"}, crashes' = crashes,
               NEW s, run' = [run EXCEPT ![r] = s]
        PROVE  run'[q] = "completed"
    <3>1. crashes = 0
      BY <2>1, <2>5
    <3>2. q # r
      BY <2>5, <3>1 DEF ExportIInv, ExportGood
    <3> QED
      BY <2>1, <2>5, <3>2
  <2>6. ASSUME NEW r \in Runs, ProcRefuse(r) \/ ProcBegin(r) \/ ProcComplete(r) \/ ProcFail(r)
        PROVE  run'[q] = "completed"
    BY <2>5, <2>6 DEF ProcRefuse, ProcBegin, ProcComplete, ProcFail, SetRun
  <2>7. ASSUME NEW r \in Runs, Enqueue(r) \/ ProcStart(r) \/ ProcRead(r) \/ ProcExport(r) \/ ProcMail(r)
                               \/ ProcFault(r) \/ ProcCrash(r)
        PROVE  run'[q] = "completed"
    BY <2>7 DEF Enqueue, ProcStart, ProcRead, ProcExport, ProcMail, ProcFault, ProcCrash
  <2>8. CASE UNCHANGED vars \/ ChangeAccess
    BY <2>8 DEF vars, ChangeAccess
  <2> QED
    BY <2>4, <2>6, <2>7, <2>8 DEF Next, Process
<1> QED
  BY ExportsStart, ExportsKeep, <1>1, PTL DEF Spec, CompletedStays
-----------------------------------------------------------------------------
(* The services side by side *)

\* Each behaviour of the services together is one of each of them.
LEMMA ServicesSideBySide ==
  MCSpec => /\ Spec /\ SourceImportsSpec /\ CodeEventsSpec /\ AiTriageSpec /\ FormulasSpec
            /\ WorklogSpec /\ NextRunSpec /\ PomodoroSpec /\ SnoozeSpec /\ AutomationsSpec
<1>1. MCInit => /\ Init /\ SourceImportsInit /\ CodeEventsInit /\ AiTriageInit /\ FormulasInit
                /\ WorklogInit /\ NextRunInit /\ PomodoroInit /\ SnoozeInit /\ AutomationsInit
  BY DEF MCInit
<1>2. [MCNext]_mcVars => /\ [Next]_vars /\ [SourceImportsNext]_sourceImportVars
                         /\ [CodeEventsNext]_codeEventVars /\ [AiTriageNext]_aiVars
                         /\ [FormulasNext]_formulaVars /\ [WorklogNext]_worklogVars
                         /\ [NextRunNext]_nextRunVars /\ [PomodoroNext]_pomodoroVars
                         /\ [SnoozeNext]_snoozeVars /\ [AutomationsNext]_automationVars
  BY DEF MCNext, mcVars
<1> QED
  BY <1>1, <1>2, PTL DEF MCSpec, Spec, SourceImportsSpec, CodeEventsSpec, AiTriageSpec, FormulasSpec,
                         WorklogSpec, NextRunSpec, PomodoroSpec, SnoozeSpec, AutomationsSpec

\* The state of the ten services stays well typed, for any values of their
\* parameters and any finite set of standups.
THEOREM ServicesTyped ==
  ASSUME IsFiniteSet(Standups)
  PROVE  MCSpec => []MCTypeOK
<1>1. AiTriageSpec => []AiTriageTypeOK
  BY TriageTyped
<1>2. /\ TypeOK /\ SourceImportsTypeOK /\ CodeEventsTypeOK /\ AiTriageTypeOK /\ FormulasTypeOK
      /\ WorklogTypeOK /\ NextRunTypeOK /\ PomodoroTypeOK /\ SnoozeTypeOK /\ AutomationsTypeOK
      => MCTypeOK
  BY DEF MCTypeOK
<1> QED
  BY ServicesSideBySide, <1>1, <1>2, ExportsTyped, SourceImportsTyped, EventsTyped, FormulasTyped,
     WorklogTyped, NextRunTyped, TimerTyped, SnoozeTyped, AutomationsTyped, PTL
=============================================================================
