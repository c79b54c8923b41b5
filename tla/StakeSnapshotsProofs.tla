------------------------ MODULE StakeSnapshotsProofs ------------------------
(***************************************************************************)
(* The seed, the curve and what is derived from it in StakeSnapshots, for  *)
(* any chain of transactions, any lengths of days and months and any       *)
(* number of captures, builds and aborts.  The calendar and the windows of *)
(* the build come first; then the invariants, with what the replay of a    *)
(* stretch of the chain computes taken from StakeReplayProofs.             *)
(***************************************************************************)
EXTENDS StakeReplayProofs

------------------------------------------------------------------------------
(* Multiples. *)

Multiples(n) == {x \in Nat : x % n = 0}

LEMMA Division ==
  ASSUME NEW n \in Int, n > 0, NEW x \in Int
  PROVE  x \div n \in Int /\ x % n \in 0..(n - 1) /\ x = n * (x \div n) + (x % n)
<1>1. x \div n \in Int /\ x % n \in 0..(n - 1)
  OBVIOUS
<1>2. x = n * (x \div n) + (x % n)
  BY Z3T(20)
<1> QED
  BY <1>1, <1>2

\* The next multiple is n away.
LEMMA MultiplesApart ==
  ASSUME NEW n \in Nat, n > 0, NEW x \in Multiples(n), NEW y \in Multiples(n), x < y
  PROVE  x + n <= y
<1> DEFINE a == x \div n
           b == y \div n
           d == b - a
<1>1. a \in Int /\ b \in Int /\ x = n * a /\ y = n * b /\ x \in Nat /\ y \in Nat
  <2>1. x \in Int /\ y \in Int /\ n \in Int /\ x % n = 0 /\ y % n = 0
    BY DEF Multiples
  <2>2. a \in Int /\ b \in Int /\ x = n * a + 0 /\ y = n * b + 0
    BY <2>1, Division
  <2> QED
    BY <2>2 DEF Multiples
<1> HIDE DEF a, b
<1>2. n * b - n * a = n * d /\ d \in Int /\ n * a \in Int /\ n * b \in Int
  BY <1>1
<1>3. y - x = n * d
  BY <1>1, <1>2
<1> HIDE DEF d
<1>4. ASSUME d <= 0 PROVE FALSE
  <2>1. n * d <= n * 0
    BY <1>2, <1>4
  <2> QED
    BY <1>1, <1>2, <1>3, <2>1
<1>5. d >= 1
  BY <1>2, <1>4
<1>6. n * d >= n * 1
  BY <1>2, <1>5
<1> QED
  BY <1>1, <1>3, <1>6

\* A number less its remainder is a multiple, and so is the sum of a multiple and n.
LEMMA MultipleBelow ==
  ASSUME NEW n \in Nat, n > 0, NEW x \in Nat
  PROVE  x - (x % n) \in Multiples(n) /\ x - (x % n) <= x /\ x < x - (x % n) + n
<1> DEFINE a == x \div n
           r == x % n
           y == x - r
           b == y \div n
           s == y % n
           d == b - a
<1>1. a \in Int /\ r \in 0..(n - 1) /\ x = n * a + r
  BY Division
<1>2. y \in Int /\ y = n * a /\ x - r <= x /\ x < x - r + n
  <2> HIDE DEF a, r
  <2>1. n * a \in Int
    BY <1>1
  <2> QED
    BY <1>1, <2>1
<1>3. b \in Int /\ s \in 0..(n - 1) /\ y = n * b + s
  BY <1>2, Division
<1> HIDE DEF a, b, r, s
<1>4. n * b - n * a = n * d /\ d \in Int /\ n * a \in Int /\ n * b \in Int
  BY <1>1, <1>3
<1>5. n * d = 0 - s
  BY <1>2, <1>3, <1>4
<1> HIDE DEF d, y
<1>6. ASSUME d >= 1 PROVE FALSE
  <2>1. n * d >= n * 1
    BY <1>4, <1>6
  <2> QED
    BY <1>3, <1>4, <1>5, <2>1
<1>7. ASSUME d <= -1 PROVE FALSE
  <2>1. n * d <= n * (-1)
    BY <1>4, <1>7
  <2> QED
    BY <1>3, <1>4, <1>5, <2>1
<1>8. d = 0
  BY <1>4, <1>6, <1>7
<1>9. s = 0
  BY <1>3, <1>5, <1>8
<1>10. y >= 0
  <2>1. r <= x
    <3>1. CASE a >= 0
      <4>1. n * a >= n * 0
        BY <1>1, <3>1
      <4> QED
        BY <1>1, <1>4, <4>1
    <3>2. CASE a <= -1
      <4>1. n * a <= n * (-1)
        BY <1>1, <3>2
      <4> QED
        BY <1>1, <1>4, <4>1
    <3> QED
      BY <1>1, <3>1, <3>2
  <2> QED
    BY <1>1, <2>1 DEF y
<1> QED
  BY <1>2, <1>9, <1>10 DEF Multiples, s, y, r

LEMMA NextMultiple ==
  ASSUME NEW n \in Nat, n > 0, NEW x \in Multiples(n)
  PROVE  x + n \in Multiples(n)
<1> DEFINE y == x + n
           z == y - (y % n)
<1>1. x \in Nat /\ y \in Nat
  BY DEF Multiples
<1>2. z \in Multiples(n) /\ z <= y /\ y < z + n
  BY <1>1, MultipleBelow
<1>3. z \in Nat /\ y % n \in Int
  BY <1>1, <1>2 DEF Multiples
<1> HIDE DEF z
<1>4. x < z
  BY <1>1, <1>2, <1>3
<1>5. x + n <= z
  BY <1>2, <1>4, MultiplesApart
<1>6. z = y
  BY <1>1, <1>2, <1>3, <1>5
<1> QED
  BY <1>2, <1>6

LEMMA PreviousMultiple ==
  ASSUME NEW n \in Nat, n > 0, NEW x \in Nat, x + n \in Multiples(n)
  PROVE  x \in Multiples(n)
<1> DEFINE z == x - (x % n)
<1>1. z \in Multiples(n) /\ z <= x /\ x < z + n /\ z + n \in Multiples(n)
  BY MultipleBelow, NextMultiple
<1>2. z \in Nat
  BY <1>1 DEF Multiples
<1> HIDE DEF z
<1>3. ASSUME z < x PROVE FALSE
  <2>1. z + n < x + n
    BY <1>2, <1>3
  <2>2. z + n + n <= x + n
    BY <1>1, <2>1, MultiplesApart
  <2> QED
    BY <1>1, <1>2, <2>2
<1>4. z = x
  BY <1>1, <1>2, <1>3
<1> QED
  BY <1>1, <1>4

------------------------------------------------------------------------------
(* The curve.                                                              *)

Days == Multiples(SecondsPerDay)
CursorDay == stake_snapshot_day_start(build.cursor)
LastBuilt(day) == day \in BuiltDays /\ \A d \in BuiltDays : d <= day

\* A build starts where the saved state stops, or right after the boundary day when there is
\* none, and then at most that one day has been built.
CurveInv ==
  /\ BuiltDays \subseteq Days
  /\ IF resume = << >>
     THEN \A d \in BuiltDays : d = BoundaryDay + SecondsPerDay
     ELSE /\ resume[1].day \in Days /\ resume[1].day > BoundaryDay
          /\ LastBuilt(resume[1].day + SecondsPerDay)
          /\ daily[resume[1].day] = Point(resume[1].state)
  /\ build.at = "fold" =>
       /\ build.cursor \in Nat
       /\ IF resume = << >>
          THEN build.from = BoundaryDay + SecondsPerDay /\ build.from <= CursorDay
          ELSE build.from = resume[1].day + SecondsPerDay /\ build.from < CursorDay

\* The months that have a built day, and the rows of the seed's own day and month.
MonthInv ==
  /\ BuiltDays # {} =>
       \A m \in {x \in 0 .. Max(BuiltDays) : x % MonthSeconds = 0 /\ x > BoundaryDay} :
         /\ m \in DOMAIN monthly
         /\ monthly[m] = daily[Max({d \in DOMAIN daily : d < m + MonthSeconds})].masters
  /\ BoundaryDay \in DOMAIN daily /\ daily[BoundaryDay].source = "legacy"
  /\ MonthStart(BoundaryDay) \in DOMAIN monthly /\ monthly[MonthStart(BoundaryDay)] = 0

LEMMA CalendarFacts ==
  /\ SecondsPerDay \in Nat /\ SecondsPerDay > 0 /\ MonthSeconds \in Nat /\ MonthSeconds > 0
  /\ \A ts \in Nat : stake_snapshot_day_start(ts) \in Days
  /\ \A d \in Days : d + SecondsPerDay \in Days
  /\ \A d, e \in Days : d < e => d + SecondsPerDay <= e
  /\ BoundaryDay \in Days /\ Days \subseteq Nat
<1>1. SecondsPerDay \in Nat /\ SecondsPerDay > 0 /\ DaysPerMonth \in Nat /\ DaysPerMonth >= 1 /\ BoundaryTime \in Nat
  BY StakeAssumption
<1>2. SecondsPerDay * DaysPerMonth >= SecondsPerDay * 1 /\ SecondsPerDay * DaysPerMonth \in Nat
  BY <1>1
<1>3. MonthSeconds \in Nat /\ MonthSeconds > 0
  BY <1>1, <1>2 DEF MonthSeconds
<1>4. \A ts \in Nat : stake_snapshot_day_start(ts) \in Days
  BY <1>1, MultipleBelow DEF stake_snapshot_day_start, Days
<1>5. \A d \in Days : d + SecondsPerDay \in Days
  BY <1>1, NextMultiple DEF Days
<1>6. \A d, e \in Days : d < e => d + SecondsPerDay <= e
  BY <1>1, MultiplesApart DEF Days
<1>7. BoundaryDay \in Days
  BY <1>1, <1>4 DEF BoundaryDay
<1>8. Days \subseteq Nat
  BY DEF Days, Multiples
<1> QED
  BY <1>1, <1>3, <1>4, <1>5, <1>6, <1>7, <1>8

\* The window of a build is the days from its first to its last.
LEMMA WindowDays ==
  ASSUME NEW first \in Days, NEW last \in Days, NEW to, to = last + SecondsPerDay
  PROVE  DaysBetween(first, to) = {d \in Days : first <= d /\ d <= last}
<1> DEFINE window == DaysBetween(first, to)
<1>0. SecondsPerDay \in Nat /\ SecondsPerDay > 0 /\ first \in Nat /\ last \in Nat
  BY CalendarFacts
<1>1. \A d : d \in window <=> d \in first .. (to - 1) /\ d % SecondsPerDay = 0
  BY Zenon DEF DaysBetween
<1> HIDE DEF window
<1>2. ASSUME NEW d \in window PROVE d \in Days /\ first <= d /\ d <= last
  <2>1. d \in first .. (to - 1) /\ d % SecondsPerDay = 0
    BY <1>1
  <2>2. d \in Nat /\ first <= d /\ d < last + SecondsPerDay
    BY <1>0, <2>1
  <2>3. d \in Days
    BY <2>1, <2>2 DEF Days, Multiples
  <2>4. ~(last < d)
    BY <1>0, <2>2, <2>3, CalendarFacts
  <2> QED
    BY <1>0, <2>2, <2>3, <2>4
<1>3. ASSUME NEW d \in Days, first <= d, d <= last PROVE d \in window
  <2>1. d \in Nat /\ d % SecondsPerDay = 0
    BY DEF Days, Multiples
  <2>2. d \in first .. (to - 1)
    BY <1>0, <1>3, <2>1
  <2> QED
    BY <1>1, <2>1, <2>2
<1>4. window = {d \in Days : first <= d /\ d <= last}
  BY <1>2, <1>3
<1> QED
  BY <1>4 DEF window

\* The state the fold of a build reaches at the end of a day.
Rebuilt(d) == StateAt(build.state, load_stake_snapshot_events(build.from, build.cursor), d)

\* What the commit of a build writes (project_stake_snapshots_forward): the days from the start
\* of the window to the cursor's day and no others, and the state of the day before the last.
LEMMA CommitWrites ==
  ASSUME CurveInv, CommitBuild
  PROVE  LET window == DaysBetween(build.from, CursorDay + SecondsPerDay)
         IN /\ CursorDay \in Days /\ build.from \in Days /\ build.from <= CursorDay /\ build.from > BoundaryDay
            /\ window = {d \in Days : build.from <= d /\ d <= CursorDay}
            /\ DOMAIN daily' = window \union DOMAIN daily
            /\ \A d \in window : daily'[d].source = "projector" /\ daily'[d] = Point(Rebuilt(d))
            /\ \A d \in DOMAIN daily : d \notin window => daily'[d] = daily[d]
            /\ BuiltDays' = window \union BuiltDays
            /\ \A d \in BuiltDays : d <= build.from
            /\ CursorDay \in BuiltDays' /\ \A d \in BuiltDays' : d <= CursorDay
            /\ IF build.from < CursorDay
               THEN /\ resume' = << [day |-> CursorDay - SecondsPerDay, state |-> Rebuilt(CursorDay - SecondsPerDay)] >>
                    /\ CursorDay - SecondsPerDay \in window
               ELSE resume' = << >> /\ resume = << >>
<1> DEFINE last == CursorDay
           first == build.from
           to == last + SecondsPerDay
           window == DaysBetween(first, to)
           txs == load_stake_snapshot_events(build.from, build.cursor)
           At(d) == Rebuilt(d)
           points == [d \in window |-> Point(At(d))]
<1>0. build.at = "fold" /\ build.cursor \in Nat
  BY DEF CommitBuild, CurveInv
<1>1. /\ last \in Days /\ first \in Days /\ first <= last /\ first > BoundaryDay
      /\ last \in Nat /\ first \in Nat /\ BoundaryDay \in Nat
      /\ \A d \in BuiltDays : d <= first
      /\ first = last => resume = << >>
  <2>1. last \in Days /\ last \in Nat /\ BoundaryDay \in Nat
    BY <1>0, CalendarFacts DEF CursorDay
  <2>2. CASE resume = << >>
    <3>1. first = BoundaryDay + SecondsPerDay /\ first <= last /\ \A d \in BuiltDays : d = BoundaryDay + SecondsPerDay
      BY <1>0, <2>2 DEF CurveInv
    <3> QED
      BY <2>1, <2>2, <3>1, CalendarFacts
  <2>3. CASE resume # << >>
    <3>1. /\ first = resume[1].day + SecondsPerDay /\ first < last
          /\ resume[1].day \in Days /\ resume[1].day > BoundaryDay
          /\ \A d \in BuiltDays : d <= resume[1].day + SecondsPerDay
      BY <1>0, <2>3 DEF CurveInv, LastBuilt
    <3>2. first \in Days /\ first \in Nat /\ resume[1].day \in Nat /\ SecondsPerDay \in Nat
      BY <3>1, CalendarFacts
    <3>3. first > BoundaryDay /\ first <= last /\ first # last
      BY <2>1, <3>1, <3>2
    <3>4. \A d \in BuiltDays : d <= first
      BY <3>1
    <3> QED
      BY <2>1, <3>2, <3>3, <3>4
  <2> QED
    BY <2>2, <2>3
<1>2. window = {d \in Days : first <= d /\ d <= last}
  BY <1>1, WindowDays
<1>3. /\ daily' = Upsert(points, daily)
      /\ resume' = save_stake_snapshot_resume(
                     IF to - 2 * SecondsPerDay < first THEN << >>
                     ELSE << [day |-> to - 2 * SecondsPerDay, state |-> At(to - 2 * SecondsPerDay)] >>)
  <2> DEFINE built == build_stake_snapshot_daily_points(build.state, txs, first, to)
  <2>1. daily' = Upsert(built.points, daily) /\ resume' = save_stake_snapshot_resume(built.closed)
    BY Zenon DEF CommitBuild, upsert_stake_snapshot_daily_points, CursorDay
  <2> HIDE DEF to, txs
  <2>2. /\ built.points = points
        /\ built.closed = IF to - 2 * SecondsPerDay < first THEN << >>
                          ELSE << [day |-> to - 2 * SecondsPerDay, state |-> At(to - 2 * SecondsPerDay)] >>
    <3> DEFINE closed == IF to - 2 * SecondsPerDay < first THEN << >>
                         ELSE << [day |-> to - 2 * SecondsPerDay, state |-> At(to - 2 * SecondsPerDay)] >>
    <3>1. built = [points |-> points, closed |-> closed]
      BY Zenon DEF build_stake_snapshot_daily_points, Rebuilt, txs
    <3> HIDE DEF built, closed, points
    <3>2. built.points = points /\ built.closed = closed
      BY <3>1
    <3> QED
      BY <3>2 DEF closed
  <2> QED
    BY <2>1, <2>2, Zenon
<1> HIDE DEF At, txs
<1>4. DOMAIN points = window /\ \A d \in window : points[d] = Point(At(d))
  OBVIOUS
<1> HIDE DEF points
<1>5. /\ DOMAIN daily' = window \union DOMAIN daily
      /\ \A d \in window : daily'[d] = Point(At(d))
      /\ \A d \in DOMAIN daily : d \notin window => daily'[d] = daily[d]
  BY <1>3, <1>4 DEF Upsert
<1> HIDE DEF window
<1>6. \A d \in window : daily'[d].source = "projector"
  BY <1>5 DEF Point
<1>7. BuiltDays' = window \union BuiltDays
  BY <1>5, <1>6 DEF BuiltDays
<1>8. last \in window
  BY <1>1, <1>2
<1>9. last \in BuiltDays' /\ \A d \in BuiltDays' : d <= last
  <2>1. BuiltDays \subseteq Nat /\ Days \subseteq Nat
    BY CalendarFacts DEF CurveInv
  <2> QED
    BY <1>1, <1>2, <1>7, <1>8, <2>1
<1>10. ASSUME first < last
       PROVE  /\ resume' = << [day |-> last - SecondsPerDay, state |-> At(last - SecondsPerDay)] >>
              /\ last - SecondsPerDay \in window
  <2>1. SecondsPerDay \in Nat /\ first + SecondsPerDay <= last
    BY <1>1, <1>10, CalendarFacts
  <2>2. to - 2 * SecondsPerDay = last - SecondsPerDay /\ ~(last - SecondsPerDay < first)
    BY <1>1, <2>1
  <2>3. resume' = << [day |-> last - SecondsPerDay, state |-> At(last - SecondsPerDay)] >>
    BY <1>3, <2>2 DEF save_stake_snapshot_resume
  <2>4. last - SecondsPerDay \in Days
    <3> DEFINE e == last - SecondsPerDay
    <3>1. e \in Nat /\ e + SecondsPerDay = last
      BY <1>1, <2>1
    <3> QED
      BY <3>1, PreviousMultiple, <1>1, CalendarFacts DEF Days
  <2>5. last - SecondsPerDay \in window
    BY <1>1, <1>2, <2>1, <2>4
  <2> QED
    BY <1>5, <2>3, <2>5
<1>11. ASSUME ~(first < last) PROVE resume' = << >> /\ resume = << >>
  <2>1. first = last /\ resume = << >>
    BY <1>1, <1>11
  <2>2. SecondsPerDay \in Nat /\ SecondsPerDay > 0
    BY CalendarFacts
  <2>3. to - 2 * SecondsPerDay < first
    BY <1>1, <2>1, <2>2
  <2> QED
    BY <1>3, <2>1, <2>3 DEF save_stake_snapshot_resume
<1> QED
  BY <1>1, <1>2, <1>5, <1>6, <1>7, <1>9, <1>10, <1>11 DEF window, At

LEMMA CurveInit ==
  ASSUME Init
  PROVE  ChainInv /\ CurveInv /\ MonthInv
<1>1. ChainInv
  <2> DEFINE b == [ts |-> BoundaryTime, op |-> [do |-> "none"]]
  <2>1. chain = <<b>> /\ b.ts = BoundaryTime /\ indexed = 0
    BY DEF Init
  <2> HIDE DEF b
  <2>2. chain \in Seq({b}) /\ Len(chain) = 1 /\ chain[1] = b
    BY <2>1
  <2>3. \A i \in 1..Len(chain) : i = 1
    BY <2>2
  <2>4. \A i \in 1..Len(chain) : chain[i].ts \in Nat
    BY <2>1, <2>2, <2>3, StakeAssumption
  <2>5. (\E S : chain \in Seq(S)) /\ Len(chain) > 0 /\ indexed \in 0..Len(chain)
    <3>1. \E S : chain \in Seq(S)
      BY <2>2, Zenon
    <3> QED
      BY <2>1, <2>2, <3>1
  <2> QED
    BY <2>4, <2>5 DEF ChainInv
<1>2. /\ DOMAIN daily = {BoundaryDay} /\ daily[BoundaryDay].source = "legacy"
      /\ DOMAIN monthly = {MonthStart(BoundaryDay)} /\ monthly[MonthStart(BoundaryDay)] = 0
      /\ resume = << >> /\ build.at = "idle"
  BY DEF Init, Idle
<1>3. BuiltDays = {}
  BY <1>2 DEF BuiltDays
<1> QED
  BY <1>1, <1>2, <1>3 DEF CurveInv, MonthInv

\* Only the commit of a build writes the tables of the curve.
LEMMA TablesKept ==
  ASSUME CurveInv, MonthInv, UNCHANGED <<daily, monthly, resume>>, UNCHANGED build \/ build'.at = "idle"
  PROVE  CurveInv' /\ MonthInv'
<1>1. BuiltDays' = BuiltDays /\ \A d : LastBuilt(d)' <=> LastBuilt(d)
  BY DEF BuiltDays, LastBuilt
<1>2. MonthInv'
  BY <1>1 DEF MonthInv
<1>3. CASE UNCHANGED build
  BY <1>1, <1>2, <1>3 DEF CurveInv, LastBuilt, CursorDay
<1>4. CASE build'.at = "idle"
  BY <1>1, <1>2, <1>4 DEF CurveInv, LastBuilt
<1> QED
  BY <1>3, <1>4

\* The chain and what is stored of it.
LEMMA ChainStep ==
  ASSUME ChainInv, [Next]_vars
  PROVE  ChainInv'
<1>1. ASSUME NEW op, NEW gap \in Gaps, ProduceBlock(op, gap) PROVE ChainInv'
  <2> DEFINE b == [ts |-> Tip.ts + gap, op |-> op]
  <2>1. PICK S : chain \in Seq(S)
    BY DEF ChainInv
  <2>2. chain' = Append(chain, b) /\ indexed' = indexed /\ b.ts = Tip.ts + gap
    BY <1>1 DEF ProduceBlock
  <2>3. Len(chain) \in Nat /\ Len(chain) > 0 /\ Len(chain) \in 1..Len(chain)
    BY <2>1 DEF ChainInv
  <2>4. b.ts \in Nat
    BY <2>2, <2>3, StakeAssumption DEF ChainInv, Tip
  <2> HIDE DEF b
  <2>5. chain \in Seq(S \union {b})
    BY <2>1
  <2>6. chain' \in Seq(S \union {b}) /\ Len(chain') = Len(chain) + 1 /\ chain'[Len(chain) + 1] = b
    BY <2>2, <2>5
  <2>7. \A i \in 1..Len(chain) : chain'[i] = chain[i]
    BY <2>2, <2>5
  <2>8. \A i \in 1..Len(chain') : chain'[i].ts \in Nat
    <3> TAKE i \in 1..Len(chain')
    <3>1. i \in 1..Len(chain) \/ i = Len(chain) + 1
      BY <2>3, <2>6
    <3> QED
      BY <2>4, <2>6, <2>7, <3>1 DEF ChainInv
  <2>9. indexed' \in 0..Len(chain')
    BY <2>2, <2>3, <2>6 DEF ChainInv
  <2> QED
    BY <2>3, <2>6, <2>8, <2>9 DEF ChainInv
<1>2. CASE IndexBlock
  <2>1. Len(chain) \in Nat
    BY DEF ChainInv
  <2> QED
    BY <1>2, <2>1 DEF ChainInv, IndexBlock
<1>3. CASE UNCHANGED <<chain, indexed>>
  BY <1>3 DEF ChainInv
<1>4. CASE SyncAccounts \/ BeginCapture \/ CaptureEvents \/ CommitCapture \/ PlanBuild \/ CommitBuild \/ Abort
  BY <1>3, <1>4 DEF SyncAccounts, BeginCapture, CaptureEvents, CommitCapture, PlanBuild, CommitBuild, Abort
<1>5. CASE UNCHANGED vars
  BY <1>3, <1>5 DEF vars
<1> QED
  BY <1>1, <1>2, <1>4, <1>5, Zenon DEF Next

\* The plan of a build continues the curve (project_stake_snapshots_forward up to its fold).
LEMMA PlanContinues ==
  ASSUME ChainInv, CurveInv, MonthInv, PlanBuild
  PROVE  CurveInv' /\ MonthInv'
<1>0. UNCHANGED <<daily, monthly, resume>>
  BY DEF PlanBuild, tables
<1>1. BuiltDays' = BuiltDays /\ \A d : LastBuilt(d)' <=> LastBuilt(d)
  BY <1>0 DEF BuiltDays, LastBuilt
<1>2. MonthInv'
  BY <1>0, <1>1 DEF MonthInv
<1> DEFINE cursor == load_stake_snapshot_cursor_timestamp
           last == stake_snapshot_day_start(cursor)
<1>3. indexed # 0 /\ ~(BoundaryDay >= last) /\ ~(BuiltDays # {} /\ Max(BuiltDays) >= last)
  BY DEF PlanBuild, NothingToBuild
<1>4. cursor \in Nat
  <2>1. Len(chain) \in Nat
    BY DEF ChainInv
  <2> QED
    BY <1>3, <2>1 DEF ChainInv, load_stake_snapshot_cursor_timestamp
<1>5. /\ build'.at = "fold" /\ build'.cursor = cursor
      /\ build'.from = IF MayResume THEN resume[1].day + SecondsPerDay ELSE BoundaryDay + SecondsPerDay
  BY DEF PlanBuild, load_stake_snapshot_resume
<1>6. CursorDay' = last
  BY <1>5 DEF CursorDay, stake_snapshot_day_start
<1> HIDE DEF cursor
<1>7. last \in Days /\ last \in Nat /\ BoundaryDay \in Days /\ BoundaryDay \in Nat /\ SecondsPerDay \in Nat
  BY <1>4, CalendarFacts
<1> HIDE DEF last
<1>8. CASE resume = << >>
  <2>1. ~MayResume
    BY <1>8 DEF MayResume
  <2>2. BoundaryDay + SecondsPerDay <= last
    BY <1>3, <1>7, CalendarFacts
  <2> QED
    BY <1>0, <1>1, <1>2, <1>4, <1>5, <1>6, <1>8, <2>1, <2>2 DEF CurveInv
<1>9. CASE resume # << >>
  <2> DEFINE top == resume[1].day + SecondsPerDay
  <2>1. /\ resume[1].day > BoundaryDay /\ BuiltDays \subseteq Nat /\ top \in BuiltDays
        /\ \A d \in BuiltDays : d <= top
    BY <1>9, CalendarFacts DEF CurveInv, LastBuilt
  <2> HIDE DEF top
  <2>2. Max(BuiltDays) = top
    BY <2>1, MaxIs
  <2>3. MayResume
    BY <1>9, <2>1, <2>2 DEF MayResume, top
  <2>4. top < last
    BY <1>3, <1>7, <2>1, <2>2
  <2> QED
    BY <1>0, <1>1, <1>2, <1>4, <1>5, <1>6, <1>9, <2>3, <2>4 DEF CurveInv, LastBuilt, top
<1> QED
  BY <1>8, <1>9

\* The commit of a build keeps the curve whole: the saved state is the point of the day before
\* the last, and every month from the one after the seed's to the cursor's is written again.
LEMMA CommitContinues ==
  ASSUME CurveInv, MonthInv, CommitBuild
  PROVE  CurveInv' /\ MonthInv'
<1> DEFINE last == CursorDay
           first == build.from
           to == last + SecondsPerDay
           window == {d \in Days : first <= d /\ d <= last}
<1>1. /\ last \in Days /\ first \in Days /\ first <= last /\ first > BoundaryDay
      /\ DOMAIN daily' = window \union DOMAIN daily
      /\ \A d \in DOMAIN daily : d \notin window => daily'[d] = daily[d]
      /\ BuiltDays' = window \union BuiltDays
      /\ last \in BuiltDays' /\ \A d \in BuiltDays' : d <= last
      /\ first < last => \E state : /\ resume' = << [day |-> last - SecondsPerDay, state |-> state] >>
                                    /\ daily'[last - SecondsPerDay] = Point(state)
      /\ ~(first < last) => resume' = << >>
  BY CommitWrites
<1>2. /\ last \in Nat /\ first \in Nat /\ BoundaryDay \in Nat /\ SecondsPerDay \in Nat /\ SecondsPerDay > 0
      /\ Days \subseteq Nat /\ MonthSeconds \in Nat /\ MonthSeconds > 0 /\ BoundaryDay \in Days
  BY <1>1, CalendarFacts
<1>3. build'.at # "fold"
  BY DEF CommitBuild, Idle
<1>4. monthly' = upsert_stake_snapshot_monthlies_from_daily(daily', stake_snapshot_next_month_start(BoundaryDay), to)
  BY Zenon DEF CommitBuild, CursorDay
<1> HIDE DEF last, first
<1>5. BuiltDays' \subseteq Days
  BY <1>1 DEF CurveInv
<1>6. Max(BuiltDays') = last
  BY <1>1, <1>2, <1>5, MaxIs
<1>7. CurveInv'
  <2>1. CASE first < last
    <3>1. PICK state : /\ resume' = << [day |-> last - SecondsPerDay, state |-> state] >>
                       /\ daily'[last - SecondsPerDay] = Point(state)
      BY <1>1, <2>1
    <3>2. resume' # << >> /\ resume'[1].day = last - SecondsPerDay /\ resume'[1].state = state
      BY <3>1
    <3>3. first + SecondsPerDay <= last
      BY <1>1, <2>1, CalendarFacts
    <3>4. last - SecondsPerDay \in Nat /\ last - SecondsPerDay > BoundaryDay /\ last - SecondsPerDay + SecondsPerDay = last
      BY <1>1, <1>2, <3>3
    <3>5. last - SecondsPerDay \in Days
      BY <1>1, <1>2, <3>4, PreviousMultiple DEF Days
    <3>6. LastBuilt(resume[1].day + SecondsPerDay)'
      BY <1>1, <3>2, <3>4 DEF LastBuilt
    <3> QED
      BY <1>3, <1>5, <3>1, <3>2, <3>4, <3>5, <3>6 DEF CurveInv
  <2>2. CASE ~(first < last)
    <3>1. resume' = << >> /\ first = last
      BY <1>1, <1>2, <2>2
    <3>2. first = BoundaryDay + SecondsPerDay /\ \A d \in BuiltDays : d = BoundaryDay + SecondsPerDay
      <4>1. resume = << >> /\ build.at = "fold"
        BY <2>2, CommitWrites DEF CommitBuild, first, last
      <4> QED
        BY <4>1 DEF CurveInv, first
    <3>3. \A d \in window : d = first
      BY <1>2, <3>1
    <3>4. \A d \in BuiltDays' : d = BoundaryDay + SecondsPerDay
      BY <1>1, <3>2, <3>3
    <3> QED
      BY <1>3, <1>5, <3>1, <3>4 DEF CurveInv
  <2> QED
    BY <2>1, <2>2
<1>8. BoundaryDay \in DOMAIN daily' /\ daily'[BoundaryDay].source = "legacy"
  <2>1. BoundaryDay \notin window
    BY <1>1, <1>2
  <2> QED
    BY <1>1, <2>1 DEF MonthInv
<1> DEFINE start == MonthStart(BoundaryDay)
           months == {m \in start + MonthSeconds .. to - 1 : m % MonthSeconds = 0}
           MonthRow(m) == daily'[Max({d \in DOMAIN daily' : d < m + MonthSeconds})].masters
           rows == [m \in months |-> MonthRow(m)]
<1>9. start \in Multiples(MonthSeconds) /\ start \in Nat
  <2>1. start \in Multiples(MonthSeconds)
    BY <1>2, MultipleBelow DEF MonthStart
  <2> QED
    BY <2>1 DEF Multiples
<1>10. monthly' = Upsert(rows, monthly)
  BY <1>4, Zenon DEF upsert_stake_snapshot_monthlies_from_daily, stake_snapshot_next_month_start
<1> HIDE DEF MonthRow
<1>11. DOMAIN rows = months /\ \A m \in months : rows[m] = MonthRow(m)
  OBVIOUS
<1> HIDE DEF rows
<1>12. /\ \A m \in months : m \in DOMAIN monthly' /\ monthly'[m] = MonthRow(m)
       /\ \A m \in DOMAIN monthly : m \notin months => m \in DOMAIN monthly' /\ monthly'[m] = monthly[m]
  BY <1>10, <1>11 DEF Upsert
<1>13. start \notin months
  BY <1>2, <1>9
<1>14. start \in DOMAIN monthly' /\ monthly'[start] = 0
  BY <1>12, <1>13 DEF MonthInv
<1>15. ASSUME NEW m \in 0 .. last, m % MonthSeconds = 0, m > BoundaryDay
       PROVE  m \in months
  <2>1. m \in Multiples(MonthSeconds) /\ m \in Nat
    BY <1>2, <1>15 DEF Multiples
  <2>2. start <= BoundaryDay
    BY <1>2, MultipleBelow DEF MonthStart
  <2>3. start < m
    BY <1>2, <1>9, <1>15, <2>1, <2>2
  <2> HIDE DEF start
  <2>4. start + MonthSeconds <= m
    BY <1>2, <1>9, <2>1, <2>3, MultiplesApart
  <2>5. m \in start + MonthSeconds .. to - 1
    BY <1>2, <1>9, <1>15, <2>1, <2>4
  <2> QED
    BY <1>15, <2>5
<1> HIDE DEF months, start
<1>16. MonthInv'
  <2>1. \A m \in {x \in 0 .. Max(BuiltDays') : x % MonthSeconds = 0 /\ x > BoundaryDay} :
          m \in DOMAIN monthly' /\ monthly'[m] = MonthRow(m)
    BY <1>6, <1>12, <1>15
  <2> QED
    BY <1>8, <1>14, <2>1 DEF MonthInv, MonthRow, start
<1> QED
  BY <1>7, <1>16

\* Every step keeps the curve and the months.
LEMMA CurveStep ==
  ASSUME ChainInv, CurveInv, MonthInv, [Next]_vars
  PROVE  CurveInv' /\ MonthInv'
<1>1. ASSUME UNCHANGED <<daily, monthly, resume>>, UNCHANGED build \/ build'.at = "idle"
      PROVE  CurveInv' /\ MonthInv'
  BY <1>1, TablesKept
<1>2. ASSUME NEW op, NEW gap \in Gaps, ProduceBlock(op, gap) PROVE CurveInv' /\ MonthInv'
  BY <1>1, <1>2 DEF ProduceBlock, tables
<1>3. CASE IndexBlock \/ SyncAccounts \/ BeginCapture \/ CaptureEvents
  BY <1>1, <1>3 DEF IndexBlock, SyncAccounts, BeginCapture, CaptureEvents, tables
<1>4. CASE CommitCapture
  BY <1>1, <1>4 DEF CommitCapture
<1>5. CASE Abort
  BY <1>1, <1>5 DEF Abort, Idle, tables
<1>6. CASE UNCHANGED vars
  BY <1>1, <1>6 DEF vars
<1> QED
  BY <1>2, <1>3, <1>4, <1>5, <1>6, PlanContinues, CommitContinues, Zenon DEF Next

\* The last built day exists, and a build starts there or later.
LEMMA LastDay ==
  ASSUME CurveInv, BuiltDays # {}
  PROVE  /\ LastBuilt(Max(BuiltDays)) /\ Max(BuiltDays) \in Nat
         /\ resume # << >> => Max(BuiltDays) = resume[1].day + SecondsPerDay
<1>0. BuiltDays \subseteq Nat /\ BoundaryDay \in Nat /\ SecondsPerDay \in Nat
  BY CalendarFacts DEF CurveInv
<1>1. CASE resume = << >>
  <2> DEFINE top == BoundaryDay + SecondsPerDay
  <2>1. top \in BuiltDays /\ top \in Nat /\ \A d \in BuiltDays : d = top
    BY <1>0, <1>1 DEF CurveInv
  <2> HIDE DEF top
  <2>2. \A d \in BuiltDays : d <= top
    BY <2>1
  <2>3. Max(BuiltDays) = top
    BY <1>0, <2>1, <2>2, MaxIs
  <2> QED
    BY <1>1, <2>1, <2>2, <2>3 DEF LastBuilt
<1>2. CASE resume # << >>
  <2> DEFINE top == resume[1].day + SecondsPerDay
  <2>1. top \in BuiltDays /\ \A d \in BuiltDays : d <= top
    BY <1>2 DEF CurveInv, LastBuilt
  <2> HIDE DEF top
  <2>2. Max(BuiltDays) = top
    BY <1>0, <2>1, MaxIs
  <2> QED
    BY <1>0, <2>1, <2>2 DEF LastBuilt, top
<1> QED
  BY <1>1, <1>2

\* A day that is closed in the published curve never changes again, whatever is captured,
\* indexed, aborted or rebuilt around it (project_stake_snapshots_forward): a build starts no
\* earlier than the last built day.
THEOREM ClosedDaysAreFrozen == Spec => ClosedDaysFrozen
<1> DEFINE Frozen == \A d \in BuiltDays : d < Max(BuiltDays) => daily'[d] = daily[d]
<1>1. Init => ChainInv /\ CurveInv /\ MonthInv
  BY CurveInit
<1>2. ChainInv /\ CurveInv /\ MonthInv /\ [Next]_vars => (ChainInv /\ CurveInv /\ MonthInv)'
  BY ChainStep, CurveStep
<1>3. ASSUME CurveInv, CommitBuild PROVE Frozen
  <2> TAKE d \in BuiltDays
  <2> HAVE d < Max(BuiltDays)
  <2> DEFINE window == {e \in Days : build.from <= e /\ e <= CursorDay}
  <2>1. /\ \A e \in DOMAIN daily : e \notin window => daily'[e] = daily[e]
        /\ \A e \in BuiltDays : e <= build.from
        /\ build.from \in Days
    BY <1>3, CommitWrites
  <2>2. Max(BuiltDays) \in BuiltDays /\ d \in DOMAIN daily /\ d \in Nat /\ build.from \in Nat
    BY <1>3, <2>1, LastDay, CalendarFacts DEF LastBuilt, BuiltDays, CurveInv
  <2>3. d < build.from
    BY <1>3, <2>1, <2>2, LastDay
  <2>4. d \notin window
    BY <2>2, <2>3, CalendarFacts
  <2> QED
    BY <2>1, <2>2, <2>4
<1>4. ASSUME UNCHANGED daily PROVE Frozen
  BY <1>4
<1>5. CurveInv /\ [Next]_vars => [Frozen]_vars
  <2> SUFFICES ASSUME CurveInv, Next PROVE Frozen
    BY Zenon
  <2> HIDE DEF Frozen
  <2>1. ASSUME NEW op, NEW gap, ProduceBlock(op, gap) PROVE Frozen
    BY <1>4, <2>1 DEF ProduceBlock, tables
  <2>2. CASE IndexBlock \/ SyncAccounts \/ BeginCapture \/ CaptureEvents \/ CommitCapture \/ PlanBuild \/ Abort
    BY <1>4, <2>2 DEF IndexBlock, SyncAccounts, BeginCapture, CaptureEvents, CommitCapture, PlanBuild, Abort, tables
  <2> QED
    BY <1>3, <2>1, <2>2, Zenon DEF Next
<1> QED
  BY <1>1, <1>2, <1>5, PTL DEF Spec, ClosedDaysFrozen

------------------------------------------------------------------------------
(* The seed and the curve against the node.                                *)

\* s counts the node after the last block of the day, and a later block exists.
Closes(c, n, d, s) ==
  \E i \in 1..(Len(c) - 1) :
    /\ c[i].ts <= stake_snapshot_day_end(d) /\ stake_snapshot_day_end(d) < c[i + 1].ts
    /\ s = CountOf(n[i])

\* What an open capture has read: its cursor is a stored block, its transactions are the stored
\* ones from the day after the boundary on, up to that block when no later one was stored then.
CaptureInv ==
  /\ accounts \in Nodes
  /\ capture.at = "events" => capture.seen \in 1..indexed /\ capture.cursor = chain[capture.seen].ts
  /\ capture.at = "state" =>
       /\ capture.seen \in 1..indexed /\ capture.start \in capture.seen..indexed
       /\ \E lo, hi \in 0..indexed :
            /\ capture.txs = Segment(lo, hi)
            /\ \A i \in 1..capture.start : chain[i].ts < BoundaryDay + SecondsPerDay <=> i <= lo
            /\ capture.start = capture.seen => hi = capture.seen

\* Every fold state is a recount of its own stakes; an honest one is the node's.
SeedInv ==
  seed # << >> => seed[1] \in Nodes /\ (honest => Closes(chain, node, BoundaryDay, CountOf(seed[1])))

BuildInv ==
  build.at = "fold" =>
    /\ \E j \in 1..indexed : build.cursor = chain[j].ts
    /\ Counted(build.state)
    /\ honest => Closes(chain, node, build.from - SecondsPerDay, build.state)

ResumeInv ==
  resume # << >> =>
    Counted(resume[1].state) /\ (honest => Closes(chain, node, resume[1].day, resume[1].state))

ClosedInv ==
  honest => \A d \in BuiltDays : d < Max(BuiltDays) => \E s : Closes(chain, node, d, s) /\ daily[d] = Point(s)

\* Later blocks do not reopen a day.
LEMMA ClosesGrown ==
  ASSUME NEW c, NEW n, NEW c2, NEW n2, Len(c) \in Nat, Len(c2) \in Nat, Len(c) <= Len(c2),
         \A i \in 1..Len(c) : c2[i] = c[i] /\ n2[i] = n[i], NEW d, NEW s, Closes(c, n, d, s)
  PROVE  Closes(c2, n2, d, s)
<1>1. PICK i \in 1..(Len(c) - 1) :
        /\ c[i].ts <= stake_snapshot_day_end(d) /\ stake_snapshot_day_end(d) < c[i + 1].ts
        /\ s = CountOf(n[i])
  BY Zenon DEF Closes
<1>2. i \in 1..(Len(c2) - 1) /\ i \in 1..Len(c) /\ i + 1 \in 1..Len(c)
  OBVIOUS
<1>3. c2[i] = c[i] /\ c2[i + 1] = c[i + 1] /\ n2[i] = n[i]
  BY <1>2
<1>4. c2[i].ts <= stake_snapshot_day_end(d) /\ stake_snapshot_day_end(d) < c2[i + 1].ts /\ s = CountOf(n2[i])
  BY <1>1, <1>3, Zenon
<1> QED
  BY <1>2, <1>4, Zenon DEF Closes

\* The chain only grows.
Grown ==
  /\ Len(chain) \in Nat /\ Len(chain') \in Nat /\ Len(chain) <= Len(chain') /\ indexed <= indexed'
  /\ indexed \in Nat /\ indexed' \in Nat /\ indexed <= Len(chain) /\ indexed' <= Len(chain')
  /\ \A i \in 1..Len(chain) : chain'[i] = chain[i] /\ node'[i] = node[i]

\* What a new block adds.
LEMMA ProduceGrows ==
  ASSUME ChainInv, ChainInv', HistoryInv, NEW op, NEW gap, ProduceBlock(op, gap)
  PROVE  /\ Grown /\ Len(chain') = Len(chain) + 1 /\ Len(node') = Len(node) + 1
         /\ chain'[Len(chain) + 1] = [ts |-> chain[Len(chain)].ts + gap, op |-> op]
         /\ node'[Len(chain) + 1] = NodeStep(node[Len(chain)], op)
<1> DEFINE b == [ts |-> chain[Len(chain)].ts + gap, op |-> op]
           x == NodeStep(node[Len(chain)], op)
<1>1. PICK S : chain \in Seq(S)
  BY DEF ChainInv
<1>2. chain' = Append(chain, b) /\ node' = Append(node, x) /\ indexed' = indexed
  BY DEF ProduceBlock, Tip, HistoryInv
<1>3. node \in Seq(Nodes) /\ Len(node) = Len(chain)
  BY DEF HistoryInv
<1> HIDE DEF b, x
<1>4. chain \in Seq(S \union {b}) /\ node \in Seq(Nodes \union {x})
  BY <1>1, <1>3
<1>5. /\ Len(chain') = Len(chain) + 1 /\ chain'[Len(chain) + 1] = b /\ \A i \in 1..Len(chain) : chain'[i] = chain[i]
  BY <1>2, <1>4
<1>6. /\ Len(node') = Len(node) + 1 /\ node'[Len(chain) + 1] = x /\ \A i \in 1..Len(chain) : node'[i] = node[i]
  BY <1>2, <1>3, <1>4
<1>7. Len(chain) \in Nat /\ indexed \in 0..Len(chain)
  BY <1>1 DEF ChainInv
<1>8. indexed' = indexed
  BY <1>2
<1>9. Grown
  BY <1>5, <1>6, <1>7, <1>8 DEF Grown
<1> QED
  BY <1>5, <1>6, <1>9, Zenon DEF b, x

LEMMA SameGrows ==
  ASSUME ChainInv, ChainInv', UNCHANGED <<chain, node>>, indexed' = indexed \/ indexed' = indexed + 1
  PROVE  Grown
<1>1. Len(chain) \in Nat /\ indexed \in 0..Len(chain) /\ indexed' \in 0..Len(chain')
  BY DEF ChainInv
<1> QED
  BY <1>1 DEF Grown

LEMMA HistoryInit ==
  ASSUME Init
  PROVE  HistoryInv /\ CaptureInv /\ SeedInv /\ BuildInv /\ ResumeInv /\ ClosedInv
<1> DEFINE b == [ts |-> BoundaryTime, op |-> [do |-> "none"]]
           x == [stakes |-> InitStakes, supply |-> InitSupply]
<1>1. chain = <<b>> /\ node = <<x>> /\ accounts = node[1]
  BY DEF Init
<1>2. b.ts = BoundaryTime /\ b.op.do = "none" /\ x \in Nodes
  BY StakeAssumption DEF Nodes
<1> HIDE DEF b, x
<1>3. Len(chain) = 1 /\ Len(node) = 1 /\ chain[1] = b /\ node \in Seq(Nodes) /\ accounts \in Nodes
  BY <1>1, <1>2
<1>4. 1..(Len(chain) - 1) = {}
  BY <1>3
<1>5. HistoryInv
  BY <1>2, <1>3, <1>4 DEF HistoryInv
<1>6. capture.at = "idle" /\ build.at = "idle" /\ seed = << >> /\ resume = << >>
  BY DEF Init, Idle
<1>7. DOMAIN daily = {BoundaryDay} /\ daily[BoundaryDay].source = "legacy"
  BY DEF Init
<1>8. BuiltDays = {}
  BY <1>7 DEF BuiltDays
<1> QED
  BY <1>3, <1>5, <1>6, <1>8 DEF CaptureInv, SeedInv, BuildInv, ResumeInv, ClosedInv

\* Every step keeps the history.
LEMMA HistoryStep ==
  ASSUME ChainInv, ChainInv', HistoryInv, [Next]_vars
  PROVE  HistoryInv'
<1>0. Len(chain) \in Nat /\ Len(chain) > 0
  BY DEF ChainInv
<1>1. ASSUME NEW op \in Operations[Len(chain) + 1], NEW gap \in Gaps, Len(chain) < MaxBlocks, ProduceBlock(op, gap)
      PROVE  HistoryInv'
  <2>1. /\ Grown /\ Len(chain') = Len(chain) + 1 /\ Len(node') = Len(node) + 1
        /\ chain'[Len(chain) + 1] = [ts |-> chain[Len(chain)].ts + gap, op |-> op]
        /\ node'[Len(chain) + 1] = NodeStep(node[Len(chain)], op)
    BY <1>1, ProduceGrows
  <2>2. op.addr \in Addr /\ op.value \in Nat
    BY <1>0, <1>1, StakeAssumption
  <2>3. Len(chain) \in 1..Len(chain) /\ node[Len(chain)] \in Nodes /\ chain[Len(chain)].ts \in Nat /\ Len(node) = Len(chain)
    <3>1. Len(chain) \in 1..Len(chain)
      BY <1>0
    <3>2. node[Len(chain)] \in Nodes /\ chain[Len(chain)].ts \in Nat
      BY <3>1, HistoryNodes
    <3>3. Len(node) = Len(chain)
      BY DEF HistoryInv
    <3> QED
      BY <3>1, <3>2, <3>3
  <2>4. Executes(node[Len(chain)], op)
    BY <1>1, <2>3 DEF ProduceBlock
  <2>5. NodeStep(node[Len(chain)], op) \in Nodes
    <3> DEFINE n == node[Len(chain)]
               b == [op |-> op]
    <3>1. b.op = op
      OBVIOUS
    <3> HIDE DEF n, b
    <3>2. n \in Nodes /\ Typed(b.op) /\ Executes(n, b.op)
      BY <2>2, <2>3, <2>4, <3>1 DEF Typed, n
    <3>3. NodeStep(n, b.op) \in Nodes
      BY <3>2, StepForward
    <3> QED
      BY <3>1, <3>3 DEF n
  <2>6. node' \in Seq(Nodes)
    <3>1. node \in Seq(Nodes) /\ node' = Append(node, NodeStep(node[Len(chain)], op))
      BY <1>1, <2>3 DEF HistoryInv, ProduceBlock
    <3> QED
      BY <2>5, <3>1
  <2>7. ASSUME NEW i \in 1..(Len(chain') - 1)
        PROVE  /\ chain'[i].ts <= chain'[i + 1].ts
               /\ Typed(chain'[i + 1].op) /\ Executes(node'[i], chain'[i + 1].op)
               /\ node'[i + 1] = NodeStep(node'[i], chain'[i + 1].op)
    <3>1. CASE i = Len(chain)
      <4>1. chain'[i] = chain[i] /\ node'[i] = node[i]
        BY <2>1, <2>3, <3>1 DEF Grown
      <4>2. chain'[i + 1].ts = chain[i].ts + gap /\ chain'[i + 1].op = op
        BY <2>1, <3>1
      <4>3. chain[i].ts <= chain[i].ts + gap
        BY <2>3, <3>1, StakeAssumption
      <4>4. Typed(op)
        BY <2>2 DEF Typed
      <4> QED
        BY <2>1, <2>4, <3>1, <4>1, <4>2, <4>3, <4>4
    <3>2. CASE i # Len(chain)
      <4>1. i \in 1..(Len(chain) - 1) /\ i \in 1..Len(chain) /\ i + 1 \in 1..Len(chain)
        BY <1>0, <2>1, <3>2
      <4>2. chain'[i] = chain[i] /\ chain'[i + 1] = chain[i + 1] /\ node'[i] = node[i] /\ node'[i + 1] = node[i + 1]
        BY <2>1, <4>1 DEF Grown
      <4> QED
        BY <4>1, <4>2 DEF HistoryInv
    <3> QED
      BY <3>1, <3>2
  <2>8. chain'[1] = chain[1] /\ Len(node') = Len(chain')
    BY <1>0, <2>1, <2>3 DEF Grown
  <2> QED
    BY <2>6, <2>7, <2>8 DEF HistoryInv
<1>2. CASE UNCHANGED <<chain, node>>
  BY <1>2 DEF HistoryInv
<1>3. CASE IndexBlock \/ SyncAccounts \/ BeginCapture \/ CaptureEvents \/ CommitCapture \/ PlanBuild \/ CommitBuild \/ Abort
  BY <1>2, <1>3 DEF IndexBlock, SyncAccounts, BeginCapture, CaptureEvents, CommitCapture, PlanBuild, CommitBuild, Abort
<1>4. CASE UNCHANGED vars
  BY <1>2, <1>4 DEF vars
<1> QED
  BY <1>1, <1>3, <1>4, Zenon DEF Next

\* What only the growth of the chain touches is kept: a closed day stays closed.
LEMMA ClosesKept ==
  ASSUME Grown, NEW d, NEW s, Closes(chain, node, d, s)
  PROVE  Closes(chain', node', d, s)
  BY ClosesGrown DEF Grown

LEMMA SegmentKept ==
  ASSUME Grown, NEW lo \in Nat, NEW hi \in Nat, hi <= Len(chain)
  PROVE  Segment(lo, hi)' = Segment(lo, hi)
<1>1. \A i \in 1..(hi - lo) : lo + i \in 1..Len(chain)
  BY DEF Grown
<1>2. \A i \in 1..(hi - lo) : chain'[lo + i] = chain[lo + i]
  BY <1>1 DEF Grown
<1> QED
  BY <1>2 DEF Segment

\* A capture that waits is not disturbed by blocks, accounts or the indexer.
LEMMA CaptureKept ==
  ASSUME CaptureInv, Grown, accounts' \in Nodes, capture' = capture
  PROVE  CaptureInv'
<1>0. /\ Len(chain) \in Nat /\ indexed \in Nat /\ indexed' \in Nat /\ indexed <= indexed' /\ indexed <= Len(chain)
      /\ \A i \in 1..indexed : i \in 1..Len(chain) /\ chain'[i] = chain[i]
  BY DEF Grown
<1>1. ASSUME capture.at = "events"
      PROVE  capture.seen \in 1..indexed' /\ capture.cursor = chain'[capture.seen].ts
  BY <1>0, <1>1 DEF CaptureInv
<1>2. ASSUME capture.at = "state"
      PROVE  /\ capture.seen \in 1..indexed' /\ capture.start \in capture.seen..indexed'
             /\ \E lo, hi \in 0..indexed' :
                  /\ capture.txs = Segment(lo, hi)'
                  /\ \A i \in 1..capture.start : chain'[i].ts < BoundaryDay + SecondsPerDay <=> i <= lo
                  /\ capture.start = capture.seen => hi = capture.seen
  <2>1. capture.seen \in 1..indexed /\ capture.start \in capture.seen..indexed
    BY <1>2 DEF CaptureInv
  <2>2. PICK lo \in 0..indexed, hi \in 0..indexed :
            /\ capture.txs = Segment(lo, hi)
            /\ \A i \in 1..capture.start : chain[i].ts < BoundaryDay + SecondsPerDay <=> i <= lo
            /\ capture.start = capture.seen => hi = capture.seen
    BY <1>2 DEF CaptureInv
  <2>3. Segment(lo, hi)' = Segment(lo, hi)
    BY <1>0, SegmentKept
  <2>4. \A i \in 1..capture.start : chain'[i] = chain[i]
    BY <1>0, <2>1
  <2>5. lo \in 0..indexed' /\ hi \in 0..indexed' /\ capture.seen \in 1..indexed' /\ capture.start \in capture.seen..indexed'
    BY <1>0, <2>1
  <2>6. capture.txs = Segment(lo, hi)'
    BY <2>2, <2>3
  <2>7. \A i \in 1..capture.start : chain'[i].ts < BoundaryDay + SecondsPerDay <=> i <= lo
    BY <2>2, <2>4
  <2> QED
    BY <2>2, <2>5, <2>6, <2>7
<1> QED
  BY <1>1, <1>2 DEF CaptureInv

LEMMA SeedKept ==
  ASSUME SeedInv, Grown, seed' = seed, honest' => honest
  PROVE  SeedInv'
<1> SUFFICES ASSUME seed # << >> PROVE seed[1] \in Nodes /\ (honest' => Closes(chain', node', BoundaryDay, CountOf(seed[1])))
  BY DEF SeedInv
<1> QED
  BY ClosesKept DEF SeedInv

\* Neither is a build that waits.
LEMMA BuildKept ==
  ASSUME BuildInv, Grown, build' = build, honest' => honest
  PROVE  BuildInv'
<1> SUFFICES ASSUME build.at = "fold"
             PROVE  /\ \E j \in 1..indexed' : build.cursor = chain'[j].ts
                    /\ Counted(build.state)
                    /\ honest' => Closes(chain', node', build.from - SecondsPerDay, build.state)
  BY DEF BuildInv
<1>1. \E j \in 1..indexed' : build.cursor = chain'[j].ts
  <2>1. PICK j \in 1..indexed : build.cursor = chain[j].ts
    BY DEF BuildInv
  <2>2. j \in 1..indexed' /\ chain'[j] = chain[j]
    BY DEF Grown
  <2> QED
    BY <2>1, <2>2
<1> DEFINE d == build.from - SecondsPerDay
<1>2. Counted(build.state) /\ (honest => Closes(chain, node, d, build.state))
  BY DEF BuildInv
<1> HIDE DEF d
<1>3. honest' => Closes(chain', node', d, build.state)
  BY <1>2, ClosesKept
<1> QED
  BY <1>1, <1>2, <1>3 DEF d

\* Nor the closed days and the saved state.
LEMMA CurveKept ==
  ASSUME ResumeInv, ClosedInv, Grown, UNCHANGED <<daily, resume>>, honest' => honest
  PROVE  ResumeInv' /\ ClosedInv'
<1>1. BuiltDays' = BuiltDays
  BY DEF BuiltDays
<1>2. ResumeInv'
  BY ClosesKept DEF ResumeInv
<1>3. ASSUME honest', NEW d \in BuiltDays, d < Max(BuiltDays)
      PROVE  \E s : Closes(chain', node', d, s) /\ daily[d] = Point(s)
  <2>1. PICK s : Closes(chain, node, d, s) /\ daily[d] = Point(s)
    BY <1>3 DEF ClosedInv
  <2> QED
    BY <2>1, ClosesKept
<1> QED
  BY <1>1, <1>2, <1>3 DEF ClosedInv

LEMMA BoundaryFacts ==
  /\ BoundaryDay \in Nat /\ SecondsPerDay \in Nat /\ SecondsPerDay > 0
  /\ BoundaryDay <= BoundaryTime /\ BoundaryTime < BoundaryDay + SecondsPerDay
  /\ BoundaryTime \in Nat
<1>1. BoundaryTime \in Nat /\ SecondsPerDay \in Nat /\ SecondsPerDay > 0
  BY StakeAssumption
<1>2. BoundaryDay \in Nat
  BY CalendarFacts
<1> QED
  BY <1>1, <1>2, MultipleBelow DEF BoundaryDay, stake_snapshot_day_start

LEMMA DayOf ==
  ASSUME NEW ts \in Nat
  PROVE  /\ stake_snapshot_day_start(ts) \in Days /\ stake_snapshot_day_start(ts) \in Nat
         /\ stake_snapshot_day_start(ts) <= ts /\ ts < stake_snapshot_day_start(ts) + SecondsPerDay
<1>1. stake_snapshot_day_start(ts) \in Days /\ Days \subseteq Nat /\ SecondsPerDay \in Nat /\ SecondsPerDay > 0
  BY CalendarFacts
<1>2. stake_snapshot_day_start(ts) <= ts /\ ts < stake_snapshot_day_start(ts) + SecondsPerDay
  BY <1>1, MultipleBelow DEF stake_snapshot_day_start
<1> QED
  BY <1>1, <1>2

\* The transactions a capture reads (capture_stake_boundary_slice).
LEMMA CaptureReads ==
  ASSUME ChainInv, HistoryInv, CaptureInv, CaptureEvents
  PROVE  CaptureInv'
<1>0. /\ capture.at = "events" /\ capture.seen \in 1..indexed /\ capture.cursor = chain[capture.seen].ts
      /\ Len(chain) \in Nat /\ indexed \in Nat /\ indexed <= Len(chain)
      /\ \A i \in 1..indexed : i \in 1..Len(chain) /\ chain[i].ts \in Nat
  BY DEF CaptureEvents, CaptureInv, ChainInv
<1> DEFINE from == BoundaryDay + SecondsPerDay
           to == capture.cursor
           txs == load_stake_snapshot_events(from, to)
<1>1. from \in Int /\ to \in Int
  BY <1>0, BoundaryFacts
<1>p. PICK lo \in 0..indexed, hi \in 0..indexed : Selects(from, to, lo, hi)
  <2> HIDE DEF from, to
  <2> QED
    BY <1>1, LoadSegment, Zenon
<1>2. /\ txs = Segment(lo, hi)
      /\ \A i \in 1..indexed : (chain[i].ts < from <=> i <= lo) /\ (chain[i].ts <= to <=> i <= hi)
  BY <1>p, Zenon DEF Selects
<1>3. indexed = capture.seen => hi = capture.seen
  <2> SUFFICES ASSUME indexed = capture.seen PROVE hi = capture.seen
    OBVIOUS
  <2>1. indexed \in 1..indexed
    BY <1>0
  <2>2. chain[indexed].ts <= to
    BY <1>0
  <2>3. indexed <= hi
    BY <1>2, <2>1, <2>2
  <2> QED
    BY <1>0, <2>3
<1>4. /\ UNCHANGED <<chain, indexed, accounts>>
      /\ capture' = [at |-> "state", seen |-> capture.seen, start |-> indexed, txs |-> txs]
  BY DEF CaptureEvents
<1> HIDE DEF txs
<1>5. capture'.at = "state" /\ capture'.seen = capture.seen /\ capture'.start = indexed /\ capture'.txs = txs
  BY <1>4
<1>6. Segment(lo, hi)' = Segment(lo, hi)
  BY <1>4 DEF Segment
<1>7. /\ capture'.txs = Segment(lo, hi)'
      /\ \A i \in 1..capture'.start : chain'[i].ts < BoundaryDay + SecondsPerDay <=> i <= lo
      /\ capture'.start = capture'.seen => hi = capture'.seen
  BY <1>2, <1>3, <1>4, <1>5, <1>6
<1>8. capture'.seen \in 1..indexed' /\ capture'.start \in capture'.seen..indexed' /\ accounts' \in Nodes
  BY <1>0, <1>4, <1>5 DEF CaptureInv
<1>9. lo \in 0..indexed' /\ hi \in 0..indexed'
  BY <1>4
<1> HIDE DEF from, to
<1> QED
  BY <1>5, <1>7, <1>8, <1>9 DEF CaptureInv

LEMMA CountOfInjective ==
  ASSUME NEW m \in Nodes, NEW n \in Nodes, CountOf(m) = CountOf(n)
  PROVE  m = n
<1>1. m.stakes = n.stakes /\ m.supply = n.supply
  BY DEF CountOf, CountStakes
<1> QED
  BY <1>1, NodeShape

\* The seed a capture commits: unwound from the accounts of the cursor block it is the node's
\* state at the end of the boundary day.
LEMMA CommitSeeds ==
  ASSUME ChainInv, HistoryInv, CaptureInv, SeedInv, CommitCapture
  PROVE  SeedInv'
<1>0. /\ capture.seen \in 1..indexed /\ capture.start \in capture.seen..indexed /\ accounts \in Nodes
      /\ Len(chain) \in Nat /\ indexed \in Nat /\ indexed <= Len(chain) /\ Len(chain) > 0
      /\ \A i \in 1..Len(chain) : chain[i].ts \in Nat
  <2>1. capture.seen \in 1..indexed /\ capture.start \in capture.seen..indexed /\ accounts \in Nodes
    BY DEF CommitCapture, CaptureInv
  <2>2. /\ Len(chain) \in Nat /\ indexed \in Nat /\ indexed <= Len(chain) /\ Len(chain) > 0
        /\ \A i \in 1..Len(chain) : chain[i].ts \in Nat
    BY DEF ChainInv
  <2> QED
    BY <2>1, <2>2
<1>1. PICK lo \in 0..indexed, hi \in 0..indexed :
            /\ capture.txs = Segment(lo, hi)
            /\ \A i \in 1..capture.start : chain[i].ts < BoundaryDay + SecondsPerDay <=> i <= lo
            /\ capture.start = capture.seen => hi = capture.seen
  BY DEF CommitCapture, CaptureInv
<1> DEFINE unwound == reverse_replay_stake_snapshot_events(CountOf(accounts), Segment(lo, hi))
           row == [stakes |-> unwound.stakes, supply |-> unwound.supply]
<1>2. seed' = <<row>> /\ UNCHANGED <<chain, node>>
  <2>1. capture.txs = Segment(lo, hi)
    BY <1>1
  <2> QED
    BY <2>1, Zenon DEF CommitCapture, load_current_stake_snapshot_state, CountOf
<1>3. Counted(unwound)
  <2>1. Counted(CountOf(accounts))
    BY <1>0, Zenon DEF Counted
  <2>2. lo \in 0..Len(chain) /\ hi \in 0..Len(chain)
    BY <1>0
  <2> QED
    BY <2>1, <2>2, UnwindCounted
<1> HIDE DEF unwound
<1>4. row \in Nodes /\ unwound = CountStakes(unwound.stakes, unwound.supply)
  BY <1>3, CountedRecounts, Zenon
<1>5. CountOf(row) = unwound
  BY <1>4, NodeFields
<1> HIDE DEF row
<1>6. ASSUME honest' PROVE Closes(chain, node, BoundaryDay, unwound)
  <2>1. /\ capture.start = capture.seen /\ accounts = node[capture.seen]
        /\ stake_snapshot_day_start(chain[capture.seen].ts) > BoundaryDay
    BY <1>6, Zenon DEF CommitCapture
  <2> DEFINE seen == capture.seen
             next == BoundaryDay + SecondsPerDay
  <2>2. seen \in 1..Len(chain) /\ seen \in Nat /\ hi = seen /\ chain[seen].ts \in Nat
    BY <1>0, <1>1, <2>1
  <2>3. next <= chain[seen].ts
    <3> DEFINE day == stake_snapshot_day_start(chain[seen].ts)
    <3>1. day \in Days /\ day \in Nat /\ day <= chain[seen].ts
      BY <2>2, DayOf
    <3>2. BoundaryDay + SecondsPerDay <= day
      <4> HIDE DEF day
      <4>1. BoundaryDay < day
        BY <2>1, <3>1, BoundaryFacts DEF day
      <4> QED
        BY <3>1, <4>1, CalendarFacts
    <3> HIDE DEF day
    <3> QED
      BY <2>2, <3>1, <3>2, BoundaryFacts
  <2>4. \A i \in 1..seen : chain[i].ts < next <=> i <= lo
    BY <1>1, <2>1
  <2>5. lo < seen
    <3>1. seen \in 1..seen /\ ~(chain[seen].ts < next)
      BY <2>2, <2>3, BoundaryFacts
    <3>2. ~(seen <= lo)
      BY <2>4, <3>1
    <3> QED
      BY <1>0, <2>2, <3>2
  <2>6. 1 <= lo
    <3>1. 1 \in 1..seen /\ chain[1].ts < next
      BY <2>2, BoundaryFacts DEF HistoryInv
    <3> QED
      BY <2>4, <3>1
  <2>7. lo \in 1..seen /\ lo + 1 \in 1..seen /\ lo \in 1..(Len(chain) - 1) /\ lo \in 1..Len(chain)
    BY <1>0, <2>2, <2>5, <2>6
  <2>8. chain[lo].ts < next /\ ~(chain[lo + 1].ts < next)
    BY <2>4, <2>7
  <2>9. chain[lo].ts \in Nat /\ chain[lo + 1].ts \in Nat
    BY <1>0, <2>2, <2>7
  <2>10. chain[lo].ts <= stake_snapshot_day_end(BoundaryDay) /\ stake_snapshot_day_end(BoundaryDay) < chain[lo + 1].ts
    BY <2>8, <2>9, BoundaryFacts DEF stake_snapshot_day_end
  <2>11. unwound = CountOf(node[lo])
    <3>1. unwound = reverse_replay_stake_snapshot_events(CountOf(node[hi]), Segment(lo, hi))
      BY <2>1, <2>2 DEF unwound
    <3>2. lo \in 1..Len(chain) /\ hi \in 1..Len(chain) /\ lo <= hi
      BY <2>2, <2>5, <2>7
    <3> QED
      BY <3>1, <3>2, ReverseFold
  <2> QED
    BY <2>7, <2>10, <2>11, Zenon DEF Closes
<1>7. seed'[1] = row
  BY <1>2
<1> QED
  BY <1>2, <1>4, <1>5, <1>6, <1>7, Zenon DEF SeedInv

\* A plan starts from the seed or from the saved state, at the end of the day before its window.
LEMMA PlanReads ==
  ASSUME ChainInv, CurveInv, SeedInv, ResumeInv, PlanBuild
  PROVE  BuildInv'
<1>0. indexed # 0 /\ seed # << >> /\ UNCHANGED <<chain, node, indexed, honest>>
  BY DEF PlanBuild, NothingToBuild
<1>1. /\ build'.at = "fold" /\ build'.cursor = chain[indexed].ts
      /\ build'.from = IF MayResume THEN resume[1].day + SecondsPerDay ELSE BoundaryDay + SecondsPerDay
      /\ build'.state = IF MayResume THEN resume[1].state ELSE CountOf(seed[1])
  BY DEF PlanBuild, load_stake_snapshot_resume, load_stake_snapshot_cursor_timestamp, load_stake_boundary_slice, CountOf
<1>2. indexed \in 1..indexed
  BY <1>0 DEF ChainInv
<1>3. Counted(build'.state) /\ (honest => Closes(chain, node, build'.from - SecondsPerDay, build'.state))
  <2>1. CASE MayResume
    <3>1. resume # << >>
      BY <2>1 DEF MayResume
    <3>2. resume[1].day \in Int
      BY <3>1, CalendarFacts DEF CurveInv
    <3>3. build'.from - SecondsPerDay = resume[1].day /\ build'.state = resume[1].state
      BY <1>1, <2>1, <3>2, CalendarFacts
    <3> QED
      BY <3>1, <3>3 DEF ResumeInv
  <2>2. CASE ~MayResume
    <3>1. build'.from - SecondsPerDay = BoundaryDay /\ build'.state = CountOf(seed[1])
      BY <1>1, <2>2, BoundaryFacts
    <3>2. seed[1] \in Nodes /\ (honest => Closes(chain, node, BoundaryDay, CountOf(seed[1])))
      BY <1>0, Zenon DEF SeedInv
    <3>3. Counted(CountOf(seed[1]))
      BY <3>2, Zenon DEF Counted
    <3> QED
      BY <3>1, <3>2, <3>3
  <2> QED
    BY <2>1, <2>2
<1>4. \E j \in 1..indexed' : build'.cursor = chain'[j].ts
  BY <1>0, <1>1, <1>2
<1>5. Counted(build'.state) /\ (honest' => Closes(chain', node', build'.from - SecondsPerDay, build'.state))
  BY <1>0, <1>3
<1> QED
  BY <1>4, <1>5, Zenon DEF BuildInv

\* A closed day of the window is folded to the node's state at its end.
LEMMA DayRebuilt ==
  ASSUME ChainInv, HistoryInv, CurveInv, BuildInv, build.at = "fold", honest,
         NEW d \in Days, build.from \in Days, build.from <= d, d < CursorDay
  PROVE  Closes(chain, node, d, Rebuilt(d))
<1> DEFINE first == build.from
           cursor == build.cursor
           last == stake_snapshot_day_end(d)
<1>0. /\ Len(chain) \in Nat /\ indexed \in Nat /\ indexed <= Len(chain)
      /\ \A i \in 1..Len(chain) : chain[i].ts \in Nat
      /\ first \in Nat /\ d \in Nat /\ SecondsPerDay \in Nat /\ SecondsPerDay > 0
  <2>1. /\ Len(chain) \in Nat /\ indexed \in Nat /\ indexed <= Len(chain)
        /\ \A i \in 1..Len(chain) : chain[i].ts \in Nat
    BY DEF ChainInv
  <2>2. first \in Nat /\ d \in Nat /\ SecondsPerDay \in Nat /\ SecondsPerDay > 0
    BY CalendarFacts
  <2> QED
    BY <2>1, <2>2
<1>1. PICK j \in 1..indexed : cursor = chain[j].ts
  BY DEF BuildInv
<1>2. j \in 1..Len(chain) /\ cursor \in Nat
  BY <1>0, <1>1
<1>3. last \in Int /\ first <= last /\ first - 1 <= last /\ last < cursor
  <2>1. CursorDay \in Days /\ CursorDay <= cursor /\ CursorDay \in Nat
    BY <1>2, DayOf DEF CursorDay
  <2>2. d + SecondsPerDay <= CursorDay
    BY <2>1, CalendarFacts
  <2> HIDE DEF first
  <2> QED
    BY <1>0, <1>2, <2>1, <2>2 DEF stake_snapshot_day_end, first
<1>4. PICK i \in 1..(Len(chain) - 1) :
        /\ chain[i].ts <= stake_snapshot_day_end(first - SecondsPerDay)
        /\ stake_snapshot_day_end(first - SecondsPerDay) < chain[i + 1].ts
        /\ build.state = CountOf(node[i])
  <2>1. Closes(chain, node, first - SecondsPerDay, build.state)
    BY DEF BuildInv
  <2> QED
    BY <2>1, Zenon DEF Closes
<1>5. stake_snapshot_day_end(first - SecondsPerDay) = first - 1
  BY <1>0 DEF stake_snapshot_day_end
<1> HIDE DEF last, first, cursor
<1>6. /\ i \in 1..Len(chain) /\ i + 1 \in 1..Len(chain) /\ chain[i].ts \in Nat /\ chain[i + 1].ts \in Nat
      /\ chain[i].ts < first /\ ~(chain[i + 1].ts < first) /\ chain[i].ts <= last
  <2>1. i \in 1..Len(chain) /\ i + 1 \in 1..Len(chain)
    BY <1>0
  <2>2. chain[i].ts \in Nat /\ chain[i + 1].ts \in Nat
    BY <1>0, <2>1
  <2>3. chain[i].ts <= first - 1 /\ first - 1 < chain[i + 1].ts
    BY <1>4, <1>5
  <2>4. first \in Nat /\ last \in Int /\ first - 1 <= last
    BY <1>0, <1>3
  <2>5. chain[i].ts < first /\ ~(chain[i + 1].ts < first) /\ chain[i].ts <= last
    BY <2>2, <2>3, <2>4
  <2> QED
    BY <2>1, <2>2, <2>5
<1>7. i < j
  <2> SUFFICES ASSUME j <= i PROVE FALSE
    BY <1>0
  <2>1. chain[j].ts <= chain[i].ts
    BY <1>2, <1>6, Ordered
  <2> QED
    BY <1>0, <1>1, <1>2, <1>3, <1>6, <2>1
<1>p. PICK lo \in 0..indexed, hi \in 0..indexed : Selects(first, cursor, lo, hi)
  <2>1. first \in Int /\ cursor \in Int
    BY <1>0, <1>2
  <2> QED
    BY <2>1, LoadSegment, Zenon
<1>8. /\ load_stake_snapshot_events(first, cursor) = Segment(lo, hi)
      /\ \A k \in 1..indexed : (chain[k].ts < first <=> k <= lo) /\ (chain[k].ts <= cursor <=> k <= hi)
  BY <1>p, Zenon DEF Selects
<1>9. lo = i /\ j <= hi
  <2>1. i \in 1..indexed /\ i + 1 \in 1..indexed
    BY <1>0, <1>6, <1>7
  <2>2. i <= lo /\ ~(i + 1 <= lo)
    BY <1>6, <1>8, <2>1
  <2>3. j <= hi
    BY <1>1, <1>2, <1>8
  <2> QED
    BY <1>0, <2>1, <2>2, <2>3
<1>10. PICK m \in 0..indexed : \A k \in 1..indexed : chain[k].ts <= last <=> k <= m
  <2> DEFINE S == {k \in 1..indexed : chain[k].ts <= last}
  <2>1. ASSUME NEW k \in 1..indexed, NEW l \in 1..indexed, k <= l, l \in S PROVE k \in S
    <3>1. k \in 1..Len(chain) /\ l \in 1..Len(chain)
      BY <1>0
    <3>2. chain[k].ts <= chain[l].ts /\ chain[l].ts <= last
      BY <2>1, <3>1, Ordered
    <3>3. chain[k].ts \in Nat /\ chain[l].ts \in Nat /\ last \in Int
      BY <1>0, <1>3, <3>1
    <3>4. \A x, y, z \in Int : x <= y /\ y <= z => x <= z
      OBVIOUS
    <3>5. chain[k].ts <= last
      <4> HIDE DEF S
      <4> QED
        BY SMTT(30), <3>2, <3>3, <3>4
    <3> QED
      BY <3>5
  <2>2. \E m \in 0..indexed : \A k \in 1..indexed : k \in S <=> k <= m
    <3> HIDE DEF S
    <3> QED
      BY <1>0, <2>1, Cut
  <2> QED
    BY <2>2
<1>11. i <= m /\ m < j
  <2>1. i \in 1..indexed
    BY <1>0, <1>6, <1>7
  <2>2. ~(chain[j].ts <= last)
    BY <1>1, <1>2, <1>3
  <2>3. i <= m /\ ~(j <= m)
    BY <1>6, <1>10, <2>1, <2>2
  <2> QED
    BY <1>0, <2>1, <2>3
<1>12. /\ m \in 1..(Len(chain) - 1) /\ m \in 1..indexed /\ m + 1 \in 1..indexed /\ m \in lo..hi
       /\ lo \in 1..Len(chain) /\ hi \in 1..Len(chain)
  BY <1>0, <1>6, <1>9, <1>11
<1>13. chain[m].ts <= last /\ last < chain[m + 1].ts
  <2>1. chain[m].ts <= last /\ ~(chain[m + 1].ts <= last)
    BY <1>10, <1>12
  <2> QED
    BY <1>0, <1>3, <1>12, <2>1
<1>14. \A k \in (lo + 1)..hi : chain[k].ts <= last <=> k <= m
  <2>1. \A k \in (lo + 1)..hi : k \in 1..indexed
    BY <1>0
  <2> QED
    BY <1>10, <2>1
<1>15. StateAt(CountOf(node[lo]), Segment(lo, hi), d) = CountOf(node[m])
  <2>1. \A k \in (lo + 1)..hi : chain[k].ts <= stake_snapshot_day_end(d) <=> k <= m
    BY <1>14, Zenon DEF last
  <2>2. lo \in 1..Len(chain) /\ hi \in 1..Len(chain) /\ m \in lo..hi
    BY <1>12
  <2> QED
    BY <2>1, <2>2, ForwardFold
<1>16. Rebuilt(d) = CountOf(node[m])
  BY <1>4, <1>8, <1>9, <1>15, Zenon DEF Rebuilt, first, cursor
<1> QED
  BY <1>12, <1>13, <1>16, Zenon DEF Closes, last

\* The commit of a build keeps the saved state and the closed days true to the node.
LEMMA CommitFolds ==
  ASSUME ChainInv, HistoryInv, CurveInv, BuildInv, ResumeInv, ClosedInv, CommitBuild
  PROVE  ResumeInv' /\ ClosedInv'
<1> DEFINE last == CursorDay
           first == build.from
           window == {d \in Days : first <= d /\ d <= last}
<1>1. /\ last \in Days /\ first \in Days /\ first <= last /\ first > BoundaryDay
      /\ \A d \in window : daily'[d] = Point(Rebuilt(d))
      /\ \A d \in DOMAIN daily : d \notin window => daily'[d] = daily[d]
      /\ BuiltDays' = window \union BuiltDays
      /\ \A d \in BuiltDays : d <= first
      /\ last \in BuiltDays' /\ \A d \in BuiltDays' : d <= last
      /\ first < last => resume' = << [day |-> last - SecondsPerDay, state |-> Rebuilt(last - SecondsPerDay)] >>
      /\ first < last => last - SecondsPerDay \in window
      /\ ~(first < last) => resume' = << >>
  BY CommitWrites
<1>2. /\ build.at = "fold" /\ UNCHANGED <<chain, node, honest>>
      /\ last \in Nat /\ first \in Nat /\ Days \subseteq Nat /\ BuiltDays \subseteq Days /\ SecondsPerDay \in Nat /\ SecondsPerDay > 0
  BY <1>1, CalendarFacts DEF CommitBuild, CurveInv
<1>3. ASSUME NEW d \in window, d < last, honest PROVE Closes(chain, node, d, Rebuilt(d))
  BY <1>1, <1>2, <1>3, DayRebuilt
<1>4. ASSUME NEW d PROVE Counted(Rebuilt(d))
  <2> DEFINE cursor == build.cursor
  <2>1. Counted(build.state) /\ first \in Int /\ cursor \in Int
    <3>1. PICK j \in 1..indexed : cursor = chain[j].ts
      BY <1>2 DEF BuildInv
    <3>2. cursor \in Nat
      BY <3>1 DEF ChainInv
    <3>3. Counted(build.state)
      BY <1>2 DEF BuildInv
    <3> QED
      BY <1>2, <3>2, <3>3
  <2> HIDE DEF first, cursor
  <2>2. PICK lo \in 0..indexed, hi \in 0..indexed : Selects(first, cursor, lo, hi)
    BY <2>1, LoadSegment, Zenon
  <2>3. load_stake_snapshot_events(first, cursor) = Segment(lo, hi)
    BY <2>2, Zenon DEF Selects
  <2>4. lo \in 0..Len(chain) /\ hi \in 0..Len(chain)
    BY DEF ChainInv
  <2>5. Counted(StateAt(build.state, Segment(lo, hi), d))
    BY <2>1, <2>4, StateAtCounted
  <2> QED
    BY <2>3, <2>5, Zenon DEF Rebuilt, first, cursor
<1> HIDE DEF last, first
<1>5. ResumeInv'
  <2>1. CASE first < last
    <3> DEFINE d == last - SecondsPerDay
               row == [day |-> d, state |-> Rebuilt(d)]
    <3>1. resume' = <<row>> /\ d \in window /\ d < last
      BY <1>1, <1>2, <2>1
    <3>2. row.day = d /\ row.state = Rebuilt(d)
      OBVIOUS
    <3> HIDE DEF d, row
    <3>3. resume'[1].day = d /\ resume'[1].state = Rebuilt(d)
      BY <3>1, <3>2
    <3>4. Counted(Rebuilt(d)) /\ (honest => Closes(chain, node, d, Rebuilt(d)))
      BY <1>3, <1>4, <3>1
    <3> QED
      BY <1>2, <3>3, <3>4, Zenon DEF ResumeInv
  <2>2. CASE ~(first < last)
    BY <1>1, <2>2 DEF ResumeInv
  <2> QED
    BY <2>1, <2>2
<1>6. Max(BuiltDays') = last
  <2>1. BuiltDays' \in SUBSET Nat
    BY <1>1, <1>2
  <2> QED
    BY <1>1, <2>1, MaxIs
<1>7. ASSUME honest, NEW d \in BuiltDays', d < last
      PROVE  \E s : Closes(chain, node, d, s) /\ daily'[d] = Point(s)
  <2>1. CASE d \in window
    BY <1>1, <1>3, <1>7, <2>1
  <2>2. CASE d \notin window
    <3>1. d \in BuiltDays /\ d \in Days /\ d <= first /\ d \in Nat
      BY <1>1, <1>2, <2>2
    <3>2. d < first
      BY <1>1, <1>2, <1>7, <2>2, <3>1
    <3>3. resume # << >>
      <4> SUFFICES ASSUME resume = << >> PROVE FALSE
        OBVIOUS
      <4>1. d = BoundaryDay + SecondsPerDay /\ first = BoundaryDay + SecondsPerDay
        BY <1>2, <3>1 DEF CurveInv, first
      <4> QED
        BY <1>2, <3>1, <3>2, <4>1
    <3>4. Max(BuiltDays) = first
      BY <1>2, <3>1, <3>3, LastDay DEF CurveInv, first
    <3>5. d \in DOMAIN daily
      BY <3>1 DEF BuiltDays
    <3>6. daily'[d] = daily[d]
      BY <1>1, <2>2, <3>5
    <3> QED
      BY <1>7, <3>1, <3>2, <3>4, <3>6 DEF ClosedInv
  <2> QED
    BY <2>1, <2>2
<1>8. ClosedInv'
  BY <1>2, <1>6, <1>7 DEF ClosedInv
<1> QED
  BY <1>5, <1>8

------------------------------------------------------------------------------
(* The invariant of all of it, and the theorems. *)

StakeInv ==
  /\ ChainInv /\ CurveInv /\ MonthInv
  /\ HistoryInv /\ CaptureInv /\ SeedInv /\ BuildInv /\ ResumeInv /\ ClosedInv

LEMMA StakeInit == ASSUME Init PROVE StakeInv
  BY CurveInit, HistoryInit DEF StakeInv

\* Every step keeps what the capture, the seed, the build and the curve say of the node.
LEMMA FoldsStep ==
  ASSUME StakeInv, ChainInv', [Next]_vars
  PROVE  CaptureInv' /\ SeedInv' /\ BuildInv' /\ ResumeInv' /\ ClosedInv'
<1> USE DEF StakeInv
<1>0. accounts \in Nodes
  BY DEF CaptureInv
<1>1. ASSUME NEW op, NEW gap, ProduceBlock(op, gap)
      PROVE  CaptureInv' /\ SeedInv' /\ BuildInv' /\ ResumeInv' /\ ClosedInv'
  <2>1. Grown
    BY <1>1, ProduceGrows
  <2>2. UNCHANGED <<accounts, seed, daily, resume, capture, build, honest>>
    BY <1>1 DEF ProduceBlock, tables
  <2> QED
    BY <1>0, <2>1, <2>2, CaptureKept, SeedKept, BuildKept, CurveKept
<1>2. CASE IndexBlock \/ SyncAccounts \/ BeginCapture
  <2>1. Grown
    BY <1>2, SameGrows DEF IndexBlock, SyncAccounts, BeginCapture
  <2>2. UNCHANGED <<seed, daily, resume, build, honest>>
    BY <1>2 DEF IndexBlock, SyncAccounts, BeginCapture, tables
  <2>3. CaptureInv'
    <3>1. CASE IndexBlock
      BY <1>0, <2>1, <3>1, CaptureKept DEF IndexBlock
    <3>2. CASE SyncAccounts
      <4>1. accounts' \in Nodes /\ capture' = capture
        <5>1. node \in Seq(Nodes) /\ Len(node) = Len(chain) /\ Len(chain) \in Nat /\ Len(chain) > 0
          BY HistoryNodes DEF HistoryInv
        <5>2. Len(node) \in 1..Len(node)
          BY <5>1
        <5> QED
          BY <3>2, <5>1, <5>2 DEF SyncAccounts
      <4> QED
        BY <2>1, <4>1, CaptureKept
    <3>3. CASE BeginCapture
      <4>1. /\ capture' = [at |-> "events", cursor |-> chain[indexed].ts, seen |-> indexed]
            /\ indexed > 0 /\ UNCHANGED <<chain, indexed, accounts>>
        BY <3>3 DEF BeginCapture, load_stake_snapshot_cursor_timestamp
      <4>2. capture'.at = "events" /\ capture'.cursor = chain[indexed].ts /\ capture'.seen = indexed
        BY <4>1
      <4>3. indexed \in 1..indexed
        BY <4>1 DEF ChainInv
      <4> QED
        BY <1>0, <4>1, <4>2, <4>3 DEF CaptureInv
    <3> QED
      BY <1>2, <3>1, <3>2, <3>3
  <2> QED
    BY <2>1, <2>2, <2>3, SeedKept, BuildKept, CurveKept
<1>3. CASE CaptureEvents
  <2>1. Grown /\ UNCHANGED <<seed, daily, resume, build, honest>>
    BY <1>3, SameGrows DEF CaptureEvents, tables
  <2> QED
    BY <1>3, <2>1, CaptureReads, SeedKept, BuildKept, CurveKept
<1>4. CASE CommitCapture
  <2>1. Grown /\ UNCHANGED <<accounts, daily, resume, build>> /\ capture'.at = "idle"
    BY <1>4, SameGrows DEF CommitCapture, Idle
  <2>2. honest' => honest
    BY <1>4, Zenon DEF CommitCapture
  <2>3. CaptureInv'
    BY <1>0, <2>1 DEF CaptureInv
  <2> QED
    BY <1>4, <2>1, <2>2, <2>3, CommitSeeds, BuildKept, CurveKept
<1>5. CASE PlanBuild
  <2>1. Grown /\ UNCHANGED <<accounts, seed, daily, resume, capture, honest>>
    BY <1>5, SameGrows DEF PlanBuild, tables
  <2> QED
    BY <1>0, <1>5, <2>1, PlanReads, CaptureKept, SeedKept, CurveKept
<1>6. CASE CommitBuild
  <2>1. Grown /\ UNCHANGED <<accounts, seed, capture, honest>> /\ build'.at = "idle"
    BY <1>6, SameGrows DEF CommitBuild, Idle
  <2>2. BuildInv'
    BY <2>1 DEF BuildInv
  <2> QED
    BY <1>0, <1>6, <2>1, <2>2, CommitFolds, CaptureKept, SeedKept
<1>7. CASE Abort
  <2>1. Grown /\ UNCHANGED <<accounts, seed, daily, resume, honest>>
    BY <1>7, SameGrows DEF Abort, tables
  <2>2. (capture' = capture \/ capture'.at = "idle") /\ (build' = build \/ build'.at = "idle")
    BY <1>7 DEF Abort, Idle
  <2>3. CaptureInv'
    <3>1. CASE capture' = capture
      BY <1>0, <2>1, <3>1, CaptureKept
    <3>2. CASE capture'.at = "idle"
      BY <1>0, <2>1, <3>2 DEF CaptureInv
    <3> QED
      BY <2>2, <3>1, <3>2
  <2>4. BuildInv'
    <3>1. CASE build' = build
      BY <2>1, <3>1, BuildKept
    <3>2. CASE build'.at = "idle"
      BY <3>2 DEF BuildInv
    <3> QED
      BY <2>2, <3>1, <3>2
  <2> QED
    BY <2>1, <2>3, <2>4, SeedKept, CurveKept
<1>8. CASE UNCHANGED vars
  <2>1. Grown /\ UNCHANGED <<accounts, seed, daily, resume, capture, build, honest>>
    BY <1>8, SameGrows DEF vars
  <2> QED
    BY <1>0, <2>1, CaptureKept, SeedKept, BuildKept, CurveKept
<1> QED
  BY <1>1, <1>2, <1>3, <1>4, <1>5, <1>6, <1>7, <1>8, Zenon DEF Next

LEMMA StakeStep ==
  ASSUME StakeInv, [Next]_vars
  PROVE  StakeInv'
<1>1. ChainInv'
  BY ChainStep DEF StakeInv
<1>2. CurveInv' /\ MonthInv'
  BY CurveStep DEF StakeInv
<1>3. HistoryInv'
  BY <1>1, HistoryStep DEF StakeInv
<1>4. CaptureInv' /\ SeedInv' /\ BuildInv' /\ ResumeInv' /\ ClosedInv'
  BY <1>1, FoldsStep
<1> QED
  BY <1>1, <1>2, <1>3, <1>4 DEF StakeInv

\* A closed day determines the node at its end.
LEMMA ClosesNode ==
  ASSUME ChainInv, HistoryInv, NEW d \in Int, NEW s, Closes(chain, node, d, s)
  PROVE  NodeAt(d) \in Nodes /\ s = CountOf(NodeAt(d))
<1>1. PICK i \in 1..(Len(chain) - 1) :
        /\ chain[i].ts <= stake_snapshot_day_end(d) /\ stake_snapshot_day_end(d) < chain[i + 1].ts
        /\ s = CountOf(node[i])
  BY Zenon DEF Closes
<1>2. EndOfDay(d, i)
  BY <1>1 DEF EndOfDay
<1>3. NodeAt(d) = node[i]
  BY <1>2, NodeAtEnd
<1>4. node[i] \in Nodes
  BY HistoryNodes
<1> QED
  BY <1>1, <1>3, <1>4, Zenon

\* The seed of an honest capture is the node's own state at the end of the boundary day, for any
\* chain of transactions (capture_stake_boundary_slice): each transaction's unwinding is the exact
\* inverse of what it did, and the rows read are exactly the blocks after that day.
THEOREM SeedIsTheBoundary == Spec => []SeedIsBoundaryState
<1>1. Init => StakeInv
  BY StakeInit
<1>2. StakeInv /\ [Next]_vars => StakeInv'
  BY StakeStep
<1>3. StakeInv => SeedIsBoundaryState
  <2> SUFFICES ASSUME StakeInv, honest, seed # << >> PROVE seed[1] = NodeAt(BoundaryDay)
    BY DEF SeedIsBoundaryState
  <2>1. seed[1] \in Nodes /\ Closes(chain, node, BoundaryDay, CountOf(seed[1]))
    BY Zenon DEF StakeInv, SeedInv
  <2>2. BoundaryDay \in Int
    BY BoundaryFacts
  <2>3. NodeAt(BoundaryDay) \in Nodes /\ CountOf(seed[1]) = CountOf(NodeAt(BoundaryDay))
    BY <2>1, <2>2, ClosesNode DEF StakeInv
  <2> QED
    BY <2>1, <2>3, CountOfInjective
<1> QED
  BY <1>1, <1>2, <1>3, PTL DEF Spec

\* From an honest seed every closed day of the curve is the node's own state at the end of that
\* day, for any chain and any cut of the builds into resumed, skipped and aborted runs
\* (project_stake_snapshots_forward).
THEOREM CurveIsTheChain == Spec => []CurveIsChain
<1>1. Init => StakeInv
  BY StakeInit
<1>2. StakeInv /\ [Next]_vars => StakeInv'
  BY StakeStep
<1>3. StakeInv => CurveIsChain
  <2> SUFFICES ASSUME StakeInv, honest, NEW d \in BuiltDays, d < Max(BuiltDays)
               PROVE  daily[d] = Point(CountStakes(NodeAt(d).stakes, NodeAt(d).supply))
    BY DEF CurveIsChain
  <2>1. PICK s : Closes(chain, node, d, s) /\ daily[d] = Point(s)
    BY DEF StakeInv, ClosedInv
  <2>2. d \in Int
    BY CalendarFacts DEF StakeInv, CurveInv
  <2>3. s = CountOf(NodeAt(d))
    BY <2>1, <2>2, ClosesNode DEF StakeInv
  <2> QED
    BY <2>1, <2>3, Zenon DEF CountOf
<1> QED
  BY <1>1, <1>2, <1>3, PTL DEF Spec

\* The tables a build derives from the curve agree with it after every statement, even from a
\* wrong seed, and the counters of the saved state are a recount of its stakes
\* (save_stake_snapshot_resume, upsert_stake_snapshot_monthlies_from_daily).
THEOREM DerivedFollowsCurve == Spec => []DerivedMatchesCurve
<1>1. Init => StakeInv
  BY StakeInit
<1>2. StakeInv /\ [Next]_vars => StakeInv'
  BY StakeStep
<1>3. StakeInv => DerivedMatchesCurve
  <2> SUFFICES ASSUME StakeInv PROVE DerivedMatchesCurve
    OBVIOUS
  <2>1. resume # << >> => /\ resume[1].day + SecondsPerDay = Max(BuiltDays)
                          /\ daily[resume[1].day] = Point(resume[1].state)
    BY LastDay DEF StakeInv, CurveInv, LastBuilt
  <2>2. resume # << >> => resume[1].state = CountStakes(resume[1].state.stakes, resume[1].state.supply)
    <3> SUFFICES ASSUME resume # << >> PROVE resume[1].state = CountStakes(resume[1].state.stakes, resume[1].state.supply)
      OBVIOUS
    <3> DEFINE s == resume[1].state
    <3>1. Counted(s)
      BY DEF StakeInv, ResumeInv
    <3> HIDE DEF s
    <3>2. s = CountStakes(s.stakes, s.supply)
      BY <3>1, CountedRecounts, Zenon
    <3> QED
      BY <3>2 DEF s
  <2>3. /\ BuiltDays # {} =>
             \A m \in {x \in 0 .. Max(BuiltDays) : x % MonthSeconds = 0 /\ x > BoundaryDay} :
               /\ m \in DOMAIN monthly
               /\ monthly[m] = daily[Max({d \in DOMAIN daily : d < m + MonthSeconds})].masters
        /\ daily[BoundaryDay].source = "legacy" /\ monthly[MonthStart(BoundaryDay)] = 0
    BY DEF StakeInv, MonthInv
  <2> QED
    BY <2>1, <2>2, <2>3, Zenon DEF DerivedMatchesCurve
<1> QED
  BY <1>1, <1>2, <1>3, PTL DEF Spec
=============================================================================
