--------------------------- MODULE PhysicsProofs ---------------------------
(***************************************************************************)
(* Physics for every factory.  Time: whatever the calendar, the durations  *)
(* and the number of vehicles, an interval never leaps over a date, whether*)
(* it is taken at once or tick by tick.  Movement: on every road, nobody   *)
(* meets and nobody changes places whatever a mover proposes, and what the *)
(* shared mover proposes is done as it stands.                             *)
(***************************************************************************)
EXTENDS FactoryClock, Traffic, FiniteSetTheorems, TLAPS

----------------------------------------------------------------------------
\* Time.


\* The interval under way ends no later than any date; nothing but the passing
\* of its ticks has happened since it began.
IntervalFits == left > 0 => \A d \in Dates : tick + left <= d
MovesByTick == left > 0 /\ moving => left = 1

\* What has been released and is down is what the calendar says.
OnCalendar ==
    /\ released = {j \in Jobs : Release[j] <= tick}
    /\ down = {m \in Machines : DownAt(m, tick)}

\* Who was not asked at the boundary has been asked recently, or waits.
RetryPending ==
    left > 0 => \A v \in offers \ target : due[v] <= tick => tick < wake[v] + ReevaluateTicks

ClockInv ==
    ClockTypeOK /\ NothingOvershot /\ IntervalFits /\ MovesByTick /\ OnCalendar /\ RetryPending

----------------------------------------------------------------------------
LEMMA InitClock == ClockInit => ClockInv
<1> SUFFICES ASSUME ClockInit PROVE ClockInv
  OBVIOUS
<1>1. ClockTypeOK
  <2>1. -ReevaluateTicks \in Int
    BY CalendarType
  <2>2. /\ wake \in [Vehicles -> Int] /\ due \in [Vehicles -> Nat]
        /\ work \in [Machines -> Int]
    BY <2>1 DEF ClockInit
  <2>3. tick \in Nat /\ left \in Nat /\ moving \in BOOLEAN /\ recorded \in BOOLEAN
    BY DEF ClockInit
  <2>4. /\ released \subseteq Jobs /\ down \subseteq Machines
        /\ offers \subseteq Vehicles /\ changed \subseteq Vehicles /\ target \subseteq Vehicles
    BY DEF ClockInit
  <2> QED
    BY <2>2, <2>3, <2>4 DEF ClockTypeOK
<1>2. NothingOvershot
  BY CalendarType DEF ClockInit, NothingOvershot
<1>3. OnCalendar
  BY CalendarType DEF ClockInit, OnCalendar
<1>4. IntervalFits /\ MovesByTick /\ RetryPending
  BY DEF ClockInit, IntervalFits, MovesByTick, RetryPending
<1> QED
  BY <1>1, <1>2, <1>3, <1>4 DEF ClockInv

\* decisions() chooses an interval that fits.
LEMMA DecideStep == ASSUME ClockInv, Decide PROVE ClockInv'
<1> USE CalendarType DEF ClockInv
<1>1. PICK starts \in SUBSET {m \in Machines : ~Processing(m) /\ m \notin down} :
        \E d \in [starts -> Durations] :
          work' = [m \in Machines |-> IF m \in starts THEN d[m] ELSE work[m]]
  BY DEF Decide
<1>2. PICK d \in [starts -> Durations] :
        work' = [m \in Machines |-> IF m \in starts THEN d[m] ELSE work[m]]
  BY <1>1
<1>3. PICK waiting \in SUBSET Asked, accepted \in SUBSET Asked :
        /\ due' = [v \in Vehicles |-> IF v \in waiting THEN tick + 1
                                      ELSE IF v \notin target /\ due[v] <= tick THEN 0
                                      ELSE due[v]]
        /\ target' = target \cup accepted
        /\ \E others \in SUBSET Vehicles : changed' = (changed \ Asked) \cup others
  BY DEF Decide
<1>4. /\ tick' = tick /\ released' = released /\ down' = down /\ offers' = offers
      /\ recorded' = recorded /\ moving' \in BOOLEAN
      /\ wake' = [v \in Vehicles |-> IF v \in Asked THEN tick ELSE wake[v]]
      /\ left = 0 /\ left' \in 1..TickLimit /\ IsInterval(left)'
  BY DEF Decide
<1>5. work' \in [Machines -> Int] /\ \A m \in Machines : work'[m] >= 0
  <2>1. \A m \in Machines : work[m] \in Int /\ work[m] >= 0
    BY DEF ClockTypeOK, NothingOvershot
  <2>2. \A m \in starts : d[m] \in Int /\ d[m] >= 0
    <3> SUFFICES ASSUME NEW m \in starts PROVE d[m] \in Int /\ d[m] >= 0
      OBVIOUS
    <3>1. d[m] \in Durations
      BY <1>2
    <3>2. \A n \in Durations : n \in Int /\ n >= 0
      BY CalendarType
    <3> QED
      BY <3>1, <3>2
  <2> QED
    BY <1>2, <2>1, <2>2
<1>6. Asked \subseteq Vehicles
  BY DEF Asked, ClockTypeOK
<1>7. wake' \in [Vehicles -> Int] /\ due' \in [Vehicles -> Nat]
  BY <1>3, <1>4 DEF ClockTypeOK
<1>8. ClockTypeOK'
  BY <1>3, <1>4, <1>5, <1>6, <1>7 DEF ClockTypeOK
<1>9. IntervalFits' /\ MovesByTick'
  <2>1. CASE moving'
    <3>1. left' = 1 /\ MovesByTick'
      BY <1>4, <2>1 DEF IsInterval, MovesByTick
    <3>2. \A e \in Dates' : tick' < e /\ e \in Int
      BY <1>5, <1>7, <1>8 DEF Dates, Releases, Shifts, Finishes, Retries, Waits, ClockTypeOK, Decide
    <3> QED
      BY <1>8, <3>1, <3>2 DEF IntervalFits, ClockTypeOK
  <2>2. CASE ~moving'
    BY <1>4, <2>2 DEF IsInterval, IntervalFits, MovesByTick
  <2> QED
    BY <2>1, <2>2
<1>10. NothingOvershot'
  <2>1. TickLimit \in Dates'
    BY DEF Dates
  <2> QED
    BY <1>4, <1>5, <1>9, <2>1 DEF NothingOvershot, IntervalFits
<1>11. OnCalendar'
  BY <1>4 DEF OnCalendar, DownAt
<1>12. RetryPending'
  <2> SUFFICES ASSUME NEW v \in Vehicles, v \in offers, v \notin target', due'[v] <= tick
               PROVE  tick < wake'[v] + ReevaluateTicks
    BY <1>4 DEF RetryPending, ClockTypeOK
  <2>1. CASE v \in Asked
    BY <1>4, <2>1 DEF ClockTypeOK
  <2>2. CASE v \notin Asked
    <3>1. v \notin target /\ v \notin waiting /\ wake'[v] = wake[v]
      BY <1>3, <1>4, <2>2
    <3>2. due[v] <= tick
      BY <1>3, <3>1 DEF ClockTypeOK
    <3>3. ~(tick - wake[v] >= ReevaluateTicks)
      BY <2>2, <3>1, <3>2 DEF Asked
    <3> QED
      BY <3>1, <3>3 DEF ClockTypeOK
  <2> QED
    BY <2>1, <2>2
<1> QED
  BY <1>8, <1>9, <1>10, <1>11, <1>12

----------------------------------------------------------------------------
\* What the passing of time does, whether the interval ends with it or not.

LEMMA AdvanceTime ==
    ASSUME ClockInv, Advance
    PROVE  /\ tick \in Nat /\ left \in Nat /\ tick' \in Nat /\ left' \in Nat
           /\ tick < tick' /\ tick' + left' = tick + left
           /\ \A d \in Dates : d \in Int /\ tick' + left' <= d
           /\ left' > 0 => left > 1 /\ tick' = tick + 1 /\ ~moving
<1>1. tick \in Nat /\ left \in Nat /\ left > 0
  BY DEF ClockInv, ClockTypeOK, Advance
<1>2. \E elapsed \in 1..left :
         /\ tick' = tick + elapsed /\ left' = left - elapsed
         /\ elapsed = left \/ elapsed = 1
  BY <1>1 DEF Advance, ClockInv, ClockTypeOK
<1>3. \A d \in Dates : d \in Int
  BY CalendarType DEF Dates, Releases, Shifts, Finishes, Retries, Waits, ClockInv, ClockTypeOK
<1> QED
  BY <1>1, <1>2, <1>3 DEF ClockInv, IntervalFits, MovesByTick

\* A release comes at its tick.
LEMMA ReleaseOnTime ==
    ASSUME ClockInv, Advance, NEW j \in released' \ released
    PROVE  Release[j] = tick' /\ left' = 0
<1>1. j \in Jobs /\ Release[j] <= tick' /\ ~(Release[j] <= tick)
  BY DEF Advance, ClockInv, OnCalendar
<1>2. Release[j] \in Dates
  BY <1>1, CalendarType DEF Dates, Releases, ClockInv, ClockTypeOK
<1> QED
  BY <1>1, <1>2, AdvanceTime, CalendarType

\* An outage begins at its tick.
LEMMA BreakdownOnTime ==
    ASSUME ClockInv, Advance, NEW m \in Machines, m \in down', m \notin down
    PROVE  (\E o \in Outages : o.machine = m /\ o.start = tick') /\ left' = 0
<1>1. DownAt(m, tick') /\ ~DownAt(m, tick)
  BY DEF Advance, ClockInv, OnCalendar
<1>2. PICK o \in Outages :
        /\ o.machine = m /\ o.start <= tick' /\ tick' < o.end
        /\ \A p \in Outages : p.machine = m /\ p.start <= tick' => p.start <= o.start
  BY <1>1 DEF DownAt
<1>3. \A p \in Outages : p.start \in Nat /\ p.end \in Nat
  BY CalendarType
<1>4. ~(o.start <= tick)
  <2> SUFFICES ASSUME o.start <= tick PROVE FALSE
    OBVIOUS
  <2>1. tick < o.end
    BY <1>2, <1>3, AdvanceTime
  <2>2. \A p \in Outages : p.machine = m /\ p.start <= tick => p.start <= o.start
    BY <1>2, <1>3, AdvanceTime
  <2> QED
    BY <1>1, <1>2, <2>1, <2>2 DEF DownAt
<1>5. o.start \in Dates
  BY <1>3, <1>4, AdvanceTime DEF Dates, Shifts
<1> QED
  BY <1>2, <1>3, <1>5, AdvanceTime

\* An outage ends at its tick, and the machine is repaired with the last one
\* that has begun: no outage lies within another one.
LEMMA RepairOnTime ==
    ASSUME ClockInv, Advance, NEW m \in Machines, m \in down, m \notin down'
    PROVE  /\ (\E o \in Outages : o.machine = m /\ o.end = tick') /\ left' = 0
           /\ \A o \in Outages : o.machine = m /\ o.start <= tick' => o.end <= tick'
<1>1. DownAt(m, tick) /\ ~DownAt(m, tick')
  BY DEF Advance, ClockInv, OnCalendar
<1>2. PICK o \in Outages :
        /\ o.machine = m /\ o.start <= tick /\ tick < o.end
        /\ \A p \in Outages : p.machine = m /\ p.start <= tick => p.start <= o.start
  BY <1>1 DEF DownAt
<1>3. \A p \in Outages : p.start \in Nat /\ p.end \in Nat
  BY CalendarType
<1>4. \A p \in Outages : p.start > tick => tick' + left' <= p.start
  BY <1>3, AdvanceTime DEF Dates, Shifts
<1>5. o.end \in Dates
  BY <1>2, <1>3, AdvanceTime DEF Dates, Shifts
<1>6. CASE tick' < o.end
  <2>1. PICK p \in Outages : p.machine = m /\ p.start <= tick' /\ ~(p.start <= o.start)
    BY <1>1, <1>2, <1>3, <1>6, AdvanceTime DEF DownAt
  <2>2. p.start = tick'
    BY <1>2, <1>3, <1>4, <2>1, AdvanceTime
  <2>3. tick' < p.end
    BY <2>2, OutagesNotEmpty
  <2>4. DownAt(m, tick')
    BY <1>3, <2>1, <2>2, <2>3 DEF DownAt
  <2> QED
    BY <1>1, <2>4
<1>7. o.end = tick' /\ left' = 0
  BY <1>2, <1>3, <1>5, <1>6, AdvanceTime
<1>8. ASSUME NEW p \in Outages, p.machine = m, p.start <= tick', ~(p.end <= tick')
      PROVE  FALSE
  <2>1. p.start # tick'
    <3> SUFFICES ASSUME p.start = tick' PROVE FALSE
      OBVIOUS
    <3>1. DownAt(m, tick')
      BY <1>3, <1>8, OutagesNotEmpty DEF DownAt
    <3> QED
      BY <1>1, <3>1
  <2>2. p.start <= tick
    BY <1>3, <1>4, <1>8, <2>1, AdvanceTime
  <2>3. p.start <= o.start
    BY <1>2, <1>8, <2>2
  <2>4. p.end <= o.end \/ p = o
    BY <1>2, <1>8, <2>3, OutagesNotNested
  <2> QED
    BY <1>3, <1>7, <1>8, <2>4
<1> QED
  BY <1>2, <1>7, <1>8

\* No operation is overrun, and none ends inside an interval.
LEMMA WorkOnTime ==
    ASSUME ClockInv, Advance, NEW m \in Machines
    PROVE  /\ work'[m] \in Int /\ work'[m] >= 0
           /\ IF Processing(m) /\ m \notin down THEN work'[m] = work[m] - (tick' - tick)
              ELSE work'[m] = work[m]
           /\ left' > 0 /\ Processing(m) => Processing(m)'
<1>1. work[m] \in Int /\ work[m] >= 0
  BY DEF ClockInv, ClockTypeOK, NothingOvershot
<1>2. IF Processing(m) /\ m \notin down THEN work'[m] = work[m] - (tick' - tick)
      ELSE work'[m] = work[m]
  BY <1>1 DEF Advance, ClockInv, ClockTypeOK
<1>3. CASE Processing(m) /\ m \notin down
  <2>1. tick + work[m] \in Dates
    BY <1>1, <1>3, AdvanceTime DEF Dates, Finishes, Processing
  <2> QED
    BY <1>1, <1>2, <1>3, <2>1, AdvanceTime DEF Processing
<1>4. CASE ~(Processing(m) /\ m \notin down)
  BY <1>1, <1>2, <1>4 DEF Processing
<1> QED
  BY <1>3, <1>4

\* Nothing happens inside an interval.
LEMMA QuietInside == ASSUME ClockInv, Advance, left' > 0 PROVE ~Happens
<1>1. released' = released
  <2>1. released \subseteq released'
    BY DEF Advance
  <2>2. ASSUME NEW j \in released' \ released PROVE FALSE
    <3>1. left' = 0
      BY ReleaseOnTime
    <3> QED
      BY <3>1
  <2> QED
    BY <2>1, <2>2
<1>2. down' = down
  <2>1. down \subseteq Machines /\ down' \subseteq Machines
    BY DEF Advance, ClockInv, ClockTypeOK
  <2> QED
    BY <2>1, BreakdownOnTime, RepairOnTime, AdvanceTime
<1> QED
  BY <1>1, <1>2, WorkOnTime DEF Happens

LEMMA AdvanceStep == ASSUME ClockInv, Advance PROVE ClockInv'
<1>1. work' \in [Machines -> Int] /\ \A m \in Machines : work'[m] >= 0
  <2>1. \E f : work' = [m \in Machines |-> f[m]]
    BY DEF Advance
  <2> QED
    BY <2>1, WorkOnTime
<1>2. ClockTypeOK'
  <2>1. released' \subseteq Jobs /\ down' \subseteq Machines
    BY DEF Advance, ClockInv, ClockTypeOK
  <2>2. offers' \subseteq Vehicles /\ changed' \subseteq Vehicles /\ target' \subseteq Vehicles
    BY DEF Advance, ClockInv, ClockTypeOK
  <2>3. wake' = wake /\ due' = due /\ moving' = moving /\ recorded' = recorded
    BY DEF Advance
  <2> QED
    BY <1>1, <2>1, <2>2, <2>3, AdvanceTime DEF ClockInv, ClockTypeOK
<1>3. OnCalendar'
  <2>1. down' = {m \in Machines : DownAt(m, tick')}
    BY DEF Advance
  <2>2. released' = {j \in Jobs : Release[j] <= tick'}
    BY AdvanceTime, CalendarType DEF Advance, ClockInv, OnCalendar
  <2> QED
    BY <2>1, <2>2 DEF OnCalendar, DownAt
<1>4. NothingOvershot'
  BY <1>1, AdvanceTime DEF ClockInv, NothingOvershot
<1>5. MovesByTick'
  BY AdvanceTime DEF MovesByTick, Advance
<1>6. ASSUME left' > 0 PROVE \A d \in Dates' : tick' + left' <= d
  <2>1. down' = down /\ wake' = wake /\ due' = due
    BY <1>6, QuietInside DEF Happens, Advance
  <2> SUFFICES ASSUME NEW d \in Dates', d # tick' + ReevaluateTicks
               PROVE  d \in Dates
    <3>1. tick + ReevaluateTicks \in Dates
      BY CalendarType, AdvanceTime DEF Dates, Retries
    <3> QED
      BY <3>1, AdvanceTime, CalendarType
  <2>2. CASE d \in Finishes'
    <3>1. PICK m \in Machines : d = tick' + work'[m] /\ Processing(m)' /\ m \notin down
      BY <2>1, <2>2 DEF Finishes
    <3>2. Processing(m) /\ d = tick + work[m] /\ work[m] \in Int /\ work[m] >= 0
      BY <3>1, WorkOnTime, AdvanceTime DEF Processing, ClockInv, ClockTypeOK, NothingOvershot
    <3> QED
      BY <3>1, <3>2, AdvanceTime DEF Dates, Finishes, Processing
  <2>3. CASE d \notin Finishes'
    <3>1. d = TickLimit \/ (d > tick' /\ d \in Releases \cup Shifts \cup Retries \cup Waits)
      BY <2>1, <2>3 DEF Dates, Retries, Waits, Releases, Shifts
    <3>2. d \in Int
      BY <1>2, <3>1, CalendarType DEF Releases, Shifts, Retries, Waits, ClockInv, ClockTypeOK
    <3> QED
      BY <3>1, <3>2, AdvanceTime DEF Dates
  <2> QED
    BY <2>2, <2>3
<1>7. IntervalFits'
  BY <1>6 DEF IntervalFits
<1>8. RetryPending'
  <2> SUFFICES ASSUME left' > 0, NEW v \in offers' \ target', due'[v] <= tick'
               PROVE  tick' < wake'[v] + ReevaluateTicks
    BY DEF RetryPending
  <2>1. offers' = offers /\ target' = target /\ wake' = wake /\ due' = due
    BY QuietInside, AdvanceTime DEF Advance
  <2>2. v \in Vehicles /\ due[v] \in Nat /\ wake[v] \in Int
    BY <2>1 DEF ClockInv, ClockTypeOK
  <2>3. due[v] <= tick
    <3>1. due[v] > tick => due[v] \in Dates
      BY <2>2 DEF Dates, Waits
    <3> QED
      BY <2>1, <2>2, <3>1, AdvanceTime
  <2>4. tick < wake[v] + ReevaluateTicks
    BY <2>1, <2>3, AdvanceTime DEF ClockInv, RetryPending
  <2>5. wake[v] + ReevaluateTicks \in Dates
    BY <2>2, <2>4 DEF Dates, Retries
  <2> QED
    BY <2>1, <2>2, <2>5, AdvanceTime, CalendarType
<1> QED
  BY <1>2, <1>3, <1>4, <1>5, <1>7, <1>8 DEF ClockInv

LEMMA Clock == ClockSpec => []ClockInv
<1>1. ClockInv /\ UNCHANGED clockVars => ClockInv'
  BY DEF ClockInv, clockVars, ClockTypeOK, NothingOvershot, IntervalFits, MovesByTick, OnCalendar,
         RetryPending, Dates, Finishes, Retries, Waits, Processing, DownAt
<1>2. ClockInv /\ [ClockNext]_clockVars => ClockInv'
  BY <1>1, DecideStep, AdvanceStep DEF ClockNext
<1> QED
  BY InitClock, <1>2, PTL DEF ClockSpec

----------------------------------------------------------------------------
\* Time, calendar and wake clock keep their types.
THEOREM ClockTypeCorrect == ClockSpec => []ClockTypeOK
  BY Clock, PTL DEF ClockInv

\* No operation is overrun by a jump of the clock, and the run ends at its limit.
THEOREM NeverOvershoots == ClockSpec => []NothingOvershot
  BY Clock, PTL DEF ClockInv

\* The idle jump of idle_interval() leaps over no release, breakdown or repair,
\* and a recorded run, which goes tick by tick, sees nothing that it skips.
THEOREM AlwaysOnTime == ClockSpec => OnTime
<1>1. ClockInv /\ [ClockNext]_clockVars =>
        [/\ \A j \in released' \ released : Release[j] = tick'
         /\ \A m \in Machines : m \in down' /\ m \notin down =>
               \E o \in Outages : o.machine = m /\ o.start = tick'
         /\ \A m \in Machines : m \in down /\ m \notin down' =>
               /\ \E o \in Outages : o.machine = m /\ o.end = tick'
               /\ \A o \in Outages : o.machine = m /\ o.start <= tick' => o.end <= tick'
         /\ left' > 0 /\ tick' # tick => ~Happens]_clockVars
  <2> SUFFICES ASSUME ClockInv, ClockNext
               PROVE  /\ \A j \in released' \ released : Release[j] = tick'
                      /\ \A m \in Machines : m \in down' /\ m \notin down =>
                            \E o \in Outages : o.machine = m /\ o.start = tick'
                      /\ \A m \in Machines : m \in down /\ m \notin down' =>
                            /\ \E o \in Outages : o.machine = m /\ o.end = tick'
                            /\ \A o \in Outages : o.machine = m /\ o.start <= tick' => o.end <= tick'
                      /\ left' > 0 /\ tick' # tick => ~Happens
    OBVIOUS
  <2>1. CASE Decide
    BY <2>1 DEF Decide
  <2>2. CASE Advance
    BY <2>2, ReleaseOnTime, BreakdownOnTime, RepairOnTime, QuietInside
  <2> QED
    BY <2>1, <2>2 DEF ClockNext
<1> QED
  BY <1>1, Clock, PTL DEF ClockSpec, OnTime

\* No vehicle with an owner to apply to sleeps longer than its empty wait or the
\* retry interval allow.
THEOREM RetriesInTime == ClockSpec => RetryOnTime
<1>1. ClockInv /\ [ClockNext]_clockVars =>
        [\A v \in offers \ target :
          tick' # tick => tick' <= IF due[v] > tick THEN due[v] ELSE wake[v] + ReevaluateTicks]_clockVars
  <2> SUFFICES ASSUME ClockInv, ClockNext, NEW v \in offers \ target, tick' # tick
               PROVE  tick' <= IF due[v] > tick THEN due[v] ELSE wake[v] + ReevaluateTicks
    OBVIOUS
  <2>1. Advance
    BY DEF ClockNext, Decide
  <2>2. v \in Vehicles /\ due[v] \in Nat /\ wake[v] \in Int
    BY DEF ClockInv, ClockTypeOK
  <2>3. CASE due[v] > tick
    <3>1. due[v] \in Dates
      BY <2>2, <2>3 DEF Dates, Waits
    <3> QED
      BY <2>1, <2>2, <2>3, <3>1, AdvanceTime
  <2>4. CASE ~(due[v] > tick)
    <3>1. tick < wake[v] + ReevaluateTicks
      BY <2>1, <2>2, <2>4, AdvanceTime DEF ClockInv, RetryPending, Advance
    <3>2. wake[v] + ReevaluateTicks \in Dates
      BY <2>2, <3>1 DEF Dates, Retries
    <3> QED
      BY <2>1, <2>2, <2>4, <3>2, AdvanceTime, CalendarType
  <2> QED
    BY <2>3, <2>4
<1> QED
  BY <1>1, Clock, PTL DEF ClockSpec, RetryOnTime

----------------------------------------------------------------------------
\* Movement, for any mover: Rejected is closed, and it is the least closed set
\* above the conflicts.


\* What holds in every state of MoveSpec.
MoveInv == MoveTypeOK /\ NoCollision

\* Who conflicts is rejected, and so is whoever follows somebody that stays:
\* the loop of step() ends with nothing left to reject.
LEMMA RejectedClosed ==
    /\ Conflicts \subseteq Rejected
    /\ Closed(Rejected)
<1>1. Conflicts \subseteq Rejected
  BY DEF Conflicts, Rejected
<1>2. Closed(Rejected)
  <2> SUFFICES ASSUME NEW v \in Moving, NEW w \in Vehicles, w # v,
                      cell[w] = command[v], Stays(w, Rejected),
                      NEW R \in SUBSET Moving, Conflicts \subseteq R, Closed(R)
               PROVE  v \in R
    BY DEF Closed, Rejected
  <2>1. Stays(w, R)
    BY DEF Stays, Rejected
  <2> QED
    BY <2>1 DEF Closed
<1> QED
  BY <1>1, <1>2

\* Nobody is rejected who is outside one closed set above the conflicts.
LEMMA RejectedLeast ==
    ASSUME NEW R \in SUBSET Moving, Conflicts \subseteq R, Closed(R)
    PROVE  Rejected \subseteq R
  BY DEF Rejected

\* After a step two vehicles stand in one cell only if they did before it.
LEMMA StepKeepsApart ==
    ASSUME MoveInv, Step
    PROVE  MoveInv'
<1>1. MoveTypeOK'
  BY DEF MoveInv, MoveTypeOK, Step, CellAfter, Moving
<1>2. NoCollision'
  <2> SUFFICES ASSUME NEW v \in Vehicles, NEW w \in Vehicles,
                      CellAfter[v] = CellAfter[w], v # w
               PROVE  FALSE
    BY DEF NoCollision, Step
  <2>1. CASE v \in Moving \ Rejected /\ w \in Moving \ Rejected
    <3>1. v \in Conflicts
      BY <2>1 DEF CellAfter, Conflicts
    <3> QED
      BY <2>1, <3>1, RejectedClosed
  <2>2. ASSUME NEW a \in Vehicles, NEW b \in Vehicles, a # b, CellAfter[a] = CellAfter[b],
               a \in Moving \ Rejected, b \notin Moving \ Rejected
        PROVE  FALSE
    <3>1. cell[b] = command[a] /\ Stays(b, Rejected)
      BY <2>2 DEF CellAfter, Stays
    <3> QED
      BY <2>2, <3>1, RejectedClosed DEF Closed
  <2>3. CASE v \notin Moving \ Rejected /\ w \notin Moving \ Rejected
    BY <2>3 DEF CellAfter, MoveInv, NoCollision
  <2> QED
    BY <2>1, <2>2, <2>3
<1> QED
  BY <1>1, <1>2 DEF MoveInv

LEMMA Invariance == MoveSpec => []MoveInv
<1>1. MoveInit => MoveInv
  BY DEF MoveInit, MoveInv, MoveTypeOK, NoCollision
<1>2. MoveInv /\ [Propose \/ Step]_moveVars => MoveInv'
  <2> SUFFICES ASSUME MoveInv, [Propose \/ Step]_moveVars PROVE MoveInv'
    OBVIOUS
  <2>1. CASE Propose
    BY <2>1 DEF Propose, MoveInv, MoveTypeOK, NoCollision
  <2>2. CASE Step
    BY <2>2, StepKeepsApart
  <2>3. CASE UNCHANGED moveVars
    BY <2>3 DEF moveVars, MoveInv, MoveTypeOK, NoCollision
  <2> QED
    BY <2>1, <2>2, <2>3
<1> QED
  BY <1>1, <1>2, PTL DEF MoveSpec

----------------------------------------------------------------------------
\* However many vehicles move at once and whatever is asked of them, no two
\* are in one cell afterwards (ProductionSimulator.step).
THEOREM NeverCollide == MoveSpec => []NoCollision
  BY Invariance, PTL DEF MoveInv

\* No two vehicles pass through each other.
THEOREM NeverSwap == MoveSpec => NoSwap
<1>1. MoveInv /\ [Propose \/ Step]_moveVars =>
        [\A v, w \in Vehicles : v # w => ~(cell'[v] = cell[w] /\ cell'[w] = cell[v])]_moveVars
  <2> SUFFICES ASSUME MoveInv, Propose \/ Step, NEW v \in Vehicles, NEW w \in Vehicles, v # w,
                      cell'[v] = cell[w], cell'[w] = cell[v]
               PROVE  FALSE
    BY DEF moveVars
  <2>1. cell[v] # cell[w]
    BY DEF MoveInv, NoCollision
  <2>2. CASE Propose
    BY <2>1, <2>2 DEF Propose
  <2>3. CASE Step
    <3>1. v \in Moving \ Rejected /\ w \in Moving \ Rejected
      BY <2>1, <2>3 DEF Step, CellAfter
    <3>2. command[v] = cell[w] /\ command[w] = cell[v]
      BY <2>3, <3>1 DEF Step, CellAfter
    <3>3. v \in Conflicts
      BY <3>1, <3>2 DEF Conflicts
    <3> QED
      BY <3>1, <3>3, RejectedClosed
  <2> QED
    BY <2>2, <2>3
<1> QED
  BY <1>1, Invariance, PTL DEF MoveSpec, NoSwap

\* Vehicles that follow one another into cells that become free all move: a
\* rejection never spreads beyond those that it has to stop.
THEOREM FollowersDoMove == MoveSpec => FollowersMove
<1>1. MoveInv /\ [Propose \/ Step]_moveVars =>
        [\A S \in SUBSET Moving : Following(S) => \A v \in S : cell'[v] = command[v]]_moveVars
  <2> SUFFICES ASSUME MoveInv, Propose \/ Step, NEW S \in SUBSET Moving, Following(S),
                      NEW v \in S
               PROVE  cell'[v] = command[v]
    BY DEF moveVars
  <2>1. CASE Propose
    BY <2>1 DEF Propose, Awaiting, Moving
  <2>2. CASE Step
    <3> DEFINE R == Moving \ S
    <3>1. Conflicts \subseteq R
      BY DEF Conflicts, Following, Moving
    <3>2. Closed(R)
      <4> SUFFICES ASSUME NEW a \in Moving, NEW w \in Vehicles, w # a,
                          cell[w] = command[a], Stays(w, R)
                   PROVE  a \in R
        BY DEF Closed
      <4>1. a \notin S
        BY DEF Following, Stays
      <4> QED
        BY <4>1
    <3>3. v \in Moving \ Rejected
      BY <3>1, <3>2, RejectedLeast
    <3> QED
      BY <2>2, <3>3 DEF Step, CellAfter, Moving
  <2> QED
    BY <2>1, <2>2
<1> QED
  BY <1>1, Invariance, PTL DEF MoveSpec, FollowersMove

----------------------------------------------------------------------------
\* Movement, for the shared mover: its search for cells, however it ranks the
\* vehicles and their choices.

\* A reservation on the way: the cells that vehicles have, while calls 1..i of
\* reserve() wait in st, the last of them for a cell of its own.

\* Everyone has a cell next to its own, or its own.
Legal(B) == \A v \in Vehicles : B[v] # None => B[v] \in NextCells(v)

\* No two have the same cell, nor each the cell of the other.
Apart(B) ==
    \A v, w \in Vehicles : v # w =>
        /\ B[v] # None => B[v] # B[w]
        /\ ~(B[v] = cell[w] /\ B[w] = cell[v])

\* Every call waits because its vehicle has the cell of the next one.
Chain(B, st, i) ==
    /\ \A j \in 1..(i - 1) : B[st[j].vehicle] = cell[st[j + 1].vehicle]
    /\ i > 0 => B[st[i].vehicle] = None

\* Nobody has the cell of a vehicle that has none itself, except the vehicle
\* that called for it.
Backed(B, st, i) ==
    \A v, w \in Vehicles : B[v] = cell[w] /\ B[w] = None => i > 1 /\ w = st[i].vehicle

Sound(B, st, i) ==
    /\ Legal(B) /\ Apart(B)
    /\ \A v \in plan.service : B[v] = cell[v]
    /\ Chain(B, st, i) /\ Backed(B, st, i)

Maps == [Vehicles -> Cells \cup {None}]
Frames == [vehicle : Vehicles, tried : SUBSET Cells, saved : Maps]

SearchTypeOK ==
    /\ assigned \in Maps /\ stack \in Seq(Frames) /\ mover \in BOOLEAN
    /\ Searching => Awaiting /\ plan.service \subseteq Vehicles
    /\ stack # <<>> => Searching

\* What is assigned is sound, and so is what every waiting call has saved.
ReservationInv ==
    Searching =>
        /\ Sound(assigned, stack, Len(stack))
        /\ \A i \in 1..(Len(stack) - 1) : Sound(stack[i].saved, stack, i)

\* No call has tried the cell where its vehicle stands.
OwnCellInv == \A i \in 1..Len(stack) : cell[stack[i].vehicle] \notin stack[i].tried

\* No vehicle is the object of two calls.
DistinctCalls ==
    \A i, j \in 1..Len(stack) : i # j => stack[i].vehicle # stack[j].vehicle

\* The command of the mover is a sound reservation in which everyone has a cell.
CommandInv ==
    mover => Legal(command) /\ Apart(command) /\ \A v \in service : command[v] = cell[v]

SearchInv ==
    MoveInv /\ SearchTypeOK /\ ReservationInv /\ OwnCellInv /\ DistinctCalls /\ CommandInv

----------------------------------------------------------------------------
LEMMA NoneIsNoCell == None \notin Cells
  BY PortType

LEMMA NextCellsType ==
    ASSUME MoveInv, NEW v \in Vehicles
    PROVE  NextCells(v) \subseteq Cells /\ cell[v] \in NextCells(v)
  BY RoadType DEF MoveInv, MoveTypeOK, NextCells

\* The call on the top of the stack, and what it is about.
LEMMA TopCall ==
    ASSUME SearchInv, stack # <<>>
    PROVE  /\ Len(stack) \in Nat \ {0}
           /\ Top \in Frames /\ Top.vehicle \in Vehicles
           /\ assigned[Top.vehicle] = None
           /\ Searching /\ Sound(assigned, stack, Len(stack))
           /\ \A i \in 1..Len(stack) : stack[i] \in Frames /\ stack[i].vehicle \in Vehicles
<1>1. stack \in Seq(Frames) /\ Searching
  BY DEF SearchInv, SearchTypeOK
<1>2. Len(stack) \in Nat \ {0}
  BY <1>1
<1>3. \A i \in 1..Len(stack) : stack[i] \in Frames /\ stack[i].vehicle \in Vehicles
  <2> SUFFICES ASSUME NEW i \in 1..Len(stack)
               PROVE  stack[i] \in Frames /\ stack[i].vehicle \in Vehicles
    OBVIOUS
  <2>1. stack[i] \in Frames
    BY <1>1
  <2> QED
    BY <2>1 DEF Frames
<1>4. Sound(assigned, stack, Len(stack))
  BY <1>1 DEF SearchInv, ReservationInv
<1> QED
  BY <1>1, <1>2, <1>3, <1>4 DEF Top, Sound, Chain

\* Only a parked vehicle loses its reservation, and only of its own cell.
LEMMA TakenFromParked ==
    ASSUME SearchInv, stack # <<>>, NEW c \in Untried(Top), NEW k \in Taken(c)
    PROVE  /\ k \in Vehicles /\ k # Top.vehicle /\ k \notin plan.service
           /\ assigned[k] = c /\ cell[k] = c
<1>1. c \in Cells
  BY TopCall, NextCellsType DEF Untried, SearchInv
<1>2. Revocable(k)
  BY DEF Untried, Open
<1> QED
  BY <1>1, <1>2, TopCall, NoneIsNoCell DEF Taken, Revocable

\* What `assigned` becomes when the top call takes c.
LEMMA TakingMap ==
    ASSUME SearchInv, stack # <<>>, NEW c \in Untried(Top)
    PROVE  /\ c \in NextCells(Top.vehicle) /\ c \in Cells
           /\ Taking(Top.vehicle, c) \in Maps
           /\ Taking(Top.vehicle, c)[Top.vehicle] = c
           /\ \A k \in Vehicles \ {Top.vehicle} :
                /\ Taking(Top.vehicle, c)[k] # c
                /\ Taking(Top.vehicle, c)[k] # None => Taking(Top.vehicle, c)[k] = assigned[k]
                /\ Taking(Top.vehicle, c)[k] = None => assigned[k] = None \/ k \in Taken(c)
                /\ k \notin Taken(c) => Taking(Top.vehicle, c)[k] = assigned[k]
<1>1. c \in NextCells(Top.vehicle) /\ c \in Cells
  BY TopCall, NextCellsType DEF Untried, SearchInv
<1>2. assigned \in Maps
  BY DEF SearchInv, SearchTypeOK
<1> QED
  BY <1>1, <1>2, TopCall, NoneIsNoCell DEF Taking, Maps, Taken

LEMMA TakingApart ==
    ASSUME SearchInv, stack # <<>>, NEW c \in Untried(Top)
    PROVE  /\ Legal(Taking(Top.vehicle, c)) /\ Apart(Taking(Top.vehicle, c))
           /\ \A v \in plan.service : Taking(Top.vehicle, c)[v] = cell[v]
<1> DEFINE t == Top.vehicle
           B == Taking(t, c)
<1>1. /\ c \in NextCells(t) /\ c \in Cells /\ t \in Vehicles
      /\ B[t] = c
      /\ \A k \in Vehicles \ {t} : /\ B[k] # c
                                   /\ B[k] # None => B[k] = assigned[k]
                                   /\ k \notin Taken(c) => B[k] = assigned[k]
  BY TakingMap, TopCall
<1>2. /\ Legal(assigned) /\ Apart(assigned)
      /\ \A v \in plan.service : assigned[v] = cell[v]
      /\ assigned[t] = None
  BY TopCall DEF Sound
<1>3. \A w \in Vehicles \ {t} : cell[w] = c => assigned[w] # cell[t]
  BY DEF Untried, Open, Occupant
<1>4. cell \in [Vehicles -> Cells]
  BY DEF SearchInv, MoveInv, MoveTypeOK
<1>5. plan.service \subseteq Vehicles \ {t}
  <2>1. plan.service \subseteq Vehicles
    BY TopCall DEF SearchInv, SearchTypeOK
  <2> QED
    BY <1>2, <1>4, <2>1, NoneIsNoCell
<1>6. \A k \in plan.service : k \notin Taken(c)
  BY TakenFromParked
<1> HIDE DEF B, t
<1>7. Legal(B)
  BY <1>1, <1>2 DEF Legal
<1>8. Apart(B)
  <2> SUFFICES ASSUME NEW v \in Vehicles, NEW w \in Vehicles, v # w
               PROVE  /\ B[v] # None => B[v] # B[w]
                      /\ ~(B[v] = cell[w] /\ B[w] = cell[v])
    BY DEF Apart
  <2>1. CASE v = t
    BY <1>1, <1>3, <1>4, <2>1, NoneIsNoCell
  <2>2. CASE w = t
    BY <1>1, <1>3, <1>4, <2>2, NoneIsNoCell
  <2>3. CASE v # t /\ w # t
    <3>1. B[v] # None => B[v] = assigned[v]
      BY <1>1, <2>3
    <3>2. B[w] # None => B[w] = assigned[w]
      BY <1>1, <2>3
    <3> QED
      BY <1>2, <1>4, <3>1, <3>2, NoneIsNoCell DEF Apart
  <2> QED
    BY <2>1, <2>2, <2>3
<1>9. \A v \in plan.service : B[v] = cell[v]
  BY <1>1, <1>2, <1>5, <1>6
<1> QED
  BY <1>7, <1>8, <1>9 DEF B, t

\* Whoever has the cell of a vehicle without one is the top call, which then
\* calls for the vehicle in its way.
LEMMA TakingBacked ==
    ASSUME SearchInv, stack # <<>>, NEW c \in Untried(Top),
           NEW v \in Vehicles, NEW w \in Vehicles,
           Taking(Top.vehicle, c)[v] = cell[w], Taking(Top.vehicle, c)[w] = None
    PROVE  v = Top.vehicle /\ w \in Occupant(v, c)
<1> DEFINE t == Top.vehicle
           B == Taking(t, c)
<1>1. /\ c \in Cells /\ t \in Vehicles /\ B[t] = c
      /\ \A k \in Vehicles \ {t} : /\ B[k] # c
                                   /\ B[k] # None => B[k] = assigned[k]
                                   /\ B[k] = None => assigned[k] = None \/ k \in Taken(c)
  BY TakingMap, TopCall
<1>2. Backed(assigned, stack, Len(stack)) /\ assigned[t] = None
  BY TopCall DEF Sound
<1>3. cell[w] # None
  BY NoneIsNoCell DEF SearchInv, MoveInv, MoveTypeOK
<1>4. w # t
  BY <1>1, NoneIsNoCell
<1>5. v = t
  <2> SUFFICES ASSUME v # t PROVE FALSE
    OBVIOUS
  <2>1. assigned[v] = cell[w] /\ cell[w] # c
    BY <1>1, <1>3
  <2>2. CASE assigned[w] = None
    BY <1>2, <1>4, <2>1, <2>2 DEF Backed, Top
  <2>3. CASE w \in Taken(c)
    BY <2>1, <2>3, TakenFromParked
  <2> QED
    BY <1>1, <1>4, <2>2, <2>3
<1> QED
  BY <1>1, <1>4, <1>5 DEF Occupant

\* The calls that wait keep what they took.
LEMMA TakingChain ==
    ASSUME SearchInv, stack # <<>>, NEW c \in Untried(Top), NEW j \in 1..(Len(stack) - 1)
    PROVE  Taking(Top.vehicle, c)[stack[j].vehicle] = cell[stack[j + 1].vehicle]
<1>1. /\ assigned[stack[j].vehicle] = cell[stack[j + 1].vehicle]
      /\ stack[j].vehicle # stack[j + 1].vehicle
  BY TopCall DEF Sound, Chain, SearchInv, DistinctCalls
<1>2. stack[j].vehicle \in Vehicles /\ stack[j + 1].vehicle \in Vehicles
  BY TopCall
<1>3. cell \in [Vehicles -> Cells] /\ NoCollision
  BY DEF SearchInv, MoveInv, MoveTypeOK
<1>4. stack[j].vehicle # Top.vehicle
  BY <1>1, <1>2, <1>3, TopCall, NoneIsNoCell
<1>5. stack[j].vehicle \notin Taken(c)
  BY <1>1, <1>2, <1>3, TakenFromParked DEF NoCollision
<1> QED
  BY <1>1, <1>2, <1>4, <1>5, TakingMap

----------------------------------------------------------------------------
LEMMA SearchBegins == Init => SearchInv
<1> SUFFICES ASSUME Init PROVE SearchInv
  OBVIOUS
<1>1. MoveInv
  BY DEF Init, MoveInit, MoveInv, MoveTypeOK, NoCollision
<1>2. SearchTypeOK
  <2>1. assigned \in Maps
    BY DEF Init, Nobody, Maps
  <2>2. stack = <<>> /\ mover \in BOOLEAN /\ ~Searching
    BY DEF Init, Searching
  <2>3. <<>> \in Seq(Frames)
    OBVIOUS
  <2> QED
    BY <2>1, <2>2, <2>3 DEF SearchTypeOK
<1> QED
  BY <1>1, <1>2 DEF Init, SearchInv, ReservationInv, OwnCellInv, DistinctCalls, CommandInv,
     Searching

LEMMA PlanStep ==
    ASSUME SearchInv, Plan
    PROVE  SearchInv'
<1> DEFINE B == [v \in Vehicles |-> IF v \in plan'.service THEN cell[v] ELSE None]
<1>1. /\ Awaiting /\ UNCHANGED <<cell, service, command, mover, stack>> /\ assigned' = B
      /\ plan'.service \subseteq Vehicles /\ ~Searching
  BY DEF Plan, Views, moveVars
<1>2. stack = <<>>
  BY <1>1 DEF SearchInv, SearchTypeOK
<1>3. cell \in [Vehicles -> Cells] /\ NoCollision
  BY DEF SearchInv, MoveInv, MoveTypeOK
<1>4. MoveInv' /\ CommandInv'
  BY <1>1 DEF SearchInv, MoveInv, MoveTypeOK, NoCollision, CommandInv, Legal, Apart, NextCells
<1>5. SearchTypeOK'
  BY <1>1, <1>2, <1>3 DEF SearchInv, SearchTypeOK, Maps, Awaiting
<1>6. Sound(assigned, stack, Len(stack))'
  <2>1. Legal(assigned)' /\ Apart(assigned)'
    BY <1>1, <1>3, NoneIsNoCell DEF Legal, Apart, NextCells, NoCollision
  <2>2. Backed(assigned, stack, Len(stack))'
    BY <1>1, <1>3, NoneIsNoCell DEF Backed, NoCollision
  <2>3. Chain(assigned, stack, Len(stack))'
    BY <1>1, <1>2 DEF Chain
  <2>4. \A v \in plan'.service : assigned'[v] = cell'[v]
    BY <1>1
  <2> QED
    BY <2>1, <2>2, <2>3, <2>4 DEF Sound
<1>7. ReservationInv' /\ OwnCellInv' /\ DistinctCalls'
  BY <1>1, <1>2, <1>6 DEF ReservationInv, OwnCellInv, DistinctCalls
<1> QED
  BY <1>4, <1>5, <1>7 DEF SearchInv

LEMMA ServeStep ==
    ASSUME SearchInv, Serve
    PROVE  SearchInv'
<1> PICK v \in Unassigned : stack' = <<[vehicle |-> v, tried |-> {}, saved |-> assigned]>>
  BY DEF Serve
<1>1. /\ Searching /\ stack = <<>>
      /\ UNCHANGED <<cell, service, command, mover, plan, assigned>>
  BY DEF Serve, moveVars
<1>2. v \in Vehicles /\ assigned[v] = None
  BY DEF Unassigned
<1>3. MoveInv' /\ CommandInv'
  BY <1>1 DEF SearchInv, MoveInv, MoveTypeOK, NoCollision, CommandInv, Legal, Apart, NextCells
<1>4. SearchTypeOK'
  BY <1>1, <1>2 DEF SearchInv, SearchTypeOK, Frames, Awaiting, Searching
<1>5. Sound(assigned, stack, 0)
  BY <1>1 DEF SearchInv, ReservationInv
<1>6. Sound(assigned, stack, 1)'
  <2>1. Legal(assigned)' /\ Apart(assigned)'
    BY <1>1, <1>5 DEF Sound, Legal, Apart, NextCells
  <2>2. Backed(assigned, stack, 1)'
    BY <1>1, <1>5 DEF Sound, Backed
  <2>3. Chain(assigned, stack, 1)'
    BY <1>1, <1>2 DEF Chain
  <2> QED
    BY <1>1, <1>5, <2>1, <2>2, <2>3 DEF Sound
<1>7. Len(stack') = 1 /\ stack'[1].tried = {}
  OBVIOUS
<1>8. ReservationInv'
  BY <1>6, <1>7 DEF ReservationInv
<1>9. OwnCellInv' /\ DistinctCalls'
  BY <1>7 DEF OwnCellInv, DistinctCalls
<1> QED
  BY <1>3, <1>4, <1>8, <1>9 DEF SearchInv

LEMMA TryStep ==
    ASSUME SearchInv, Try
    PROVE  SearchInv'
<1> PICK c \in Untried(Top) :
        /\ assigned' = Taking(Top.vehicle, c)
        /\ \/ {w \in Occupant(Top.vehicle, c) : Taking(Top.vehicle, c)[w] = None} = {} /\ stack' = <<>>
           \/ \E w \in {k \in Occupant(Top.vehicle, c) : Taking(Top.vehicle, c)[k] = None} :
                stack' = Append([stack EXCEPT ![Len(stack)] =
                                    [vehicle |-> Top.vehicle, tried |-> Top.tried \cup {c},
                                     saved |-> assigned]],
                                [vehicle |-> w, tried |-> {}, saved |-> assigned'])
  BY DEF Try
<1> DEFINE t == Top.vehicle
<1>1. /\ Searching /\ stack # <<>>
      /\ UNCHANGED <<cell, service, command, mover, plan>>
  BY DEF Try, moveVars
<1> PICK n \in Nat \ {0} : n = Len(stack)
  BY <1>1, TopCall
<1>2. /\ n \in Nat \ {0} /\ t \in Vehicles /\ Top \in Frames
      /\ \A i \in 1..n : stack[i] \in Frames /\ stack[i].vehicle \in Vehicles
  BY <1>1, TopCall
<1>3. /\ assigned' \in Maps /\ assigned'[t] = c /\ c \in Cells
      /\ Legal(assigned') /\ Apart(assigned')
      /\ \A v \in plan.service : assigned'[v] = cell[v]
  BY <1>1, TakingMap, TakingApart
<1>4. Legal(assigned)' /\ Apart(assigned)' /\ \A v \in plan'.service : assigned'[v] = cell'[v]
  BY <1>1, <1>3 DEF Legal, Apart, NextCells
<1>5. ASSUME NEW v \in Vehicles, NEW w \in Vehicles, assigned'[v] = cell[w], assigned'[w] = None
      PROVE  v = t /\ w \in {k \in Occupant(t, c) : Taking(t, c)[k] = None}
  BY <1>1, <1>5, TakingBacked
<1>6. MoveInv' /\ CommandInv'
  BY <1>1 DEF SearchInv, MoveInv, MoveTypeOK, NoCollision, CommandInv, Legal, Apart, NextCells
<1>7. assigned' \in Maps /\ mover' \in BOOLEAN /\ Searching'
      /\ Awaiting' /\ plan'.service \subseteq Vehicles
  BY <1>1, <1>3 DEF SearchInv, SearchTypeOK, Awaiting, Searching
<1>8. CASE {w \in Occupant(t, c) : Taking(t, c)[w] = None} = {} /\ stack' = <<>>
  <2>1. SearchTypeOK'
    BY <1>7, <1>8 DEF SearchTypeOK
  <2>2. Backed(assigned, stack, 0)' /\ Chain(assigned, stack, 0)'
    BY <1>1, <1>5, <1>8 DEF Backed, Chain
  <2>3. ReservationInv'
    BY <1>4, <1>8, <2>2 DEF Sound, ReservationInv
  <2>4. OwnCellInv' /\ DistinctCalls'
    BY <1>8 DEF OwnCellInv, DistinctCalls
  <2> QED
    BY <1>6, <2>1, <2>3, <2>4 DEF SearchInv
<1>9. ASSUME NEW w \in {k \in Occupant(t, c) : Taking(t, c)[k] = None},
             stack' = Append([stack EXCEPT ![n] = [vehicle |-> t, tried |-> Top.tried \cup {c},
                                                   saved |-> assigned]],
                             [vehicle |-> w, tried |-> {}, saved |-> assigned'])
      PROVE  SearchInv'
  <2> DEFINE calling == [vehicle |-> t, tried |-> Top.tried \cup {c}, saved |-> assigned]
             called == [vehicle |-> w, tried |-> {}, saved |-> assigned']
  <2>1. w \in Vehicles /\ w # t /\ cell[w] = c /\ assigned'[w] = None
    BY DEF Occupant
  <2>2. calling \in Frames /\ called \in Frames
    BY <1>2, <1>3, <2>1 DEF Frames, SearchInv, SearchTypeOK
  <2>3. stack \in Seq(Frames)
    BY DEF SearchInv, SearchTypeOK
  <2> HIDE DEF calling, called
  <2>4. [stack EXCEPT ![n] = calling] \in Seq(Frames) /\ Len([stack EXCEPT ![n] = calling]) = n
    BY <1>2, <2>2, <2>3
  <2>5. /\ stack' \in Seq(Frames) /\ Len(stack') = n + 1
        /\ stack'[n + 1] = called /\ stack'[n] = calling
        /\ \A i \in 1..(n - 1) : stack'[i] = stack[i]
    <3> DEFINE M == [stack EXCEPT ![n] = calling]
    <3>1. stack' = Append(M, called)
      BY <1>9 DEF calling, called
    <3>2. M[n] = calling /\ \A i \in 1..(n - 1) : M[i] = stack[i]
      BY <1>2, <2>3
    <3> HIDE DEF M
    <3> QED
      BY <1>2, <2>2, <2>4, <3>1, <3>2 DEF M
  <2>6. calling.vehicle = t /\ calling.saved = assigned /\ calling.tried = Top.tried \cup {c}
        /\ called.vehicle = w /\ called.tried = {}
    BY DEF calling, called
  <2>7. stack[n].vehicle = t
    BY DEF Top
  <2>8. \A i \in 1..n : stack'[i].vehicle = stack[i].vehicle
    BY <1>2, <2>5, <2>6, <2>7
  <2>9. SearchTypeOK'
    BY <1>7, <2>5 DEF SearchTypeOK
  <2>10. Chain(assigned, stack, n + 1)'
    <3>1. \A j \in 1..(n - 1) : assigned'[stack[j].vehicle] = cell[stack[j + 1].vehicle]
      BY <1>1, TakingChain
    <3>2. assigned'[stack[n].vehicle] = cell[w]
      BY <1>3, <2>1, <2>7
    <3>3. \A j \in 1..n : assigned'[stack'[j].vehicle] = cell[stack'[j + 1].vehicle]
      <4> SUFFICES ASSUME NEW j \in 1..n
                   PROVE  assigned'[stack'[j].vehicle] = cell[stack'[j + 1].vehicle]
        OBVIOUS
      <4>1. CASE j = n
        BY <1>2, <2>5, <2>6, <2>8, <3>2, <4>1
      <4>2. CASE j # n
        <5>1. j \in 1..(n - 1) /\ j + 1 \in 1..n
          BY <1>2, <4>2
        <5> QED
          BY <2>8, <3>1, <5>1
      <4> QED
        BY <4>1, <4>2
    <3> QED
      BY <1>1, <1>2, <2>1, <2>5, <2>6, <3>3 DEF Chain
  <2>11. Backed(assigned, stack, n + 1)'
    <3> SUFFICES ASSUME NEW v \in Vehicles, NEW x \in Vehicles,
                        assigned'[v] = cell[x], assigned'[x] = None
                 PROVE  n + 1 > 1 /\ x = stack'[n + 1].vehicle
      BY <1>1 DEF Backed
    <3>1. x \in Vehicles /\ cell[x] = c
      BY <1>5 DEF Occupant
    <3>2. x = w
      BY <2>1, <3>1 DEF SearchInv, MoveInv, NoCollision
    <3> QED
      BY <1>2, <2>5, <2>6, <3>2
  <2>12. Sound(assigned, stack, n + 1)'
    BY <1>4, <2>10, <2>11 DEF Sound
  <2>13. ASSUME NEW i \in 1..n
         PROVE  Sound(stack[i].saved, stack, i)'
    <3>1. Sound(stack'[i].saved, stack, i)
      <4>1. CASE i = n
        BY <1>1, <2>5, <2>6, <4>1, TopCall
      <4>2. CASE i # n
        BY <1>1, <1>2, <2>5, <4>2 DEF SearchInv, ReservationInv
      <4> QED
        BY <4>1, <4>2
    <3> DEFINE B == stack'[i].saved
    <3> HIDE DEF B
    <3>2. Sound(B, stack, i)
      BY <3>1 DEF B
    <3>3. \A j \in 1..i : stack'[j].vehicle = stack[j].vehicle
      BY <1>2, <2>8
    <3>4. \A j \in 1..(i - 1) : stack'[j].vehicle = stack[j].vehicle
                                  /\ stack'[j + 1].vehicle = stack[j + 1].vehicle
      BY <1>2, <3>3
    <3>5. Chain(B, stack', i)
      <4>1. i > 0 /\ i \in 1..i
        BY <1>2
      <4> QED
        BY <3>2, <3>3, <3>4, <4>1 DEF Sound, Chain
    <3>6. Backed(B, stack', i)
      <4>1. i \in 1..i
        BY <1>2
      <4> QED
        BY <3>2, <3>3, <4>1 DEF Sound, Backed
    <3>7. Sound(B, stack', i)
      BY <3>2, <3>5, <3>6 DEF Sound
    <3> QED
      BY <1>1, <3>7 DEF B, Sound, Legal, Apart, Chain, Backed, NextCells
  <2>14. ReservationInv'
    BY <1>2, <2>5, <2>12, <2>13 DEF ReservationInv
  <2>15. OwnCellInv'
    <3> SUFFICES ASSUME NEW i \in 1..(n + 1)
                 PROVE  cell[stack'[i].vehicle] \notin stack'[i].tried
      BY <1>1, <2>5 DEF OwnCellInv
    <3>1. CASE i = n + 1
      BY <2>5, <2>6, <3>1
    <3>2. CASE i = n
      <4>1. cell[t] # c
        BY <1>2, <2>1 DEF SearchInv, MoveInv, NoCollision
      <4>2. cell[stack[n].vehicle] \notin stack[n].tried
        BY <1>2 DEF SearchInv, OwnCellInv
      <4> QED
        BY <2>5, <2>6, <2>7, <3>2, <4>1, <4>2 DEF Top
    <3>3. CASE i \in 1..(n - 1)
      BY <1>2, <2>5, <3>3 DEF SearchInv, OwnCellInv
    <3> QED
      BY <1>2, <3>1, <3>2, <3>3
  <2>16. DistinctCalls'
    <3>1. w \notin Waiting
      BY DEF Untried, Open
    <3>2. \A i \in 1..n : stack[i].vehicle # w
      <4> SUFFICES ASSUME NEW i \in 1..n PROVE stack[i].vehicle # w
        OBVIOUS
      <4>1. CASE i = n
        BY <2>1, <2>7, <4>1
      <4>2. CASE i \in 1..(n - 1)
        BY <3>1, <4>2 DEF Waiting
      <4> QED
        BY <1>2, <4>1, <4>2
    <3>3. \A i, j \in 1..n : i # j => stack'[i].vehicle # stack'[j].vehicle
      BY <2>8 DEF SearchInv, DistinctCalls
    <3>4. \A i \in 1..n : stack'[i].vehicle # stack'[n + 1].vehicle
      BY <2>5, <2>6, <2>8, <3>2
    <3>5. \A i \in 1..(n + 1) : i \in 1..n \/ i = n + 1
      BY <1>2
    <3> QED
      BY <2>5, <3>3, <3>4, <3>5 DEF DistinctCalls
  <2> QED
    BY <1>6, <2>9, <2>14, <2>15, <2>16 DEF SearchInv
<1> QED
  BY <1>8, <1>9

\* A vehicle that no other one called for can stay where it is: nobody has its
\* cell, and it has not tried it.
LEMMA OwnCellOpen ==
    ASSUME SearchInv, Len(stack) = 1
    PROVE  cell[Top.vehicle] \in Untried(Top)
<1>1. stack # <<>> /\ Top = stack[1]
  BY DEF Top
<1>2. /\ Top.vehicle \in Vehicles /\ assigned[Top.vehicle] = None
      /\ Backed(assigned, stack, 1)
  BY <1>1, TopCall DEF Sound
<1>3. cell[Top.vehicle] \in NextCells(Top.vehicle) /\ cell[Top.vehicle] \notin Top.tried
  BY <1>1, <1>2, NextCellsType DEF SearchInv, OwnCellInv
<1>4. Taken(cell[Top.vehicle]) = {}
  BY <1>2 DEF Taken, Backed
<1>5. Occupant(Top.vehicle, cell[Top.vehicle]) = {}
  BY <1>2 DEF Occupant, SearchInv, MoveInv, NoCollision
<1> QED
  BY <1>3, <1>4, <1>5 DEF Untried, Open

LEMMA FailStep ==
    ASSUME SearchInv, Fail
    PROVE  SearchInv'
<1>1. /\ Searching /\ stack # <<>> /\ Untried(Top) = {}
      /\ UNCHANGED <<cell, service, command, mover, plan>>
      /\ stack' = SubSeq(stack, 1, Len(stack) - 1)
  BY DEF Fail, moveVars
<1>2. Len(stack) # 1
  BY <1>1, OwnCellOpen
<1>3. assigned' = stack[Len(stack) - 1].saved
  BY <1>2 DEF Fail
<1> PICK n \in Nat \ {0} : n = Len(stack) - 1
  <2>1. Len(stack) - 1 \in Nat \ {0}
    BY <1>1, <1>2, TopCall
  <2> QED
    BY <2>1
<1>4. stack \in Seq(Frames) /\ stack[n] \in Frames /\ Len(stack) = n + 1
  BY <1>1, TopCall DEF SearchInv, SearchTypeOK
<1>5. stack' \in Seq(Frames) /\ Len(stack') = n /\ \A i \in 1..n : stack'[i] = stack[i]
  BY <1>1, <1>4
<1>6. MoveInv' /\ CommandInv'
  BY <1>1 DEF SearchInv, MoveInv, MoveTypeOK, NoCollision, CommandInv, Legal, Apart, NextCells
<1>7. SearchTypeOK'
  <2>1. assigned' \in Maps
    BY <1>3, <1>4 DEF Frames
  <2> QED
    BY <1>1, <1>5, <2>1 DEF SearchInv, SearchTypeOK, Awaiting, Searching
<1>8. ASSUME NEW B, NEW i \in 1..n, Sound(B, stack, i)
      PROVE  Sound(B, stack', i)
  <2>1. /\ i > 0 /\ i \in 1..n
        /\ \A j \in 1..(i - 1) : stack'[j] = stack[j] /\ stack'[j + 1] = stack[j + 1]
    BY <1>5
  <2>2. stack'[i] = stack[i]
    BY <1>5, <2>1
  <2>3. Chain(B, stack', i)
    BY <1>8, <2>1, <2>2 DEF Sound, Chain
  <2>4. Backed(B, stack', i)
    BY <1>8, <2>2 DEF Sound, Backed
  <2> QED
    BY <1>1, <1>8, <2>3, <2>4 DEF Sound
<1>9. \A i \in 1..n : Sound(stack[i].saved, stack, i)
  BY <1>1, <1>4 DEF SearchInv, ReservationInv
<1>10. \A i \in 1..n : Sound(stack[i].saved, stack', i)
  BY <1>8, <1>9
<1>11. Sound(assigned, stack, n)'
  <2>1. Sound(assigned', stack', n)
    BY <1>3, <1>4, <1>10
  <2> QED
    BY <1>1, <2>1 DEF Sound, Legal, Apart, Chain, Backed, NextCells
<1>12. ASSUME NEW i \in 1..(n - 1)
       PROVE  Sound(stack[i].saved, stack, i)'
  <2>1. i \in 1..n
    OBVIOUS
  <2>2. Sound(stack'[i].saved, stack', i)
    BY <1>5, <1>10, <2>1
  <2> QED
    BY <1>1, <2>2 DEF Sound, Legal, Apart, Chain, Backed, NextCells
<1>13. ReservationInv'
  BY <1>5, <1>11, <1>12 DEF ReservationInv
<1>14. OwnCellInv' /\ DistinctCalls'
  BY <1>1, <1>4, <1>5 DEF SearchInv, OwnCellInv, DistinctCalls
<1> QED
  BY <1>6, <1>7, <1>13, <1>14 DEF SearchInv

\* Nothing of the search is left when moves() returns.
LEMMA QuietStep ==
    ASSUME SearchInv, stack' = <<>>, plan' = None, assigned' \in Maps, mover' \in BOOLEAN,
           MoveInv', CommandInv'
    PROVE  SearchInv'
<1>1. ~Searching' /\ <<>> \in Seq(Frames)
  BY DEF Searching
<1>2. SearchTypeOK'
  BY <1>1 DEF SearchTypeOK
<1> QED
  BY <1>1, <1>2 DEF SearchInv, ReservationInv, OwnCellInv, DistinctCalls

\* What moves() returns is a proposal that a mover may make.
LEMMA ReturnIsProposal ==
    ASSUME SearchInv, Return
    PROVE  Propose /\ CommandInv'
<1>1. /\ Searching /\ stack = <<>> /\ Unassigned = {}
      /\ command' = assigned /\ service' = plan.service /\ mover' = TRUE /\ cell' = cell
  BY DEF Return
<1>2. assigned \in [Vehicles -> Cells]
  BY <1>1 DEF SearchInv, SearchTypeOK, Maps, Unassigned
<1>3. Awaiting /\ plan.service \subseteq Vehicles /\ Sound(assigned, stack, 0)
  BY <1>1 DEF SearchInv, SearchTypeOK, ReservationInv
<1>4. Propose
  BY <1>1, <1>2, <1>3 DEF Propose
<1>5. CommandInv'
  BY <1>1, <1>3 DEF Sound, CommandInv, Legal, Apart, NextCells
<1> QED
  BY <1>4, <1>5

LEMMA SearchStep ==
    ASSUME SearchInv, [Next]_vars
    PROVE  SearchInv' /\ [Propose \/ Step]_moveVars
<1>1. MoveInv
  BY DEF SearchInv
<1>2. CASE Plan
  BY <1>2, PlanStep DEF Plan
<1>3. CASE Serve
  BY <1>3, ServeStep DEF Serve
<1>4. CASE Try
  BY <1>4, TryStep DEF Try
<1>5. CASE Fail
  BY <1>5, FailStep DEF Fail
<1>6. ASSUME Propose \/ Step
      PROVE  MoveInv'
  BY <1>1, <1>6, StepKeepsApart DEF Propose, MoveInv, MoveTypeOK, NoCollision
<1>7. CASE Return
  <2>1. Propose /\ CommandInv'
    BY <1>7, ReturnIsProposal
  <2>2. stack' = <<>> /\ plan' = None /\ assigned' \in Maps /\ mover' \in BOOLEAN
    BY <1>7 DEF Return, Nobody, Maps
  <2> QED
    BY <1>6, <2>1, <2>2, QuietStep
<1>8. CASE PolicyPropose \/ Execute
  <2>1. ~Searching /\ (Propose \/ Step) /\ mover' = FALSE /\ UNCHANGED <<plan, assigned, stack>>
    BY <1>8 DEF PolicyPropose, Execute
  <2>2. stack' = <<>> /\ plan' = None /\ assigned' \in Maps
    BY <2>1 DEF SearchInv, SearchTypeOK, Searching
  <2>3. CommandInv'
    BY <2>1 DEF CommandInv
  <2> QED
    BY <1>6, <2>1, <2>2, <2>3, QuietStep
<1>9. CASE UNCHANGED vars
  BY <1>9 DEF vars, moveVars, SearchInv, MoveInv, MoveTypeOK, NoCollision, SearchTypeOK, Searching,
     Awaiting, ReservationInv, OwnCellInv, DistinctCalls, CommandInv, Sound, Legal, Apart, Chain, Backed, NextCells
<1> QED
  BY <1>2, <1>3, <1>4, <1>5, <1>7, <1>8, <1>9 DEF Next

LEMMA Search == Spec => []SearchInv
<1>1. SearchInv /\ [Next]_vars => SearchInv'
  BY SearchStep
<1> QED
  BY <1>1, SearchBegins, PTL DEF Spec

----------------------------------------------------------------------------
\* The search for cells is no movement, and what it ends with is a proposal:
\* moves() behind physics behaves as JointMoves lets any mover behave, so that
\* what holds of that one holds of the shared mover.
THEOREM MoverRefinesMoves == Spec => MoveSpec
<1>1. Init => MoveInit
  BY DEF Init
<1>2. SearchInv /\ [Next]_vars => [Propose \/ Step]_moveVars
  BY SearchStep
<1> QED
  BY <1>1, <1>2, Search, PTL DEF Spec, MoveSpec

\* Physics does what the shared mover asks for, as it stands: the cells that
\* reserve() hands out are next to their vehicles, no two of them are the same,
\* no two vehicles change places, and nobody counts on one that stays.
THEOREM AlwaysObeyed == Spec => []MoverObeyed
<1>1. SearchInv => MoverObeyed
  <2> SUFFICES ASSUME SearchInv, mover
               PROVE  Rejected = {} /\ CellAfter = command
    BY DEF MoverObeyed
  <2>1. /\ Legal(command) /\ Apart(command) /\ \A v \in service : command[v] = cell[v]
        /\ cell \in [Vehicles -> Cells] /\ command \in [Vehicles -> Cells]
    BY DEF SearchInv, CommandInv, MoveInv, MoveTypeOK
  <2>2. Moving = {v \in Vehicles : command[v] # cell[v]}
    BY <2>1, NoneIsNoCell DEF Moving, Valid, Legal, NextCells
  <2>3. Conflicts = {}
    BY <2>1, <2>2, NoneIsNoCell DEF Conflicts, Apart
  <2>4. Closed({})
    <3> SUFFICES ASSUME NEW v \in Moving, NEW w \in Vehicles, w # v, cell[w] = command[v],
                        Stays(w, {})
                 PROVE  FALSE
      BY DEF Closed
    <3>1. v \in Vehicles /\ command[w] = cell[w]
      BY <2>2 DEF Stays
    <3> QED
      BY <2>1, <3>1, NoneIsNoCell DEF Apart
  <2>5. Rejected = {}
    BY <2>3, <2>4, RejectedLeast
  <2>6. CellAfter = command
    BY <2>1, <2>2, <2>5 DEF CellAfter
  <2> QED
    BY <2>5, <2>6
<1> QED
  BY <1>1, Search, PTL

\* moves() never falls back on making a vehicle wait that found nothing
\* (rule_mover.py:246): the first call always has the cell of its own vehicle left.
THEOREM SearchSucceeds == Spec => [](Len(stack) = 1 => Untried(Top) # {})
<1>1. SearchInv => (Len(stack) = 1 => Untried(Top) # {})
  BY OwnCellOpen
<1> QED
  BY <1>1, Search, PTL

\* reserve() calls itself at most once for every vehicle: no vehicle that waits
\* is displaced again, so that the recursion is never deeper than the fleet.
THEOREM RecursionBounded == Spec => [](Len(stack) <= Cardinality(Vehicles))
<1>1. SearchInv => Len(stack) <= Cardinality(Vehicles)
  <2> SUFFICES ASSUME SearchInv, ~(Len(stack) <= Cardinality(Vehicles))
               PROVE  FALSE
    OBVIOUS
  <2> PICK n \in Nat : n = Len(stack)
    BY DEF SearchInv, SearchTypeOK
  <2> DEFINE f == [i \in 1..n |-> stack[i].vehicle]
  <2>1. IsFiniteSet(1..n) /\ Cardinality(1..n) = IF 1 > n THEN 0 ELSE n - 1 + 1
    <3>1. 1 \in Int /\ n \in Int
      OBVIOUS
    <3> QED
      BY <3>1, FS_Interval, ZenonT(30)
  <2>2. Cardinality(1..n) = n
    BY <2>1
  <2>3. IsFiniteSet(Vehicles) /\ Cardinality(Vehicles) \in Nat
    BY FleetType, FS_CardinalityType
  <2>4. f \in [1..n -> Vehicles]
    <3>1. stack = <<>> => n = 0
      OBVIOUS
    <3> QED
      BY <3>1, TopCall
  <2>5. Cardinality(Vehicles) < Cardinality(1..n)
    BY <2>2, <2>3
  <2> HIDE DEF f
  <2>6. \E x, y \in 1..n : x # y /\ f[x] = f[y]
    BY <2>1, <2>3, <2>4, <2>5, FS_PigeonHole
  <2> QED
    BY <2>6 DEF f, SearchInv, DistinctCalls
<1> QED
  BY <1>1, Search, PTL
=============================================================================
