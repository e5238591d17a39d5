---------------------------- MODULE FactoryClock ----------------------------
(***************************************************************************)
(* Physical time of the base protocol (engine/base_protocol.py and         *)
(* engine/production.py): decisions are taken at a boundary, then time     *)
(* advances by one tick while anything moves, and otherwise by the idle    *)
(* interval, which is to end with the next release, outage, repair,        *)
(* completion, empty wait or retry.  A recorded run advances through the   *)
(* same interval tick by tick.                                             *)
(*                                                                         *)
(* The work itself is FactoryCore's.  Here it is what it means for time:   *)
(* which vehicles have owners to apply to, whose opportunities changed, who*)
(* is under way, and whether anything moves.                               *)
(***************************************************************************)
EXTENDS Integers, Fleet

CONSTANTS
    Jobs, Machines,
    Release,          \* [Jobs -> tick]
    Outages,          \* machine, start (included) and end (excluded)
    Durations,        \* how long an operation may take
    ReevaluateTicks, TickLimit

ASSUME CalendarType ==
    /\ Release \in [Jobs -> Nat]
    /\ Outages \subseteq [machine : Machines, start : Nat, end : Nat]
    /\ Durations \subseteq Nat \ {0}
    /\ ReevaluateTicks \in Nat \ {0} /\ TickLimit \in Nat \ {0}
ASSUME OutagesNotEmpty == \A o \in Outages : o.start < o.end

\* The generators draw one outage after the other.  down_at() looks at the last
\* one that started: an outage within another one would end both.
ASSUME OutagesNotNested ==
    \A o, p \in Outages : o.machine = p.machine /\ o.start <= p.start => o.end <= p.end \/ o = p

VARIABLES
    tick,
    released,    \* jobs whose demand is released
    down,        \* machines that are down
    work,        \* ticks that remain of the operation of a machine, 0 if none
    offers,      \* vehicles that have an owner to apply to
    changed,     \* vehicles whose opportunities differ from those in `wake`
    wake,        \* tick of the last application of a vehicle
    due,         \* end of the empty wait of a vehicle, 0 if it does not wait
    target,      \* vehicles that have a target
    moving,      \* a move, a service or a ready vehicle
    left,        \* ticks left of the interval
    recorded     \* the run is recorded

clockVars == <<tick, released, down, work, offers, changed, wake, due, target, moving, left, recorded>>

ClockTypeOK ==
    /\ tick \in Nat
    /\ released \subseteq Jobs /\ down \subseteq Machines
    /\ work \in [Machines -> Int]
    /\ offers \subseteq Vehicles /\ changed \subseteq Vehicles /\ target \subseteq Vehicles
    /\ wake \in [Vehicles -> Int] /\ due \in [Vehicles -> Nat]
    /\ moving \in BOOLEAN /\ left \in Nat /\ recorded \in BOOLEAN

----------------------------------------------------------------------------
\* down_at(): the outage that started last decides.
DownAt(m, t) ==
    \E o \in Outages :
        /\ o.machine = m /\ o.start <= t /\ t < o.end
        /\ \A p \in Outages : p.machine = m /\ p.start <= t => p.start <= o.start

Processing(m) == work[m] # 0

----------------------------------------------------------------------------
\* idle_interval(): the dates at which something has to happen.

Releases == {Release[j] : j \in Jobs}

\* Mutant: only the beginning of an outage counts.
ShiftsStarting == {o.start : o \in Outages}

Shifts == {o.start : o \in Outages} \cup {o.end : o \in Outages}

\* Mutant: a machine that is down is taken for idle, and so is one that is up.
FinishesNone == {}

Finishes == {tick + work[m] : m \in {n \in Machines : Processing(n) /\ n \notin down}}

\* Mutant: the retry of a vehicle is counted from now.
RetriesLater == {tick + ReevaluateTicks}

Retries == {wake[v] + ReevaluateTicks : v \in Vehicles} \cup {tick + ReevaluateTicks}

Waits == {due[v] : v \in Vehicles}

Dates ==
    {TickLimit} \cup
    {d \in Releases \cup Shifts \cup Finishes \cup Retries \cup Waits : d > tick}

\* The interval that begins at this boundary.
IsInterval(n) ==
    IF moving THEN n = 1
    ELSE n >= 1 /\ tick + n \in Dates /\ \A d \in Dates : tick + n <= d

----------------------------------------------------------------------------
\* Vehicles that decisions() asks: their opportunities changed, their empty
\* wait is over, or it is time to try again.
Asked ==
    {v \in offers \ target :
        /\ due[v] <= tick
        /\ due[v] # 0 \/ v \in changed \/ tick - wake[v] >= ReevaluateTicks}

\* decisions(): machines start, vehicles are asked; some wait for a tick, some
\* get a target, which may change the opportunities of the others.
Decide ==
    /\ left = 0 /\ tick < TickLimit
    /\ \E starts \in SUBSET {m \in Machines : ~Processing(m) /\ m \notin down} :
         \E d \in [starts -> Durations] :
            work' = [m \in Machines |-> IF m \in starts THEN d[m] ELSE work[m]]
    /\ wake' = [v \in Vehicles |-> IF v \in Asked THEN tick ELSE wake[v]]
    /\ \E waiting \in SUBSET Asked, accepted \in SUBSET Asked, others \in SUBSET Vehicles :
         /\ waiting \cap accepted = {}
         /\ accepted = {} => others = {}
         /\ due' = [v \in Vehicles |-> IF v \in waiting THEN tick + 1
                                       ELSE IF v \notin target /\ due[v] <= tick THEN 0
                                       ELSE due[v]]
         /\ target' = target \cup accepted
         /\ changed' = (changed \ Asked) \cup others
    /\ moving' \in BOOLEAN
    /\ UNCHANGED <<tick, released, down, offers, recorded>>
    /\ left' \in 1..TickLimit /\ IsInterval(left)'

\* A step of the factory that others may notice.
Happens ==
    \/ released' # released \/ down' # down
    \/ \E m \in Machines : Processing(m) /\ ~Processing(m)'

\* step(elapsed): _advance() and _boundary(); anything that happens may change
\* the opportunities, end a trip or cancel it.
Advance ==
    /\ left > 0
    /\ LET elapsed == IF recorded THEN 1 ELSE left
       IN /\ tick' = tick + elapsed
          /\ left' = left - elapsed
          /\ work' = [m \in Machines |-> IF Processing(m) /\ m \notin down
                                          THEN work[m] - elapsed ELSE work[m]]
    /\ down' = {m \in Machines : DownAt(m, tick')}
    /\ released' = released \cup {j \in Jobs : Release[j] <= tick'}
    /\ IF moving \/ Happens
       THEN /\ offers' \in SUBSET Vehicles
            /\ changed' \in {c \in SUBSET Vehicles : changed \subseteq c}
            /\ target' \in SUBSET target
       ELSE UNCHANGED <<offers, changed, target>>
    /\ UNCHANGED <<wake, due, moving, recorded>>

ClockInit ==
    /\ tick = 0 /\ left = 0 /\ moving = FALSE /\ recorded \in BOOLEAN
    /\ released = {j \in Jobs : Release[j] = 0}
    /\ down = {m \in Machines : DownAt(m, 0)}
    /\ work = [m \in Machines |-> 0]
    /\ offers \in SUBSET Vehicles /\ changed = Vehicles
    /\ wake = [v \in Vehicles |-> -ReevaluateTicks]
    /\ due = [v \in Vehicles |-> 0]
    /\ target = {}

ClockNext == Decide \/ Advance

ClockSpec == ClockInit /\ [][ClockNext]_clockVars

----------------------------------------------------------------------------
\* Whatever is released, breaks down or is repaired changes at its very tick:
\* no idle interval leaps over a date of the calendar, and inside a recorded one
\* nothing happens.  A machine is not repaired while another of its outages goes
\* on.
OnTime ==
    [][/\ \A j \in released' \ released : Release[j] = tick'
       /\ \A m \in Machines : m \in down' /\ m \notin down =>
             \E o \in Outages : o.machine = m /\ o.start = tick'
       /\ \A m \in Machines : m \in down /\ m \notin down' =>
             /\ \E o \in Outages : o.machine = m /\ o.end = tick'
             /\ \A o \in Outages : o.machine = m /\ o.start <= tick' => o.end <= tick'
       /\ left' > 0 /\ tick' # tick => ~Happens]_clockVars

\* An operation ends when its time is up: the step that finds nothing left does
\* not come late (a negative rest never ends), and the run ends at its limit.
NothingOvershot == (\A m \in Machines : work[m] >= 0) /\ tick + left <= TickLimit

\* A vehicle that could apply is asked again in time: when its empty wait of one
\* tick is over, and else ReevaluateTicks after it was asked.
RetryOnTime ==
    [][\A v \in offers \ target :
          tick' # tick => tick' <= IF due[v] > tick THEN due[v] ELSE wake[v] + ReevaluateTicks]_clockVars
=============================================================================
