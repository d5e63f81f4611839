------------------------------ MODULE Scheduler ------------------------------
(***************************************************************************)
(* Timers, the calendar and the timeouts of rules, as the rules thread     *)
(* works them off: the timers' past is simulated first, then each turn of  *)
(* maintainQueues fires at most one timer and checks every timeout, while  *)
(* the TW523 thread ticks the clock and rules set it.                      *)
(* Days and times of day are counted in ticks; a sequence is one of a      *)
(* timer's, with the time it begins, the days it is for, and its events'   *)
(* offsets from that time.                                                 *)
(***************************************************************************)
EXTENDS Integers, Sequences, FiniteSets

CONSTANTS Timers,          \* the timers of the rule file
          SequencesOf,     \* a timer's sequences: [start, days, offsets]
          Days,            \* the calendar: [attributes, sunrise, sunset] of each day
          DayLength,       \* ticks in SECONDSPERDAY
          Hour,            \* ticks in 3600 seconds
          NoTimeouts,      \* timeouts of the rule file
          OffActions,      \* those that have an action
          Durations,       \* for which rules set them
          THE_END_OF_TIME,
          Today,           \* the host's time at start
          Horizon,         \* bound: the host's clock stops here
          Drift,           \* bound: how far the two clocks drift apart
          MaxLate          \* bound: how late a timer may be fired

SUNRISE_TIME == -1
SUNSET_TIME == -2

LastDay == Len(Days) - 1
Midnight(d) == d * DayLength
Timeouts == 1 .. NoTimeouts
Places == 1 .. Cardinality(Timers)

CalendarDays == [attributes : SUBSET STRING, sunrise : Nat, sunset : Nat]
TimerSequences == [start : Int, days : SUBSET STRING, offsets : Seq(Int)]

ASSUME CalendarAssumption ==
    /\ DayLength \in Nat \ {0} /\ Hour \in Nat
    /\ Days \in Seq(CalendarDays)

ASSUME SequencesAssumption ==
    /\ IsFiniteSet(Timers) /\ Timers # {}
    /\ SequencesOf \in [Timers -> Seq(TimerSequences)]

\* smart.smt, like the compiler's other files, lists the events of a sequence in order.
ASSUME EventsAssumption ==
    \A t \in Timers : \A s \in DOMAIN SequencesOf[t] :
        /\ SequencesOf[t][s].offsets # <<>>
        /\ \A e, f \in DOMAIN SequencesOf[t][s].offsets :
             e <= f => SequencesOf[t][s].offsets[e] <= SequencesOf[t][s].offsets[f]

\* runtime asserts that the day before Today is in the calendar.
ASSUME TimeAssumption ==
    /\ Today \in Nat /\ DayLength <= Today /\ Horizon \in Nat /\ Today <= Horizon
    /\ NoTimeouts \in Nat /\ OffActions \subseteq Timeouts /\ Durations \subseteq Nat
    /\ THE_END_OF_TIME \in Int /\ \A d \in Durations : Horizon + d < THE_END_OF_TIME
    /\ Drift \in Nat /\ MaxLate \in Nat

-----------------------------------------------------------------------------
\* CCalendar::calculateScheduledEventTime. Sunrise and sunset are in GMT already.

TimeOfDay(start, d) ==
    CASE start = SUNRISE_TIME -> Days[d + 1].sunrise
      [] start = SUNSET_TIME -> Days[d + 1].sunset
      [] OTHER -> start

Adjustment(start, d) ==
    IF start \notin {SUNRISE_TIME, SUNSET_TIME} /\ "BST" \in Days[d + 1].attributes
    THEN Hour ELSE 0

EventTime(t, s, d, e) ==
    LET sequence == SequencesOf[t][s]
    IN  Midnight(d) + TimeOfDay(sequence.start, d) + sequence.offsets[e]
            - Adjustment(sequence.start, d)

FirstTime(t, s, d) == EventTime(t, s, d, 1)

Applies(t, s, d) == SequencesOf[t][s].days \cap Days[d + 1].attributes # {}

\* Variant: an event due this very moment is taken again.
CandidatesNow(t, c, d) ==
    {s \in DOMAIN SequencesOf[t] : Applies(t, s, d) /\ FirstTime(t, s, d) >= c}

\* The sequences of day d that begin after c, of which SetUpNextSequenceToFire takes the
\* earliest, the first listed of those as early.
Candidates(t, c, d) ==
    {s \in DOMAIN SequencesOf[t] : Applies(t, s, d) /\ FirstTime(t, s, d) > c}

\* Variant: the latest sequence of the day is taken.
EarliestIsLatest(t, s, d, among) ==
    \A r \in among : \/ FirstTime(t, s, d) > FirstTime(t, r, d)
                     \/ FirstTime(t, s, d) = FirstTime(t, r, d) /\ s <= r

Earliest(t, s, d, among) ==
    \A r \in among : \/ FirstTime(t, s, d) < FirstTime(t, r, d)
                     \/ FirstTime(t, s, d) = FirstTime(t, r, d) /\ s <= r

\* What is taken: a sequence of the first day, from the day of c, that has a candidate.
NextUp(t, c) ==
    {ds \in (c \div DayLength .. LastDay) \X DOMAIN SequencesOf[t] :
        /\ ds[2] \in Candidates(t, c, ds[1])
        /\ Earliest(t, ds[2], ds[1], Candidates(t, c, ds[1]))
        /\ \A d \in c \div DayLength .. ds[1] - 1 : Candidates(t, c, d) = {}}

-----------------------------------------------------------------------------
VARIABLES clock,    \* tickingClock
          host,     \* the host's clock, time(nullptr)
          rules,    \* where the rules thread is
          order,    \* mTimers, sorted by rescheduleTimer
          at,       \* mlFireTimeDate of each timer
          seq,      \* mNextSequenceToFire, 0 before the first is set up
          event,    \* mNextEventToFire
          day,      \* the day of mSequenceFireTimeAtMidnight
          expiry,   \* mExpiryTime of each timeout
          checking, \* the timeout checkSwitchOffTimeout is at
          now,      \* its parameter
          asked     \* history: timeouts set since their action was last fired

timers == <<order, at, seq, event, day>>
timeouts == <<expiry, asked>>
loop == <<checking, now>>
vars == <<clock, host, rules, timers, timeouts, loop>>

InThePast == rules \in {"define", "past", "pastReady", "pastLast", "aborted"}
Live == ~InThePast

IsSorted(o, times) == \A i, j \in Places : i < j => times[o[i]] <= times[o[j]]

\* Variant: a timer that has fired stays where it is in the list.
RescheduleNot(times) == order' = order

\* rescheduleTimer: qsort leaves timers due together in any order.
Reschedule(times) ==
    /\ order' \in {o \in [Places -> Timers] : \A t \in Timers : \E i \in Places : o[i] = t}
    /\ IsSorted(order', times)

First == order[1]
Ready == clock >= at[First]

Init ==
    /\ clock = Midnight(Today \div DayLength - 1)
    /\ host = Today
    /\ rules = "define"
    /\ order \in {o \in [Places -> Timers] : \A t \in Timers : \E i \in Places : o[i] = t}
    /\ at = [t \in Timers |-> 0] /\ seq = [t \in Timers |-> 0]
    /\ event = [t \in Timers |-> 1] /\ day = [t \in Timers |-> 0]
    /\ expiry = [o \in Timeouts |-> THE_END_OF_TIME]
    /\ checking = 1 /\ now = 0
    /\ asked = {}

\* completeDefinitions sets up every timer's first sequence. A calendar that has no day for
\* one trips the assertion of getDayAttribute.
CompleteDefinitions ==
    /\ rules = "define"
    /\ IF \E t \in Timers : NextUp(t, clock) = {}
       THEN rules' = "aborted" /\ UNCHANGED timers
       ELSE /\ \E first \in [Timers -> (0 .. LastDay) \X UNION {DOMAIN SequencesOf[t] : t \in Timers}] :
                 /\ \A t \in Timers : first[t] \in NextUp(t, clock)
                 /\ day' = [t \in Timers |-> first[t][1]]
                 /\ seq' = [t \in Timers |-> first[t][2]]
            /\ event' = [t \in Timers |-> 1]
            /\ at' = [t \in Timers |-> FirstTime(t, seq'[t], day'[t])]
            /\ Reschedule(at')
            /\ rules' = "past"
    /\ UNCHANGED <<clock, host, timeouts, loop>>

-----------------------------------------------------------------------------
\* What a rule does to the state here. ResynchClockToHostRealTimeClock does nothing while the
\* past is simulated; afterwards a tick in progress on the other thread may overwrite it.

SetTimeout ==
    \E o \in Timeouts, duration \in Durations :
        /\ expiry' = [expiry EXCEPT ![o] = clock + duration]
        /\ asked' = asked \union {o}
        /\ UNCHANGED clock

SetClock(time) ==
    /\ clock' \in {time, clock}
    /\ UNCHANGED timeouts

Rule ==
    \/ UNCHANGED <<clock, timeouts>>
    \/ SetTimeout
    \/ Live /\ SetClock(host)

\* CTimer::fire after its action: the sequence's next event, or the next sequence.
Advance(t, c) ==
    LET more == event[t] < Len(SequencesOf[t][seq[t]].offsets)
    IN  IF more
        THEN /\ event' = [event EXCEPT ![t] = @ + 1]
             /\ at' = [at EXCEPT ![t] = EventTime(t, seq[t], day[t], event[t] + 1)]
             /\ UNCHANGED <<seq, day>>
        ELSE \E ds \in NextUp(t, c) :
             /\ event' = [event EXCEPT ![t] = 1]
             /\ day' = [day EXCEPT ![t] = ds[1]]
             /\ seq' = [seq EXCEPT ![t] = ds[2]]
             /\ at' = [at EXCEPT ![t] = FirstTime(t, ds[2], ds[1])]

\* Beyond its last day the calendar's assertion ends the program.
CalendarEnds(t, c) ==
    /\ event[t] = Len(SequencesOf[t][seq[t]].offsets)
    /\ NextUp(t, c) = {}

Abort == rules' = "aborted" /\ UNCHANGED <<clock, host, timers, timeouts, loop>>

\* Variant: the clock is set to the present at once.
SimulatePastAtOnce ==
    /\ rules = "past"
    /\ clock' = host
    /\ rules' = IF host < at[First] THEN "pastLast" ELSE "pastReady"
    /\ UNCHANGED <<host, timers, timeouts, loop>>

\* SimulatePast: the clock jumps to the next timer until that is in the future.
SimulatePast ==
    /\ rules = "past"
    /\ clock' = IF host < at[First] THEN host ELSE at[First]
    /\ rules' = IF host < at[First] THEN "pastLast" ELSE "pastReady"
    /\ UNCHANGED <<host, timers, timeouts, loop>>

FirePast ==
    /\ rules \in {"pastReady", "pastLast"} /\ Ready
    /\ IF CalendarEnds(First, clock)
       THEN Abort
       ELSE /\ Rule
            /\ Advance(First, clock)
            /\ Reschedule(at')
            /\ UNCHANGED <<host, rules, loop>>

PastDone ==
    /\ rules \in {"pastReady", "pastLast"} /\ ~Ready
    /\ rules' = IF rules = "pastLast" THEN "startup" ELSE "past"
    /\ UNCHANGED <<clock, host, timers, timeouts, loop>>

\* runtime starts the threads and then sets the clock.
StartUp ==
    /\ rules = "startup"
    /\ SetClock(host)
    /\ rules' = "listen"
    /\ UNCHANGED <<host, timers, loop>>

\* What is heard, and the devices' timeouts, may fire a rule on any turn.
Listen ==
    /\ rules = "listen"
    /\ Rule
    /\ rules' = "turn"
    /\ UNCHANGED <<host, timers, loop>>

StartTimeouts ==
    /\ now' = clock /\ checking' = 1
    /\ rules' = "timeouts"

TimerReady ==
    /\ rules = "turn" /\ Ready
    /\ rules' = "firing"
    /\ UNCHANGED <<clock, host, timers, timeouts, loop>>

NoTimerReady ==
    /\ rules = "turn" /\ ~Ready
    /\ StartTimeouts
    /\ UNCHANGED <<clock, host, timers, timeouts>>

\* The action waits for the lock; the timer is at its event until the action has run.
RunAction ==
    /\ rules = "firing"
    /\ Rule
    /\ rules' = "fired"
    /\ UNCHANGED <<host, timers, loop>>

Fired ==
    /\ rules = "fired"
    /\ IF CalendarEnds(First, clock)
       THEN Abort
       ELSE /\ Advance(First, clock)
            /\ Reschedule(at')
            /\ StartTimeouts
            /\ UNCHANGED <<clock, host, timeouts>>

\* CTimeout::mCheckSwitchOffTimeout: the timeout ends before its action runs.
CheckTimeout ==
    /\ rules = "timeouts" /\ checking <= NoTimeouts
    /\ IF now >= expiry[checking]
       THEN /\ expiry' = [expiry EXCEPT ![checking] = THE_END_OF_TIME]
            /\ asked' = asked \ {checking}
            /\ IF checking \in OffActions
               THEN rules' = "expired" /\ UNCHANGED checking
               ELSE checking' = checking + 1 /\ UNCHANGED rules
       ELSE /\ checking' = checking + 1
            /\ UNCHANGED <<rules, timeouts>>
    /\ UNCHANGED <<clock, host, timers, now>>

\* Variant: the timeout is stepped over twice.
OffActionTwice ==
    /\ rules = "expired"
    /\ Rule
    /\ checking' = checking + 2
    /\ rules' = "timeouts"
    /\ UNCHANGED <<host, timers, now>>

\* Variant: the timeout ends only when its action, which may set it again, has run.
OffActionThenEnd ==
    /\ rules = "expired"
    /\ asked' \in {asked, asked \union {checking}}
    /\ expiry' = [expiry EXCEPT ![checking] = THE_END_OF_TIME]
    /\ checking' = checking + 1
    /\ rules' = "timeouts"
    /\ UNCHANGED <<clock, host, timers, now>>

OffAction ==
    /\ rules = "expired"
    /\ Rule
    /\ checking' = checking + 1
    /\ rules' = "timeouts"
    /\ UNCHANGED <<host, timers, now>>

TimeoutsDone ==
    /\ rules = "timeouts" /\ checking > NoTimeouts
    /\ rules' = "listen"
    /\ UNCHANGED <<clock, host, timers, timeouts, loop>>

-----------------------------------------------------------------------------
Near(c, h) == c - h <= Drift /\ h - c <= Drift

\* CClock::tick, on the TW523 thread once it has been started.
Tick ==
    /\ Live /\ rules # "startup"
    /\ Near(clock + 1, host) /\ clock + 1 <= Horizon
    /\ clock + 1 - at[First] <= MaxLate
    /\ clock' = clock + 1
    /\ UNCHANGED <<host, rules, timers, timeouts, loop>>

HostTick ==
    /\ host < Horizon
    /\ \/ rules = "past"
       \/ Live /\ Near(clock, host + 1)
    /\ host' = host + 1
    /\ UNCHANGED <<clock, rules, timers, timeouts, loop>>

RulesThread ==
    \/ CompleteDefinitions \/ SimulatePast \/ FirePast \/ PastDone \/ StartUp
    \/ Listen \/ TimerReady \/ NoTimerReady \/ RunAction \/ Fired
    \/ CheckTimeout \/ OffAction \/ TimeoutsDone

Next == RulesThread \/ Tick \/ HostTick

\* The rules thread keeps running; nothing is asked of the clocks.
Spec == Init /\ [][Next]_vars /\ WF_vars(RulesThread)

-----------------------------------------------------------------------------
Time == 0 .. Horizon

TypeOK ==
    /\ clock \in Int /\ host \in Time
    /\ rules \in {"define", "past", "pastReady", "pastLast", "startup", "listen", "turn",
                  "firing", "fired", "timeouts", "expired", "aborted"}
    /\ order \in [Places -> Timers]
    /\ at \in [Timers -> Int]
    /\ seq \in [Timers -> Nat] /\ day \in [Timers -> Nat] /\ event \in [Timers -> Nat \ {0}]
    /\ expiry \in [Timeouts -> Int]
    /\ checking \in 1 .. NoTimeouts + 1 /\ now \in Int
    /\ asked \subseteq Timeouts

\* timerReady and SimulatePast look at the first timer only: whenever they do, no timer is due
\* before it, although firing has changed its time since the list was sorted.
HeadIsEarliest ==
    rules \in {"past", "pastReady", "pastLast", "turn"} =>
        \A t \in Timers : at[First] <= at[t]

\* A timeout that a rule sets while the timeout's own action is running, or while the others
\* are being checked, is running afterwards: its action will be fired for it.
SettingIsKept == \A o \in asked : expiry[o] # THE_END_OF_TIME

OnItsDay(t, s, d) == FirstTime(t, s, d) \div DayLength = d

\* The steps that move a timer: of all at the start, of the first in the list when it is fired.
Fires == \/ rules = "fired" /\ rules' = "timeouts"
         \/ rules \in {"pastReady", "pastLast"} /\ Ready /\ rules' = rules

SetsUp(t) == \/ rules = "define" /\ rules' = "past"
             \/ Fires /\ t = First /\ event[t] = Len(SequencesOf[t][seq[t]].offsets)

\* When a timer sets up its next sequence, it passes over none that begins between now and
\* then, on whatever day, unless one of the two does not begin on the day it is for (an
\* offset or the hour of summer time moves it over midnight): a sequence is missed only if it
\* was due while its timer was busy with another.
NoneOvertaken ==
    [][\A t \in Timers : SetsUp(t) =>
         \A d \in 0 .. LastDay : \A s \in DOMAIN SequencesOf[t] :
            (/\ Applies(t, s, d)
             /\ clock < FirstTime(t, s, d) /\ FirstTime(t, s, d) < at'[t])
            => ~OnItsDay(t, s, d) \/ ~OnItsDay(t, seq'[t], day'[t])]_vars

\* In the simulated past every event is fired at its own time, in order over all timers, and
\* the clock never goes back.
PastOnTime ==
    [][InThePast => clock' >= clock /\ (Fires => clock = at[First])]_vars

\* A timer moves on: what it is set up for next lies after what it has just fired, unless the
\* clock was set back past that while the action ran.
TimersMoveOn ==
    [][Fires => \/ event'[First] = event[First] + 1 /\ at'[First] >= at[First]
                \/ at'[First] > at[First]
                \/ clock < at[First]]_vars

\* No timer stays due: however many are due together and however long rules take, each is
\* fired, and set up for later.
NoneStaysDue ==
    \A t \in Timers : (Live /\ clock >= at[t]) ~> (rules = "aborted" \/ clock < at[t])

\* The flaw that calendar.cpp's comment on the change of the clocks admits concerns the hours up
\* to two in the morning: a day is not passed over whose sequence has an event after that.
FlawEndsAtTwo ==
    [][Fires =>
         \A d \in day[First] + 1 .. day'[First] - 1 : \A s \in DOMAIN SequencesOf[First] :
            Applies(First, s, d) =>
                \A e \in DOMAIN SequencesOf[First][s].offsets :
                    EventTime(First, s, d, e) + Adjustment(SequencesOf[First][s].start, d)
                        <= Midnight(d) + 2 * Hour]_vars
=============================================================================
