--------------------------- MODULE SchedulerProofs ---------------------------
(***************************************************************************)
(* Proofs about Scheduler: for any timers, calendar and rules, timerReady  *)
(* sees the timer due first, a sequence is passed over only if it was due  *)
(* while its timer was busy, the past is simulated in order, and no        *)
(* setting of a timeout is lost.                                           *)
(***************************************************************************)
EXTENDS Scheduler, FiniteSetTheorems, TLAPS

Running == rules \notin {"define", "aborted"}

Offsets(t, s) == SequencesOf[t][s].offsets

\* Where a timer is, once its first sequence has been set up.
Placed(t) ==
    /\ seq[t] \in DOMAIN SequencesOf[t]
    /\ day[t] \in 0 .. LastDay
    /\ event[t] \in DOMAIN Offsets(t, seq[t])
    /\ at[t] = EventTime(t, seq[t], day[t], event[t])

Typed ==
    /\ TypeOK
    /\ clock \in Nat /\ clock <= Horizon
    /\ rules = "expired" => checking <= NoTimeouts
    /\ Running => \A t \in Timers : Placed(t)

\* The list is sorted at every step, because what moves a timer also sorts.
Ordered == Running => IsSorted(order, at) /\ \A t \in Timers : \E i \in Places : order[i] = t

\* The clock has not passed any timer while the past is simulated, nor the host's clock.
InOrder ==
    /\ InThePast /\ rules # "aborted" => clock <= host
    /\ rules = "past" => \A t \in Timers : clock < at[t]
    /\ rules \in {"pastReady", "pastLast"} => \A t \in Timers : clock <= at[t]

IInv == Typed /\ Ordered /\ InOrder

-----------------------------------------------------------------------------
\* The calendar and the sequences, as the assumption has them.
LEMMA Constants ==
    /\ DayLength \in Nat /\ DayLength > 0 /\ Hour \in Nat
    /\ LastDay \in Int
    /\ Horizon \in Nat /\ Today \in 0 .. Horizon /\ DayLength <= Today
    /\ NoTimeouts \in Nat
    /\ \A d \in 0 .. LastDay : Days[d + 1].sunrise \in Nat /\ Days[d + 1].sunset \in Nat
  <1>1. Days \in Seq(CalendarDays)
    BY CalendarAssumption
  <1>2. ASSUME NEW d \in 0 .. LastDay
        PROVE  Days[d + 1] \in CalendarDays
    BY <1>1 DEF LastDay
  <1>3. LastDay \in Int
    BY <1>1 DEF LastDay
  <1>4. \A d \in 0 .. LastDay : Days[d + 1].sunrise \in Nat /\ Days[d + 1].sunset \in Nat
    BY <1>2 DEF CalendarDays
  <1>5. DayLength \in Nat /\ DayLength > 0 /\ Hour \in Nat
    BY CalendarAssumption
  <1>6. Horizon \in Nat /\ Today \in 0 .. Horizon /\ DayLength <= Today /\ NoTimeouts \in Nat
    BY TimeAssumption
  <1> QED
    BY <1>3, <1>4, <1>5, <1>6

LEMMA SequenceType ==
    ASSUME NEW t \in Timers, NEW s \in DOMAIN SequencesOf[t]
    PROVE  /\ SequencesOf[t][s].start \in Int
           /\ Offsets(t, s) \in Seq(Int)
           /\ Offsets(t, s) # <<>>
           /\ DOMAIN SequencesOf[t] \subseteq Nat
           /\ 1 \in DOMAIN Offsets(t, s)
           /\ \A e, f \in DOMAIN Offsets(t, s) : e <= f => Offsets(t, s)[e] <= Offsets(t, s)[f]
  <1>1. SequencesOf[t] \in Seq(TimerSequences)
    BY SequencesAssumption
  <1>2. SequencesOf[t][s] \in TimerSequences
    BY <1>1
  <1>3. Offsets(t, s) \in Seq(Int)
    BY <1>2 DEF Offsets, TimerSequences
  <1>4. Offsets(t, s) # <<>>
    BY EventsAssumption DEF Offsets
  <1>5. \A e, f \in DOMAIN Offsets(t, s) : e <= f => Offsets(t, s)[e] <= Offsets(t, s)[f]
    BY EventsAssumption DEF Offsets
  <1>6. DOMAIN SequencesOf[t] \subseteq Nat
    BY <1>1
  <1>7. 1 \in DOMAIN Offsets(t, s)
    BY <1>3, <1>4
  <1>8. SequencesOf[t][s].start \in Int
    BY <1>2 DEF TimerSequences
  <1> QED
    BY <1>3, <1>4, <1>5, <1>6, <1>7, <1>8

LEMMA TimeOfDayType ==
    ASSUME NEW t \in Timers, NEW s \in DOMAIN SequencesOf[t], NEW d \in 0 .. LastDay
    PROVE  TimeOfDay(SequencesOf[t][s].start, d) \in Int
  <1>1. SequencesOf[t][s].start \in Int
    BY SequenceType
  <1>2. Days[d + 1].sunrise \in Int /\ Days[d + 1].sunset \in Int
    BY Constants
  <1> QED
    BY <1>1, <1>2 DEF TimeOfDay

LEMMA EventTimeType ==
    ASSUME NEW t \in Timers, NEW s \in DOMAIN SequencesOf[t], NEW d \in 0 .. LastDay,
           NEW e \in DOMAIN Offsets(t, s)
    PROVE  EventTime(t, s, d, e) \in Int
  <1>1. TimeOfDay(SequencesOf[t][s].start, d) \in Int
    BY TimeOfDayType
  <1>2. Adjustment(SequencesOf[t][s].start, d) \in Int
    BY Constants DEF Adjustment
  <1>3. Offsets(t, s)[e] \in Int
    BY SequenceType
  <1>4. d * DayLength \in Int
    BY Constants
  <1> QED
    BY <1>1, <1>2, <1>3, <1>4 DEF EventTime, Offsets, Midnight

LEMMA FirstTimeType ==
    ASSUME NEW t \in Timers, NEW s \in DOMAIN SequencesOf[t], NEW d \in 0 .. LastDay
    PROVE  FirstTime(t, s, d) \in Int
  BY EventTimeType, SequenceType DEF FirstTime

\* The events of a sequence come in order.
LEMMA EventsInOrder ==
    ASSUME NEW t \in Timers, NEW s \in DOMAIN SequencesOf[t], NEW d \in 0 .. LastDay,
           NEW e \in DOMAIN Offsets(t, s), e < Len(Offsets(t, s))
    PROVE  /\ e + 1 \in DOMAIN Offsets(t, s)
           /\ EventTime(t, s, d, e) <= EventTime(t, s, d, e + 1)
  <1>1. e + 1 \in DOMAIN Offsets(t, s)
    BY SequenceType
  <1>2. Offsets(t, s)[e] <= Offsets(t, s)[e + 1]
    BY <1>1, SequenceType
  <1>3. TimeOfDay(SequencesOf[t][s].start, d) \in Int
    BY TimeOfDayType
  <1>4. Adjustment(SequencesOf[t][s].start, d) \in Int
    BY Constants DEF Adjustment
  <1>5. Midnight(d) \in Int
    BY Constants DEF Midnight
  <1>6. Offsets(t, s)[e] \in Int /\ Offsets(t, s)[e + 1] \in Int
    BY <1>1, SequenceType
  <1>7. \A i \in {e, e + 1} :
           EventTime(t, s, d, i) = Midnight(d) + TimeOfDay(SequencesOf[t][s].start, d)
                                       + Offsets(t, s)[i]
                                       - Adjustment(SequencesOf[t][s].start, d)
    BY DEF EventTime, Offsets
  <1>8. \A m, n, x, y, z \in Int : x <= y => m + n + x - z <= m + n + y - z
    OBVIOUS
  <1> QED
    BY <1>1, <1>2, <1>3, <1>4, <1>5, <1>6, <1>7, <1>8

\* What is next lies after the time it is looked for from, and in the calendar.
LEMMA NextUpLater ==
    ASSUME NEW t \in Timers, NEW c \in Nat, NEW ds \in NextUp(t, c)
    PROVE  /\ ds[1] \in 0 .. LastDay /\ ds[1] >= c \div DayLength
           /\ ds[2] \in DOMAIN SequencesOf[t]
           /\ FirstTime(t, ds[2], ds[1]) > c
           /\ ds = <<ds[1], ds[2]>>
  <1>1. c \div DayLength \in Nat
    BY Constants
  <1> QED
    BY <1>1, Constants DEF NextUp, Candidates

\* What is not due yet but next in the calendar is not after another candidate on its own day,
\* and no day before it has a candidate.
LEMMA NextUpEarliest ==
    ASSUME NEW t \in Timers, NEW c \in Nat, NEW ds \in NextUp(t, c),
           NEW d \in c \div DayLength .. ds[1], NEW s \in Candidates(t, c, d)
    PROVE  d = ds[1] /\ FirstTime(t, ds[2], ds[1]) <= FirstTime(t, s, d)
  <1>1. d = ds[1]
    BY Constants DEF NextUp
  <1>2. Earliest(t, ds[2], ds[1], Candidates(t, c, ds[1]))
    BY DEF NextUp
  <1>3. ds[2] \in DOMAIN SequencesOf[t] /\ ds[1] \in 0 .. LastDay
    BY NextUpLater
  <1>4. FirstTime(t, ds[2], ds[1]) \in Int /\ FirstTime(t, s, ds[1]) \in Int
    BY <1>1, <1>3, FirstTimeType DEF Candidates
  <1> QED
    BY <1>1, <1>2, <1>4 DEF Earliest

LEMMA FirstIsTimer == ASSUME TypeOK PROVE 1 \in Places /\ First \in Timers
  <1>1. Cardinality(Timers) \in Nat /\ Cardinality(Timers) # 0
    BY SequencesAssumption, FS_CardinalityType, FS_EmptySet
  <1> QED
    BY <1>1 DEF Places, First, TypeOK

\* A sorted list begins with a timer that is due no later than any.
LEMMA SortedFirst ==
    ASSUME TypeOK, IsSorted(order, at), NEW t \in Timers, NEW i \in Places, order[i] = t
    PROVE  at[First] <= at[t]
  <1>1. i = 1 \/ 1 < i
    BY FirstIsTimer, FS_CardinalityType, SequencesAssumption DEF Places
  <1>2. at[First] \in Int
    BY FirstIsTimer DEF TypeOK
  <1> QED
    BY <1>1, <1>2, FirstIsTimer DEF IsSorted, First

\* Firing moves the first timer only: to the next event of its sequence, which is not earlier,
\* or to a sequence later than now.
LEMMA AdvancePlaces ==
    ASSUME Typed, Running, Advance(First, clock)
    PROVE  /\ \A t \in Timers : Placed(t)'
           /\ at' \in [Timers -> Int] /\ seq' \in [Timers -> Nat] /\ day' \in [Timers -> Nat]
           /\ event' \in [Timers -> Nat \ {0}]
           /\ \A t \in Timers \ {First} : at'[t] = at[t]
           /\ \/ event'[First] = event[First] + 1 /\ at'[First] >= at[First]
              \/ at'[First] > clock
  <1> DEFINE f == First
  <1>1. f \in Timers
    BY FirstIsTimer DEF Typed
  <1>2. Placed(f) /\ \A t \in Timers : Placed(t)
    BY <1>1 DEF Typed
  <1>3. CASE event[f] < Len(SequencesOf[f][seq[f]].offsets)
    <2>1. /\ event' = [event EXCEPT ![f] = @ + 1]
          /\ at' = [at EXCEPT ![f] = EventTime(f, seq[f], day[f], event[f] + 1)]
          /\ seq' = seq /\ day' = day
      BY <1>3 DEF Advance
    <2>2. /\ event[f] + 1 \in DOMAIN Offsets(f, seq[f])
          /\ at[f] <= EventTime(f, seq[f], day[f], event[f] + 1)
      BY <1>1, <1>2, <1>3, EventsInOrder DEF Placed, Offsets
    <2>3. EventTime(f, seq[f], day[f], event[f] + 1) \in Int
      BY <1>1, <1>2, <2>2, EventTimeType DEF Placed
    <2>4. event[f] + 1 \in Nat \ {0}
      BY <1>1 DEF Typed, TypeOK
    <2>5. \A t \in Timers : Placed(t)'
      BY <1>1, <1>2, <2>1, <2>2 DEF Placed, Typed, TypeOK
    <2> QED
      BY <1>1, <2>1, <2>2, <2>3, <2>4, <2>5 DEF Typed, TypeOK
  <1>4. CASE ~(event[f] < Len(SequencesOf[f][seq[f]].offsets))
    <2>1. PICK ds \in NextUp(f, clock) :
          /\ event' = [event EXCEPT ![f] = 1]
          /\ day' = [day EXCEPT ![f] = ds[1]]
          /\ seq' = [seq EXCEPT ![f] = ds[2]]
          /\ at' = [at EXCEPT ![f] = FirstTime(f, ds[2], ds[1])]
      BY <1>4 DEF Advance
    <2>2. /\ ds[1] \in 0 .. LastDay /\ ds[2] \in DOMAIN SequencesOf[f]
          /\ FirstTime(f, ds[2], ds[1]) > clock
      BY <1>1, NextUpLater DEF Typed
    <2>3. FirstTime(f, ds[2], ds[1]) \in Int /\ ds[1] \in Nat /\ ds[2] \in Nat
      BY <1>1, <2>2, FirstTimeType, SequenceType, Constants
    <2>4. 1 \in DOMAIN Offsets(f, ds[2])
      BY <1>1, <2>2, SequenceType
    <2>5. \A t \in Timers : Placed(t)'
      BY <1>1, <1>2, <2>1, <2>2, <2>4 DEF Placed, Typed, TypeOK, FirstTime
    <2> QED
      BY <1>1, <2>1, <2>2, <2>3, <2>5 DEF Typed, TypeOK
  <1> QED
    BY <1>3, <1>4

-----------------------------------------------------------------------------
LEMMA StartIsMidnight ==
    LET start == Midnight(Today \div DayLength - 1)
    IN  start \in Nat /\ start <= Today /\ start <= Horizon
  <1>1. /\ Today \div DayLength \in Int
        /\ DayLength * (Today \div DayLength) <= Today
        /\ 1 <= Today \div DayLength
    BY Constants
  <1>2. /\ (Today \div DayLength - 1) * DayLength >= 0
        /\ (Today \div DayLength - 1) * DayLength <= Today
        /\ (Today \div DayLength - 1) * DayLength \in Int
    BY <1>1, Constants
  <1> QED
    BY <1>2, Constants DEF Midnight

LEMMA InitialState == Init => IInv
  <1> SUFFICES ASSUME Init PROVE IInv
    OBVIOUS
  <1>1. TypeOK
    BY StartIsMidnight, Constants, TimeAssumption DEF Init, TypeOK, Time, Timeouts, Midnight
  <1>2. Typed
    BY <1>1, StartIsMidnight DEF Init, Typed, Running
  <1>3. Ordered /\ InOrder
    BY StartIsMidnight DEF Init, Ordered, InOrder, Running, InThePast
  <1> QED
    BY <1>2, <1>3 DEF IInv

\* What a rule does leaves the clock and the timeouts in range, and the past alone.
LEMMA RuleType ==
    ASSUME Typed, Rule
    PROVE  /\ clock' \in Nat /\ clock' <= Horizon
           /\ expiry' \in [Timeouts -> Int] /\ asked' \subseteq Timeouts
           /\ InThePast => clock' = clock
  <1>1. CASE UNCHANGED <<clock, timeouts>>
    BY <1>1 DEF Typed, TypeOK, timeouts
  <1>2. CASE SetTimeout
    <2>1. PICK o \in Timeouts, duration \in Durations :
          /\ expiry' = [expiry EXCEPT ![o] = clock + duration]
          /\ asked' = asked \union {o}
          /\ UNCHANGED clock
      BY <1>2 DEF SetTimeout
    <2>2. clock + duration \in Int
      BY TimeAssumption DEF Typed
    <2> QED
      BY <2>1, <2>2 DEF Typed, TypeOK
  <1>3. CASE Live /\ SetClock(host)
    BY <1>3, Constants DEF SetClock, Typed, TypeOK, Time, timeouts, Live
  <1> QED
    BY <1>1, <1>2, <1>3 DEF Rule

\* Firing while running keeps the timers placed and sorted.
LEMMA FiringKeeps ==
    ASSUME IInv, Running, Advance(First, clock), Reschedule(at')
    PROVE  /\ order' \in [Places -> Timers]
           /\ at' \in [Timers -> Int] /\ seq' \in [Timers -> Nat] /\ day' \in [Timers -> Nat]
           /\ event' \in [Timers -> Nat \ {0}]
           /\ \A t \in Timers : Placed(t)'
           /\ Ordered'
  <1>1. Typed
    BY DEF IInv
  <1>2. order' \in [Places -> Timers] /\ Ordered'
    BY DEF Reschedule, Ordered, IsSorted
  <1> QED
    BY <1>1, <1>2, AdvancePlaces

LEMMA InductiveStep == IInv /\ [Next]_vars => IInv'
  <1> SUFFICES ASSUME IInv, [Next]_vars PROVE IInv'
    OBVIOUS
  <1> USE DEF Running, InThePast
  <1>0. Typed /\ TypeOK /\ Ordered /\ InOrder
    BY DEF IInv, Typed
  <1> DEFINE Untouched == UNCHANGED timers
  <1>t. ASSUME UNCHANGED timers, Running' => Running,
               clock' \in Nat, clock' <= Horizon, host' \in Time,
               rules' \in {"define", "past", "pastReady", "pastLast", "startup", "listen",
                            "turn", "firing", "fired", "timeouts", "expired", "aborted"},
               expiry' \in [Timeouts -> Int], asked' \subseteq Timeouts,
               checking' \in 1 .. NoTimeouts + 1, now' \in Int,
               rules' = "expired" => checking' <= NoTimeouts
        PROVE  Typed' /\ Ordered'
    BY <1>t, <1>0 DEF Typed, TypeOK, Ordered, timers, Placed, IsSorted
  <1>1. CASE CompleteDefinitions
    <2>1. CASE \E t \in Timers : NextUp(t, clock) = {}
      <3>1. Typed' /\ Ordered'
        BY <1>1, <2>1, <1>0, <1>t DEF CompleteDefinitions, timeouts, loop, Typed, TypeOK
      <3> QED
        BY <1>1, <2>1, <3>1, <1>0 DEF CompleteDefinitions, IInv, InOrder
    <2>2. CASE ~\E t \in Timers : NextUp(t, clock) = {}
      <3>1. PICK first \in [Timers -> (0 .. LastDay) \X UNION {DOMAIN SequencesOf[t] : t \in Timers}] :
                 /\ \A t \in Timers : first[t] \in NextUp(t, clock)
                 /\ day' = [t \in Timers |-> first[t][1]]
                 /\ seq' = [t \in Timers |-> first[t][2]]
        BY <1>1, <2>2 DEF CompleteDefinitions
      <3>2. /\ event' = [t \in Timers |-> 1]
            /\ at' = [t \in Timers |-> FirstTime(t, seq'[t], day'[t])]
            /\ Reschedule(at')
            /\ rules = "define" /\ rules' = "past"
            /\ UNCHANGED <<clock, host, timeouts, loop>>
        BY <1>1, <2>2 DEF CompleteDefinitions
      <3>3. ASSUME NEW t \in Timers
            PROVE  /\ day'[t] \in 0 .. LastDay /\ seq'[t] \in DOMAIN SequencesOf[t]
                   /\ at'[t] > clock /\ at'[t] \in Int
                   /\ seq'[t] \in Nat /\ day'[t] \in Nat
                   /\ 1 \in DOMAIN Offsets(t, seq'[t])
        <4>1. /\ first[t][1] \in 0 .. LastDay /\ first[t][2] \in DOMAIN SequencesOf[t]
              /\ FirstTime(t, first[t][2], first[t][1]) > clock
          BY <3>1, <1>0, NextUpLater DEF Typed
        <4> QED
          BY <4>1, <3>1, <3>2, FirstTimeType, SequenceType, Constants
      <3>4. TypeOK'
        BY <3>1, <3>2, <3>3, <1>0 DEF TypeOK, timeouts, loop, Reschedule
      <3>5. \A t \in Timers : Placed(t)'
        BY <3>2, <3>3 DEF Placed, FirstTime
      <3>6. Ordered'
        BY <3>2 DEF Reschedule, Ordered, IsSorted
      <3>7. InOrder'
        BY <3>2, <3>3, <1>0 DEF InOrder
      <3> QED
        BY <3>2, <3>4, <3>5, <3>6, <3>7, <1>0 DEF IInv, Typed
    <2> QED
      BY <2>1, <2>2
  <1>2. CASE SimulatePast
    <2>1. \A t \in Timers : at[First] <= at[t]
      BY <1>0, <1>2, SortedFirst DEF Ordered, SimulatePast
    <2>2. First \in Timers /\ at[First] \in Int /\ clock < at[First] /\ host \in Time
      BY <1>0, <1>2, FirstIsTimer DEF SimulatePast, InOrder, TypeOK
    <2>3. clock' \in Nat /\ clock' <= host /\ clock' <= at[First]
      BY <2>2, <1>0, <1>2, Constants DEF SimulatePast, Time, Typed
    <2>4. Typed' /\ Ordered'
      BY <1>t, <2>2, <2>3, <1>0, <1>2, Constants DEF SimulatePast, timeouts, loop, TypeOK, Time
    <2>5. \A t \in Timers : at[t] \in Int /\ clock' <= at[t]
      BY <2>1, <2>2, <2>3, <1>0 DEF TypeOK
    <2>6. InOrder'
      BY <1>2, <2>3, <2>5 DEF SimulatePast, InOrder, timers
    <2> QED
      BY <2>4, <2>6 DEF IInv
  <1>3. CASE FirePast
    <2>1. CASE CalendarEnds(First, clock)
      <3>1. Typed' /\ Ordered'
        BY <1>3, <2>1, <1>0, <1>t DEF FirePast, Abort, timeouts, loop, Typed, TypeOK
      <3> QED
        BY <1>3, <2>1, <3>1, <1>0 DEF FirePast, Abort, IInv, InOrder
    <2>2. CASE ~CalendarEnds(First, clock)
      <3>1. /\ Rule /\ Advance(First, clock) /\ Reschedule(at')
            /\ UNCHANGED <<host, rules, loop>>
            /\ rules \in {"pastReady", "pastLast"} /\ Ready
        BY <1>3, <2>2 DEF FirePast
      <3>2. clock' = clock
        BY <3>1, <1>0, RuleType
      <3>3. Typed' /\ Ordered'
        BY <3>1, <1>0, RuleType, FiringKeeps DEF Typed, TypeOK, loop
      <3>4. First \in Timers /\ clock <= at[First] /\ at[First] <= clock
        BY <3>1, <1>0, FirstIsTimer DEF InOrder, Ready, TypeOK, Typed
      <3>5. \A t \in Timers : clock <= at'[t]
        BY <3>1, <3>4, <1>0, AdvancePlaces DEF InOrder, TypeOK, Typed
      <3> QED
        BY <3>1, <3>2, <3>3, <3>5, <1>0 DEF IInv, InOrder
    <2> QED
      BY <2>1, <2>2
  <1>4. CASE PastDone
    <2>1. \A t \in Timers : at[First] <= at[t]
      BY <1>0, <1>4, SortedFirst DEF Ordered, PastDone
    <2>2. First \in Timers /\ clock < at[First]
      BY <1>0, <1>4, FirstIsTimer DEF PastDone, Ready, TypeOK, Typed
    <2>3. Typed' /\ Ordered'
      BY <1>4, <1>0, <1>t DEF PastDone, timeouts, loop, Typed, TypeOK
    <2>4. \A t \in Timers : clock < at[t]
      BY <2>1, <2>2, <1>0 DEF TypeOK, Typed
    <2> QED
      BY <1>4, <2>3, <2>4, <1>0 DEF PastDone, IInv, InOrder, timers
  <1>5. CASE StartUp
    <2>1. Typed' /\ Ordered'
      BY <1>5, <1>0, <1>t, Constants DEF StartUp, SetClock, timeouts, loop, Typed, TypeOK, Time
    <2> QED
      BY <1>5, <2>1 DEF StartUp, IInv, InOrder
  <1>6. CASE Listen
    <2>1. Typed' /\ Ordered'
      BY <1>6, <1>0, <1>t, RuleType DEF Listen, loop, Typed, TypeOK
    <2> QED
      BY <1>6, <2>1 DEF Listen, IInv, InOrder
  <1>7. CASE TimerReady
    <2>1. Typed' /\ Ordered'
      BY <1>7, <1>0, <1>t DEF TimerReady, timeouts, loop, Typed, TypeOK
    <2> QED
      BY <1>7, <2>1 DEF TimerReady, IInv, InOrder
  <1>8. CASE NoTimerReady
    <2>1. Typed' /\ Ordered'
      BY <1>8, <1>0, <1>t, Constants DEF NoTimerReady, StartTimeouts, timeouts, Typed, TypeOK
    <2> QED
      BY <1>8, <2>1 DEF NoTimerReady, StartTimeouts, IInv, InOrder
  <1>9. CASE RunAction
    <2>1. Typed' /\ Ordered'
      BY <1>9, <1>0, <1>t, RuleType DEF RunAction, loop, Typed, TypeOK
    <2> QED
      BY <1>9, <2>1 DEF RunAction, IInv, InOrder
  <1>10. CASE Fired
    <2>1. CASE CalendarEnds(First, clock)
      <3>1. Typed' /\ Ordered'
        BY <1>10, <2>1, <1>0, <1>t DEF Fired, Abort, timeouts, loop, Typed, TypeOK
      <3>2. rules' = "aborted" /\ UNCHANGED <<clock, host>>
        BY <1>10, <2>1 DEF Fired, Abort
      <3> QED
        BY <3>1, <3>2, <1>10, <1>0 DEF IInv, InOrder, Fired
    <2>2. CASE ~CalendarEnds(First, clock)
      <3>1. /\ Advance(First, clock) /\ Reschedule(at') /\ StartTimeouts
            /\ UNCHANGED <<clock, host, timeouts>> /\ rules = "fired"
        BY <1>10, <2>2 DEF Fired
      <3>2. Typed' /\ Ordered'
        BY <3>1, <1>0, FiringKeeps, Constants DEF Typed, TypeOK, StartTimeouts, timeouts
      <3> QED
        BY <3>1, <3>2 DEF IInv, InOrder, StartTimeouts
    <2> QED
      BY <2>1, <2>2
  <1>11. CASE CheckTimeout
    <2>1. /\ checking' \in 1 .. NoTimeouts + 1 /\ rules' \in {"timeouts", "expired"}
          /\ rules' = "expired" => checking' <= NoTimeouts
      BY <1>11, <1>0, Constants DEF CheckTimeout, TypeOK, timeouts
    <2>2. expiry' \in [Timeouts -> Int] /\ asked' \subseteq Timeouts
      BY <1>11, <1>0, TimeAssumption DEF CheckTimeout, TypeOK, timeouts
    <2>3. rules = "timeouts" /\ UNCHANGED <<clock, host, timers, now>>
      BY <1>11 DEF CheckTimeout
    <2>4. /\ clock' \in Nat /\ clock' <= Horizon /\ host' \in Time /\ now' \in Int
          /\ UNCHANGED timers /\ Running
      BY <2>3, <1>0 DEF Typed, TypeOK
    <2>5. Typed' /\ Ordered'
      BY <2>1, <2>2, <2>4, <1>t
    <2> QED
      BY <2>1, <2>5 DEF IInv, InOrder
  <1>12. CASE OffAction
    <2>1. checking' \in 1 .. NoTimeouts + 1
      BY <1>12, <1>0, Constants DEF OffAction, TypeOK, Typed
    <2>2. Typed' /\ Ordered'
      BY <1>12, <2>1, <1>0, <1>t, RuleType DEF OffAction, Typed, TypeOK
    <2> QED
      BY <1>12, <2>2 DEF OffAction, IInv, InOrder
  <1>13. CASE TimeoutsDone
    <2>1. Typed' /\ Ordered'
      BY <1>13, <1>0, <1>t DEF TimeoutsDone, timeouts, loop, Typed, TypeOK
    <2> QED
      BY <1>13, <2>1 DEF TimeoutsDone, IInv, InOrder
  <1>14. CASE Tick
    <2>1. Typed' /\ Ordered'
      BY <1>14, <1>0, <1>t, Constants DEF Tick, timeouts, loop, Typed, TypeOK
    <2> QED
      BY <1>14, <2>1 DEF Tick, IInv, InOrder, Live
  <1>15. CASE HostTick
    <2>1. host' \in Time /\ host <= host'
      BY <1>15, <1>0, Constants DEF HostTick, TypeOK, Time
    <2>2. Typed' /\ Ordered'
      BY <1>15, <2>1, <1>0, <1>t DEF HostTick, timeouts, loop, Typed, TypeOK
    <2> QED
      BY <1>15, <2>1, <2>2, <1>0, Constants DEF HostTick, IInv, InOrder, Live, TypeOK, Typed, timers, Time
  <1>16. CASE UNCHANGED vars
    <2>1. Typed' /\ Ordered'
      BY <1>16, <1>0, <1>t DEF vars, timeouts, loop, Typed, TypeOK
    <2> QED
      BY <1>16, <2>1, <1>0 DEF vars, IInv, InOrder, timers
  <1> QED
    BY <1>1, <1>2, <1>3, <1>4, <1>5, <1>6, <1>7, <1>8, <1>9, <1>10, <1>11, <1>12, <1>13,
       <1>14, <1>15, <1>16 DEF Next, RulesThread

LEMMA Invariance == Spec => []IInv
  <1>1. Init => IInv
    BY InitialState
  <1>2. IInv /\ [Next]_vars => IInv'
    BY InductiveStep
  <1> QED
    BY <1>1, <1>2, PTL DEF Spec

-----------------------------------------------------------------------------
\* The clocks, the timers and the timeouts keep their ranges.
THEOREM TypeCorrect == Spec => []TypeOK
  <1>1. IInv => TypeOK
    BY DEF IInv, Typed
  <1> QED
    BY <1>1, Invariance, PTL

\* Whenever timerReady or SimulatePast looks at the first timer, none is due before it.
THEOREM HeadIsEarliestHolds == Spec => []HeadIsEarliest
  <1>1. IInv => HeadIsEarliest
    BY SortedFirst DEF IInv, Typed, Ordered, Running, HeadIsEarliest
  <1> QED
    BY <1>1, Invariance, PTL

\* What a step of the rules thread that fires does to the timers.
LEMMA FiringAdvances ==
    ASSUME IInv, Next, Fires
    PROVE  /\ Running /\ Advance(First, clock)
           /\ rules = "fired" \/ (Ready /\ clock' = clock)
  <1> USE DEF Running
  <1>1. CASE rules = "fired"
    <2>1. rules' = "timeouts"
      BY <1>1 DEF Fires
    <2>2. Fired
      BY <1>1, <2>1 DEF Next, RulesThread, CompleteDefinitions, SimulatePast, FirePast, PastDone,
         StartUp, Listen, TimerReady, NoTimerReady, RunAction, CheckTimeout, OffAction,
         TimeoutsDone, Tick, HostTick, vars
    <2> QED
      BY <1>1, <2>1, <2>2 DEF Fired, Abort
  <1>2. CASE rules # "fired"
    <2>1. rules \in {"pastReady", "pastLast"} /\ Ready /\ rules' = rules
      BY <1>2 DEF Fires
    <2>2. FirePast
      BY <2>1 DEF Next, RulesThread, CompleteDefinitions, SimulatePast, PastDone, StartUp, Listen,
         TimerReady, NoTimerReady, RunAction, Fired, CheckTimeout, OffAction, TimeoutsDone, Tick,
         HostTick, Live, InThePast
    <2>3. Rule /\ Advance(First, clock)
      BY <2>1, <2>2 DEF FirePast, Abort
    <2>4. clock' = clock
      BY <2>1, <2>3, RuleType DEF IInv, InThePast
    <2> QED
      BY <2>1, <2>3, <2>4
  <1> QED
    BY <1>1, <1>2

\* What a timer is set up for lies after what it has just fired, unless the clock was set back.
THEOREM TimersMoveOnHolds == Spec => TimersMoveOn
  <1>1. ASSUME IInv, Next, Fires
        PROVE  \/ event'[First] = event[First] + 1 /\ at'[First] >= at[First]
               \/ at'[First] > at[First]
               \/ clock < at[First]
    <2>1. Running /\ Advance(First, clock) /\ Typed /\ First \in Timers
      BY <1>1, FiringAdvances, FirstIsTimer DEF IInv, Typed
    <2>2. \/ event'[First] = event[First] + 1 /\ at'[First] >= at[First]
          \/ at'[First] > clock
      BY <2>1, AdvancePlaces
    <2>3. at[First] \in Int /\ at'[First] \in Int /\ clock \in Int
      BY <2>1, AdvancePlaces DEF Typed, TypeOK
    <2> QED
      BY <2>2, <2>3
  <1>2. IInv /\ [Next]_vars => [Fires => \/ (event'[First] = event[First] + 1 /\ at'[First] >= at[First])
                                           \/ at'[First] > at[First]
                                           \/ clock < at[First]]_vars
    BY <1>1
  <1> QED
    BY <1>2, Invariance, PTL DEF Spec, TimersMoveOn

\* The past is simulated in order: nothing is fired before or after its time.
THEOREM PastOnTimeHolds == Spec => PastOnTime
  <1>1. ASSUME IInv, Next, InThePast
        PROVE  clock' >= clock /\ (Fires => clock = at[First])
    <2>1. clock \in Int /\ host \in Int /\ First \in Timers /\ at[First] \in Int
      BY <1>1, FirstIsTimer, Constants DEF IInv, Typed, TypeOK, Time
    <2>2. clock' >= clock
      <3>1. CASE SimulatePast
        BY <3>1, <2>1, <1>1 DEF SimulatePast, IInv, InOrder, InThePast
      <3>2. CASE FirePast
        BY <3>2, <2>1, <1>1, RuleType DEF FirePast, Abort, IInv
      <3>3. CASE ~SimulatePast /\ ~FirePast
        BY <3>3, <2>1, <1>1 DEF Next, RulesThread, CompleteDefinitions, PastDone, StartUp, Listen,
           TimerReady, NoTimerReady, RunAction, Fired, CheckTimeout, OffAction, TimeoutsDone,
           Tick, HostTick, Live, InThePast, Abort
      <3> QED
        BY <3>1, <3>2, <3>3
    <2>3. Fires => clock = at[First]
      BY <1>1, <2>1 DEF Fires, Ready, IInv, InOrder, InThePast
    <2> QED
      BY <2>2, <2>3
  <1>2. IInv /\ [Next]_vars => [InThePast => clock' >= clock /\ (Fires => clock = at[First])]_vars
    BY <1>1
  <1> QED
    BY <1>2, Invariance, PTL DEF Spec, PastOnTime

-----------------------------------------------------------------------------
\* A day that contains a time later than c is not before the day of c.
LEMMA LaterDay ==
    ASSUME NEW c \in Nat, NEW x \in Int, c < x
    PROVE  c \div DayLength <= x \div DayLength
  BY Constants

\* Between c and what is next after c there is no sequence that begins on its own day, if the
\* next begins on its own day.
LEMMA NextUpOvertakesNone ==
    ASSUME NEW t \in Timers, NEW c \in Nat, NEW ds \in NextUp(t, c),
           OnItsDay(t, ds[2], ds[1]),
           NEW d \in 0 .. LastDay, NEW s \in DOMAIN SequencesOf[t],
           Applies(t, s, d), OnItsDay(t, s, d), c < FirstTime(t, s, d)
    PROVE  FirstTime(t, ds[2], ds[1]) <= FirstTime(t, s, d)
  <1> DEFINE chosen == FirstTime(t, ds[2], ds[1])
             other == FirstTime(t, s, d)
  <1>1. chosen \in Int /\ other \in Int /\ ds[1] \in 0 .. LastDay
    BY NextUpLater, FirstTimeType
  <1>2. SUFFICES ASSUME other < chosen PROVE FALSE
    BY <1>1
  <1>3. c \div DayLength <= d /\ d <= ds[1]
    BY <1>1, <1>2, LaterDay, Constants DEF OnItsDay
  <1>4. d \in c \div DayLength .. ds[1]
    BY <1>1, <1>3, Constants
  <1>5. s \in Candidates(t, c, d)
    BY DEF Candidates
  <1> QED
    BY <1>1, <1>2, <1>4, <1>5, NextUpEarliest

\* A timer's next sequence passes over none on its own day.
THEOREM NoneOvertakenHolds == Spec => NoneOvertaken
  <1> DEFINE Passes(t, d, s) ==
                (/\ Applies(t, s, d)
                 /\ clock < FirstTime(t, s, d) /\ FirstTime(t, s, d) < at'[t])
                => ~OnItsDay(t, s, d) \/ ~OnItsDay(t, seq'[t], day'[t])
             SetUp == \A t \in Timers : SetsUp(t) =>
                        \A d \in 0 .. LastDay : \A s \in DOMAIN SequencesOf[t] : Passes(t, d, s)
  <1>1. ASSUME NEW t \in Timers, NEW ds \in NextUp(t, clock), clock \in Nat,
               seq'[t] = ds[2], day'[t] = ds[1], at'[t] = FirstTime(t, ds[2], ds[1]),
               NEW d \in 0 .. LastDay, NEW s \in DOMAIN SequencesOf[t]
        PROVE  Passes(t, d, s)
    <2>1. FirstTime(t, ds[2], ds[1]) \in Int /\ FirstTime(t, s, d) \in Int
      BY <1>1, NextUpLater, FirstTimeType
    <2> QED
      BY <1>1, <2>1, NextUpOvertakesNone
  <1>2. ASSUME IInv, Next PROVE SetUp
    <2> SUFFICES ASSUME NEW t \in Timers, SetsUp(t)
                 PROVE  \A d \in 0 .. LastDay : \A s \in DOMAIN SequencesOf[t] : Passes(t, d, s)
      OBVIOUS
    <2>0. clock \in Nat
      BY <1>2 DEF IInv, Typed
    <2>1. CASE rules = "define" /\ rules' = "past"
      <3>1. CompleteDefinitions
        BY <2>1, <1>2 DEF Next, RulesThread, SimulatePast, FirePast, PastDone, StartUp, Listen,
           TimerReady, NoTimerReady, RunAction, Fired, CheckTimeout, OffAction, TimeoutsDone,
           Tick, HostTick
      <3>2. PICK first \in [Timers -> (0 .. LastDay) \X UNION {DOMAIN SequencesOf[u] : u \in Timers}] :
                 /\ \A u \in Timers : first[u] \in NextUp(u, clock)
                 /\ day' = [u \in Timers |-> first[u][1]]
                 /\ seq' = [u \in Timers |-> first[u][2]]
        BY <3>1, <2>1 DEF CompleteDefinitions
      <3>3. at' = [u \in Timers |-> FirstTime(u, seq'[u], day'[u])]
        BY <3>1, <2>1 DEF CompleteDefinitions
      <3>4. /\ first[t] \in NextUp(t, clock)
            /\ seq'[t] = first[t][2] /\ day'[t] = first[t][1]
            /\ at'[t] = FirstTime(t, first[t][2], first[t][1])
        BY <3>2, <3>3
      <3> QED
        BY <3>4, <2>0, <1>1
    <2>2. CASE Fires /\ t = First /\ event[t] = Len(SequencesOf[t][seq[t]].offsets)
      <3>1. Running /\ Advance(First, clock) /\ Typed
        BY <2>2, <1>2, FiringAdvances DEF IInv
      <3>a. event[First] \in Nat
        BY <3>1, FirstIsTimer DEF Typed, TypeOK
      <3>b. event[First] = Len(SequencesOf[First][seq[First]].offsets)
        BY <2>2
      <3>2. ~(event[First] < Len(SequencesOf[First][seq[First]].offsets))
        BY <3>a, <3>b
      <3>3. PICK ds \in NextUp(First, clock) :
            /\ day' = [day EXCEPT ![First] = ds[1]]
            /\ seq' = [seq EXCEPT ![First] = ds[2]]
            /\ at' = [at EXCEPT ![First] = FirstTime(First, ds[2], ds[1])]
        BY <3>1, <3>2 DEF Advance
      <3>4. /\ ds \in NextUp(t, clock)
            /\ seq'[t] = ds[2] /\ day'[t] = ds[1]
            /\ at'[t] = FirstTime(t, ds[2], ds[1])
        BY <3>1, <3>3, <2>2 DEF Typed, TypeOK
      <3> QED
        BY <3>4, <2>0, <1>1
    <2> QED
      BY <2>1, <2>2 DEF SetsUp
  <1>3. IInv /\ [Next]_vars => [SetUp]_vars
    BY <1>2
  <1> QED
    BY <1>3, Invariance, PTL DEF Spec, NoneOvertaken

\* A timeout that has been set is running until its action is fired for it.
THEOREM SettingIsKeptHolds == Spec => []SettingIsKept
  <1>1. Init => SettingIsKept
    BY DEF Init, SettingIsKept
  <1>2. ASSUME IInv, SettingIsKept, Rule PROVE SettingIsKept'
    <2>1. CASE SetTimeout
      <3>1. PICK o \in Timeouts, duration \in Durations :
            /\ expiry' = [expiry EXCEPT ![o] = clock + duration]
            /\ asked' = asked \union {o}
        BY <2>1 DEF SetTimeout
      <3>2. clock + duration # THE_END_OF_TIME
        BY TimeAssumption, <1>2 DEF IInv, Typed
      <3>3. expiry \in [Timeouts -> Int] /\ asked \subseteq Timeouts
        BY <1>2 DEF IInv, Typed, TypeOK
      <3>4. expiry'[o] = clock + duration /\ \A p \in Timeouts \ {o} : expiry'[p] = expiry[p]
        BY <3>1, <3>3
      <3> QED
        BY <1>2, <3>1, <3>2, <3>3, <3>4 DEF SettingIsKept
    <2>2. CASE ~SetTimeout
      BY <1>2, <2>2 DEF Rule, SetClock, SettingIsKept, timeouts
    <2> QED
      BY <2>1, <2>2
  <1>3. ASSUME IInv, SettingIsKept, [Next]_vars PROVE SettingIsKept'
    <2>1. CASE FirePast \/ Listen \/ RunAction \/ OffAction
      BY <1>2, <1>3, <2>1 DEF FirePast, Listen, RunAction, OffAction, Abort, SettingIsKept, timeouts
    <2>2. CASE CheckTimeout
      BY <1>3, <2>2 DEF CheckTimeout, SettingIsKept, IInv, Typed, TypeOK, timeouts
    <2>3. CASE ~(FirePast \/ Listen \/ RunAction \/ OffAction) /\ ~CheckTimeout
      <3>1. UNCHANGED timeouts
        BY <1>3, <2>3 DEF Next, RulesThread, CompleteDefinitions, SimulatePast, PastDone, StartUp,
           SetClock, TimerReady, NoTimerReady, Fired, Abort, TimeoutsDone, Tick, HostTick, vars
      <3> QED
        BY <1>3, <3>1 DEF timeouts, SettingIsKept
    <2> QED
      BY <2>1, <2>2, <2>3
  <1> QED
    BY <1>1, <1>3, Invariance, PTL DEF Spec
=============================================================================
