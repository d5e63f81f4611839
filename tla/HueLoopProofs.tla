--------------------------- MODULE HueLoopProofs ---------------------------
(***************************************************************************)
(* The Hue lamps, for any lamps in any house codes, any number of DIM      *)
(* levels that a brightness can tell apart, and any number of disturbances. *)
(***************************************************************************)
EXTENDS HueLoop, TLAPS

(* What is waiting is what one plan left, what the Hue thread was sending,  *)
(* and what the walk has added since.                                      *)
QueueInv ==
    /\ rules = "planning" => Len(hueQueue) <= next - 1
    /\ rules = "planning" /\ ~changeNeeded => hueQueue = <<>>
    /\ rules # "planning" => house = 1 /\ next = 1 /\ ~changeNeeded
    /\ Len(hueQueue) <= MaxLinked
    /\ Len(hueQueue) + Len(sent) + Len(reverseHueQueue) <= MaxLinked + 1 +
          (IF rules = "planned" THEN MaxLinked ELSE IF changeNeeded THEN next - 1 ELSE 0)

(* A walk that has added nothing has passed only lamps that are as wanted,  *)
(* and a flag set with no reply outstanding is true of every lamp.         *)
Passed(h, i) == h < house \/ (h = house /\ i < next)
RestInv ==
    /\ rules = "planning" => ~allHueDevicesInWantedState
    /\ rules = "planning" /\ ~changeNeeded =>
          \A h \in DOMAIN Linked : \A i \in DOMAIN Linked[h] :
             Passed(h, i) => ~ChangeNeeded(Linked[h][i])
    /\ allHueDevicesInWantedState /\ ~overtaken =>
          /\ hueQueue = <<>> /\ sent = <<>> /\ reverseHueQueue = <<>>
          /\ \A l \in Lamps : ~ChangeNeeded(l)

(* The last reply about a lamp's state that waits to be heard tells what the *)
(* lamp shows; if none waits, the house believes it already.               *)
IsReply(i, l) == reverseHueQueue[i].lamp = l /\ reverseHueQueue[i].brightness # {}
Heard(l) == BelievedRight(l) /\ \A i \in DOMAIN reverseHueQueue : ~IsReply(i, l)
Waits(l) == \E i \in DOMAIN reverseHueQueue :
               /\ IsReply(i, l) /\ \A j \in DOMAIN reverseHueQueue : IsReply(j, l) => j <= i
               /\ reverseHueQueue[i].brightness = {actual[l].brightness}
BeliefInv == \A l \in sure \ refused : Heard(l) \/ Waits(l)

-----------------------------------------------------------------------------
(* The constants and the two conversions.                                   *)

LEMMA Constants ==
    /\ DOMAIN Linked = 1..Len(Linked) /\ Len(Linked) \in Nat /\ 1 \in DOMAIN Linked
    /\ MaxLinked \in Nat
    /\ \A h \in DOMAIN Linked : /\ Len(Linked[h]) \in 0..MaxLinked
                                /\ DOMAIN Linked[h] = 1..Len(Linked[h])
                                /\ \A i \in DOMAIN Linked[h] : Linked[h][i] \in Lamps
  <1>1. Linked \in Seq(Seq(Lamps)) /\ Linked # <<>>
    BY LinkedAssumption
  <1>2. \A h \in DOMAIN Linked : Linked[h] \in Seq(Lamps)
    BY <1>1
  <1> QED
    BY <1>1, <1>2, LinkedAssumption

LEMMA LampIsLinked ==
    ASSUME NEW l \in Lamps
    PROVE  \E h \in DOMAIN Linked : \E i \in DOMAIN Linked[h] : l = Linked[h][i]
  BY DEF Lamps, Range

LEMMA StepType ==
    /\ MaxDim \in Nat /\ MaxDim > 0
    /\ BrightnessStep \in Nat /\ BrightnessStep > 0
    /\ MaxDim * BrightnessStep < MaxBrightness
  <1>1. MaxDim \in Nat /\ MaxDim > 0 /\ MaxDim < 254
    BY MaxDimAssumption, BrightnessAssumption DEF MaxBrightness
  <1>2. BrightnessStep \in Nat /\ BrightnessStep > 0
    BY <1>1 DEF BrightnessStep, MaxBrightness
  <1>3. (MaxDim + 1) * BrightnessStep <= 254
    BY <1>1 DEF BrightnessStep, MaxBrightness
  <1>4. (MaxDim + 1) * BrightnessStep = MaxDim * BrightnessStep + BrightnessStep
    BY <1>1, <1>2
  <1>5. MaxDim * BrightnessStep \in Int
    BY <1>1, <1>2
  <1> QED
    BY <1>1, <1>2, <1>3, <1>4, <1>5 DEF MaxBrightness

LEMMA Steps ==
    ASSUME NEW n \in Nat, NEW m \in Nat, n <= m, NEW d \in Nat, d > 0
    PROVE  n * d \in Nat /\ n * d <= m * d /\ (n * d) \div d = n
  OBVIOUS

\* A state survives being made a brightness and back.
LEMMA StateSurvives ==
    ASSUME NEW s \in Wishes
    PROVE  /\ CalcBrightness(s) \in 0..MaxBrightness
           /\ CalcDeviceState(CalcBrightness(s)) = s
  <1>1. CASE s = Off
    BY <1>1, StepType DEF CalcBrightness, CalcDeviceState, Lit, Off, On, Dim, Darkest, MaxBrightness
  <1>2. CASE s \in Lit
    <2>1. PICK n \in Nat : n <= MaxDim /\ s = n + On
      BY <1>2, StepType DEF Lit, On, Dim, Darkest
    <2>2. PICK x \in Nat : /\ x = n * BrightnessStep /\ x <= MaxDim * BrightnessStep
                           /\ x \div BrightnessStep = n
      BY <2>1, StepType, Steps
    <2>3. x < MaxBrightness
      BY <2>2, StepType DEF MaxBrightness
    <2>4. CalcBrightness(s) = MaxBrightness - x
      BY <1>2, <2>1, <2>2 DEF CalcBrightness, On
    <2>5. CalcDeviceState(MaxBrightness - x) = x \div BrightnessStep + On
      BY <2>3 DEF CalcDeviceState, MaxBrightness
    <2> QED
      BY <2>1, <2>2, <2>3, <2>4, <2>5 DEF MaxBrightness
  <1> QED
    BY <1>1, <1>2, StepType DEF Wishes, Lit, Off, On, Dim, Darkest

LEMMA WishesAreStates == Wishes \subseteq States /\ RefreshWanted \in States
  BY StepType DEF Wishes, States, Off, Dim, Darkest, RefreshWanted

LEMMA OrIs ==
    /\ \A S, s : \A c \in Perhaps(S) : Or(c, s) \in S \cup {s} /\ (c # {} => Or(c, s) \in c)
    /\ \A s : Or({}, s) = s
    /\ \A v, s : Or({v}, s) = v
  BY DEF Perhaps, Or

LEMMA CommandsType ==
    ASSUME TypeOK, NEW l \in Lamps
    PROVE  /\ Commands(l) \in Messages /\ Commands(l).lamp = l
           /\ NoCommands(l) \in Messages /\ NoCommands(l).lamp = l
           /\ NoCommands(l).brightness = {}
  BY DEF TypeOK, Wanted, Commands, Message, Messages, Perhaps, NoCommands

LEMMA ObeysType ==
    ASSUME NEW a \in Showing, NEW m \in Messages
    PROVE  /\ Obeys(a, m) \in Showing
           /\ m.brightness = {} => Obeys(a, m).brightness = a.brightness
           /\ m.brightness # {} => m.brightness = {Obeys(a, m).brightness}
  <1>1. /\ m.brightness \in Perhaps({CalcBrightness(s) : s \in Wishes})
        /\ m.colour \in Perhaps(Colours) /\ m.loop \in Perhaps(BOOLEAN)
    BY DEF Messages
  <1>2. {CalcBrightness(s) : s \in Wishes} \subseteq 0..MaxBrightness
    BY StateSurvives
  <1>3. /\ Or(m.brightness, a.brightness) \in 0..MaxBrightness
        /\ Or(m.colour, a.colour) \in Colours /\ Or(m.loop, a.loop) \in BOOLEAN
    <2>1. a.brightness \in 0..MaxBrightness /\ a.colour \in Colours /\ a.loop \in BOOLEAN
      BY DEF Showing
    <2>2. Or(m.brightness, a.brightness) \in 0..MaxBrightness
      BY <1>1, <1>2, <2>1, OrIs
    <2>3. Or(m.colour, a.colour) \in Colours
      BY <1>1, <2>1, OrIs
    <2>4. Or(m.loop, a.loop) \in BOOLEAN
      <3>1. Or(m.loop, a.loop) \in BOOLEAN \cup {a.loop}
        BY <1>1, OrIs, Zenon
      <3> QED
        BY <2>1, <3>1
    <2> QED
      BY <2>2, <2>3, <2>4
  <1>4. m.brightness # {} => m.brightness = {Or(m.brightness, a.brightness)}
    BY <1>1, OrIs DEF Perhaps
  <1>5. m.brightness = {} => Or(m.brightness, a.brightness) = a.brightness
    BY OrIs
  <1> QED
    BY <1>3, <1>4, <1>5 DEF Obeys, Showing

\* What a reply makes the house believe.
LEMMA HeardType ==
    ASSUME NEW m \in Messages, NEW s \in States
    PROVE  /\ m.brightness # {} =>
                 \E w \in Wishes : /\ m.brightness = {CalcBrightness(w)}
                                   /\ CalcDeviceState(Or(m.brightness, 0)) = w
           /\ (IF m.brightness = {} THEN s ELSE CalcDeviceState(Or(m.brightness, 0))) \in States
  <1>1. m.brightness \in Perhaps({CalcBrightness(w) : w \in Wishes})
    BY DEF Messages
  <1>2. ASSUME m.brightness # {}
        PROVE  \E w \in Wishes : /\ m.brightness = {CalcBrightness(w)}
                                 /\ CalcDeviceState(Or(m.brightness, 0)) = w
    <2>1. PICK w \in Wishes : m.brightness = {CalcBrightness(w)}
      BY <1>1, <1>2 DEF Perhaps
    <2>2. Or({CalcBrightness(w)}, 0) = CalcBrightness(w)
      BY OrIs, Zenon
    <2>3. Or(m.brightness, 0) = CalcBrightness(w)
      BY <2>1, <2>2
    <2> QED
      BY <2>1, <2>3, StateSurvives
  <1> QED
    BY <1>2, WishesAreStates

-----------------------------------------------------------------------------
(* Types                                                                   *)

LEMMA Bounds ==
    /\ HueWishes \subseteq Wanted /\ Known \subseteq Lamps
    /\ MaxFailCount \in Nat /\ MaxFailCount > 0 /\ MaxDisturbances \in Nat
  <1>1. HueWishes \subseteq Wanted
    BY HueLoopAssumption DEF Wanted, Colours
  <1> QED
    BY <1>1, HueLoopAssumption

LEMMA DisturbType == TypeOK /\ Disturb => disturbances' \in 0..MaxDisturbances
  BY Bounds DEF TypeOK, Disturb

LEMMA SentType ==
    ASSUME TypeOK, hue = "sending"
    PROVE  /\ sent[1] \in Messages /\ sent[1].lamp \in Lamps
           /\ StateSent \subseteq Lamps
  <1>1. sent \in Seq(Messages) /\ Len(sent) = 1
    BY DEF TypeOK
  <1>2. sent[1] \in Messages
    BY <1>1
  <1> QED
    BY <1>2 DEF Messages, StateSent

LEMMA TypeInit == Init => TypeOK
  <1> SUFFICES ASSUME Init PROVE TypeOK
    OBVIOUS
  <1>1. Off \in States /\ Off \in Wishes
    BY StepType DEF Off, States, Wishes, Dim, Darkest, RefreshWanted
  <1>2. 0 \in 0..MaxBrightness /\ MaxBrightness \in 0..MaxBrightness
    BY DEF MaxBrightness
  <1>3. [state |-> Off, colour |-> 0, loop |-> FALSE] \in Setting \cap Wanted
    BY <1>1 DEF Setting, Wanted, Colours
  <1>4. shown \in [Lamps -> Setting] /\ wanted \in [Lamps -> Wanted]
    BY <1>3 DEF Init
  <1>5. actual \in [Lamps -> Showing]
    BY <1>2 DEF Init, Showing, Colours
  <1>6. house \in DOMAIN Linked /\ next \in 1..(Len(Linked[house]) + 1)
    BY Constants DEF Init
  <1> QED
    <2>1. <<>> \in Seq(Messages) /\ Len(<<>>) = 0
      OBVIOUS
    <2>2. /\ sent \in Seq(Messages) /\ Len(sent) = IF hue = "sending" THEN 1 ELSE 0
          /\ hueQueue \in Seq(Messages) /\ reverseHueQueue \in Seq(Messages)
      BY <2>1 DEF Init
    <2>3. /\ failCount \in 0..MaxFailCount /\ failCount < MaxFailCount
          /\ disturbances \in 0..MaxDisturbances
      BY Bounds DEF Init
    <2> QED
      BY <1>4, <1>5, <1>6, <2>2, <2>3 DEF Init, TypeOK

LEMMA TypeStep == TypeOK /\ [Next]_vars => TypeOK'
  <1> SUFFICES ASSUME TypeOK, [Next]_vars PROVE TypeOK'
    OBVIOUS
  <1> USE DEF TypeOK
  <1>1. CASE Listen
    <2> DEFINE m == Head(reverseHueQueue)
    <2>1. m \in Messages /\ Tail(reverseHueQueue) \in Seq(Messages)
      BY <1>1 DEF Listen
    <2>2. m.lamp \in Lamps /\ m.colour \in Perhaps(Colours) /\ m.loop \in Perhaps(BOOLEAN)
      BY <2>1 DEF Messages
    <2>3. shown[m.lamp] \in Setting
      BY <2>2
    <2>4. /\ Or(m.colour, shown[m.lamp].colour) \in Colours \cup {NoColour}
          /\ Or(m.loop, shown[m.lamp].loop) \in BOOLEAN
      BY <2>2, <2>3, OrIs DEF Setting
    <2>5. (IF m.brightness = {} THEN shown[m.lamp].state
           ELSE CalcDeviceState(Or(m.brightness, 0))) \in States
      BY <2>1, <2>3, HeardType DEF Setting
    <2>6. shown' = [shown EXCEPT ![m.lamp] =
                [state  |-> IF m.brightness = {} THEN shown[m.lamp].state
                            ELSE CalcDeviceState(Or(m.brightness, 0)),
                 colour |-> Or(m.colour, shown[m.lamp].colour),
                 loop   |-> Or(m.loop, shown[m.lamp].loop)]]
      BY <1>1, <2>2 DEF Listen
    <2>7. shown' \in [Lamps -> Setting]
      <3> HIDE DEF m
      <3> QED
        BY <2>4, <2>5, <2>6 DEF Setting
    <2> QED
      BY <1>1, <2>1, <2>7 DEF Listen, hueVars, lampVars, walk
  <1>2. CASE Listened
    BY <1>2 DEF Listened, hueVars, lampVars, walk
  <1>3. CASE StartPlan
    BY <1>3 DEF StartPlan, hueVars, lampVars, walk
  <1>4. CASE UpdateLamp
    <2>1. Linked[house][next] \in Lamps /\ next + 1 \in 1..(Len(Linked[house]) + 1)
      BY <1>4, Constants DEF UpdateLamp
    <2>2. Commands(Linked[house][next]) \in Messages
      BY <2>1, CommandsType
    <2>3. hueQueue' \in Seq(Messages)
      <3>1. hueQueue' \in {hueQueue, Append(hueQueue, Commands(Linked[house][next]))}
        BY <1>4, Zenon DEF UpdateLamp
      <3>2. \A c \in Messages : Append(hueQueue, c) \in Seq(Messages)
        OBVIOUS
      <3> QED
        BY <2>2, <3>1, <3>2, Zenon
    <2>5. changeNeeded' \in BOOLEAN
      BY <1>4, Zenon DEF UpdateLamp
    <2>4. house' \in DOMAIN Linked /\ next' \in 1..(Len(Linked[house']) + 1)
      BY <1>4, <2>1 DEF UpdateLamp
    <2> QED
      BY <1>4, <2>3, <2>4, <2>5 DEF UpdateLamp, hueVars, lampVars
  <1>5. CASE NextHouseCode
    <2>1. house' \in DOMAIN Linked /\ next' \in 1..(Len(Linked[house']) + 1)
      BY <1>5, Constants DEF NextHouseCode
    <2> QED
      BY <1>5, <2>1 DEF NextHouseCode, hueVars, lampVars
  <1>6. CASE EndPlan
    <2>1. /\ allHueDevicesInWantedState' \in BOOLEAN /\ overtaken' \in BOOLEAN
          /\ changeNeeded' \in BOOLEAN
      BY <1>6, Zenon DEF EndPlan
    <2>2. house' \in DOMAIN Linked /\ next' \in 1..(Len(Linked[house']) + 1)
      BY <1>6, Constants DEF EndPlan
    <2>3. rules' \in {"planned", "working"}
      BY <1>6 DEF EndPlan
    <2> QED
      BY <1>6, <2>1, <2>2, <2>3 DEF EndPlan, hueVars, lampVars
  <1>7. CASE LookAway
    BY <1>7 DEF LookAway, hueVars, lampVars, walk
  <1>8. CASE NextTurn
    BY <1>8 DEF NextTurn, hueVars, lampVars, walk
  <1>9. CASE Connect
    BY <1>9 DEF Connect, houseVars, lampVars, walk
  <1>10. CASE PopMessage
    BY <1>10 DEF PopMessage, houseVars, lampVars, walk
  <1>11. CASE NotKnown
    <2>1. sent[1] \in Messages
      BY <1>11, SentType DEF NotKnown
    <2>2. NoCommands(sent[1].lamp) \in Messages
      BY <2>1, CommandsType DEF Messages
    <2> QED
      BY <1>11, <2>2 DEF NotKnown, Reply, houseVars, lampVars, walk
  <1>12. CASE Committed
    <2>1. sent[1] \in Messages /\ sent[1].lamp \in Lamps /\ StateSent \subseteq Lamps
      BY <1>12, SentType DEF Committed
    <2>2. actual' \in [Lamps -> Showing]
      BY <1>12, <2>1, ObeysType DEF Committed
    <2> QED
      BY <1>12, <2>1, <2>2 DEF Committed, Reply, houseVars, walk
  <1>13. CASE Recover
    BY <1>13, Bounds DEF Recover, houseVars, lampVars, walk
  <1>14. ASSUME NEW l \in Lamps, NEW w \in HueWishes, SetWantedState(l, w)
         PROVE  TypeOK'
    <2>1. wanted' \in [Lamps -> Wanted]
      BY <1>14, Bounds DEF SetWantedState
    <2> QED
      BY <1>14, <2>1, DisturbType DEF SetWantedState, hueVars, lampVars, walk
  <1>15. ASSUME NEW l \in Lamps, NEW s \in {Off, On}, Timeout(l, s)
         PROVE  TypeOK'
    <2>1. s \in Wishes
      BY StepType DEF Wishes, Off, On, Dim, Darkest
    <2>2. wanted' \in [Lamps -> Wanted]
      BY <1>15, <2>1 DEF Timeout, Wanted
    <2>3. allHueDevicesInWantedState' \in BOOLEAN
      BY <1>15, Zenon DEF Timeout
    <2> QED
      BY <1>15, <2>2, <2>3, DisturbType DEF Timeout, hueVars, lampVars, walk
  <1>16. CASE RefreshDevices
    <2>1. shown' \in [Lamps -> Setting]
      BY <1>16, WishesAreStates DEF RefreshDevices, Setting
    <2> QED
      BY <1>16, <2>1, DisturbType DEF RefreshDevices, hueVars, lampVars, walk
  <1>17. CASE ConnectFails
    BY <1>17, DisturbType DEF ConnectFails, houseVars, lampVars, walk
  <1>18. CASE Refused
    <2>1. sent[1] \in Messages /\ sent[1].lamp \in Lamps /\ StateSent \subseteq Lamps
      BY <1>18, SentType DEF Refused
    <2> QED
      BY <1>18, <2>1, DisturbType DEF Refused, Reply, houseVars, walk
  <1>19. CASE CommitFails
    <2>1. sent[1] \in Messages /\ sent[1].lamp \in Lamps /\ StateSent \subseteq Lamps
      BY <1>19, SentType DEF CommitFails
    <2>2. actual' \in [Lamps -> Showing]
      <3>1. Obeys(actual[sent[1].lamp], sent[1]) \in Showing
        BY <2>1, ObeysType
      <3> QED
        BY <1>19, <2>1, <3>1 DEF CommitFails
    <2> QED
      BY <1>19, <2>1, <2>2, DisturbType DEF CommitFails, houseVars, walk
  <1>20. CASE UNCHANGED vars
    BY <1>20 DEF vars, houseVars, hueVars, lampVars, walk
  <1> QED
    BY <1>1, <1>2, <1>3, <1>4, <1>5, <1>6, <1>7, <1>8, <1>9, <1>10, <1>11, <1>12, <1>13, <1>14,
       <1>15, <1>16, <1>17, <1>18, <1>19, <1>20
    DEF Next, RulesTurn, HueTurn, UpdateHueDevices

-----------------------------------------------------------------------------
(* The lengths of the queues                                               *)

LEMMA Lengths ==
    ASSUME TypeOK
    PROVE  /\ Len(hueQueue) \in Nat /\ Len(reverseHueQueue) \in Nat
           /\ Len(sent) = IF hue = "sending" THEN 1 ELSE 0
           /\ house \in Nat /\ next \in Nat /\ next >= 1 /\ MaxLinked \in Nat
           /\ next <= Len(Linked[house]) + 1 /\ Len(Linked[house]) \in 0..MaxLinked
           /\ reverseHueQueue = <<>> => Len(reverseHueQueue) = 0
           /\ hueQueue = <<>> => Len(hueQueue) = 0
  BY Constants DEF TypeOK

LEMMA LengthsAfter ==
    ASSUME TypeOK
    PROVE  /\ reverseHueQueue # <<>> =>
                 Len(Tail(reverseHueQueue)) = Len(reverseHueQueue) - 1
           /\ hueQueue # <<>> => Len(Tail(hueQueue)) = Len(hueQueue) - 1
           /\ \A m \in Messages : /\ Len(Append(hueQueue, m)) = Len(hueQueue) + 1
                                  /\ Len(Append(reverseHueQueue, m)) = Len(reverseHueQueue) + 1
  BY DEF TypeOK

LEMMA LampAtNext ==
    ASSUME TypeOK, next <= Len(Linked[house])
    PROVE  next \in DOMAIN Linked[house] /\ Linked[house][next] \in Lamps
  <1>1. house \in DOMAIN Linked /\ next \in 1..Len(Linked[house])
    BY Lengths DEF TypeOK
  <1> QED
    BY <1>1, Constants

LEMMA QueueInit == Init => QueueInv
  BY Constants DEF Init, QueueInv

LEMMA QueueStep == TypeOK /\ TypeOK' /\ QueueInv /\ [Next]_vars => QueueInv'
  <1> SUFFICES ASSUME TypeOK, TypeOK', QueueInv, [Next]_vars PROVE QueueInv'
    OBVIOUS
  <1> USE DEF QueueInv
  <1>1. CASE Listen
    BY <1>1, Lengths, LengthsAfter DEF Listen, hueVars, walk
  <1>2. CASE Listened
    <2>0. reverseHueQueue = <<>>
      BY <1>2 DEF Listened
    <2>1. Len(reverseHueQueue) = 0 /\ Len(sent) \in Nat /\ Len(sent) <= 1
      <3> HIDE DEF QueueInv
      <3>1. Len(reverseHueQueue) = 0
        BY <2>0
      <3>2. Len(sent) = IF hue = "sending" THEN 1 ELSE 0
        BY Lengths
      <3> QED
        BY <3>1, <3>2
    <2>2. rules' # "planned" /\ rules # "planning" /\ rules' # "planning"
      BY <1>2 DEF Listened
    <2>3. UNCHANGED <<house, next, changeNeeded, hueQueue, sent, reverseHueQueue>>
      BY <1>2 DEF Listened, walk, hueVars
    <2>4. Len(hueQueue) \in Nat /\ Len(hueQueue) <= MaxLinked /\ MaxLinked \in Nat
      BY Lengths DEF QueueInv
    <2>5. Len(hueQueue) + Len(sent) + Len(reverseHueQueue) <= MaxLinked + 1
      <3> HIDE DEF QueueInv
      <3> QED
        BY <2>1, <2>4
    <2>6. house = 1 /\ next = 1 /\ ~changeNeeded
      BY <2>2
    <2> QED
      <3> HIDE DEF QueueInv
      <3> QED
        BY <2>2, <2>3, <2>4, <2>5, <2>6 DEF QueueInv
  <1>3. CASE StartPlan
    BY <1>3, Lengths DEF StartPlan, Looks, hueVars, walk
  <1>4. CASE UpdateLamp
    <2>1. Linked[house][next] \in Lamps
      BY <1>4, LampAtNext DEF UpdateLamp
    <2>2. Commands(Linked[house][next]) \in Messages
      BY <2>1, CommandsType
    <2>3. CASE ChangeNeeded(Linked[house][next])
      <3>1. Len(hueQueue') = Len(hueQueue) + 1 /\ changeNeeded'
        BY <1>4, <2>2, <2>3, LengthsAfter DEF UpdateLamp
      <3>2. /\ rules = "planning" /\ rules' = "planning" /\ next' = next + 1
            /\ next <= Len(Linked[house]) /\ sent' = sent /\ reverseHueQueue' = reverseHueQueue
        BY <1>4 DEF UpdateLamp, hueVars
      <3>3. /\ Len(hueQueue) \in Nat /\ Len(sent) \in Nat /\ Len(reverseHueQueue) \in Nat
            /\ next \in Nat /\ next <= MaxLinked /\ MaxLinked \in Nat
        BY <3>2, Lengths
      <3>4. Len(hueQueue) <= next - 1
        BY <3>2
      <3>5. /\ Len(hueQueue) + Len(sent) + Len(reverseHueQueue) <= MaxLinked + 1 + (next - 1)
        <4>1. CASE changeNeeded
          BY <3>2, <4>1
        <4>2. CASE ~changeNeeded
          BY <3>2, <3>3, <4>2
        <4> QED
          BY <4>1, <4>2
      <3> HIDE DEF QueueInv
      <3>6. /\ Len(hueQueue') <= next' - 1 /\ Len(hueQueue') <= MaxLinked
            /\ Len(hueQueue') + Len(sent') + Len(reverseHueQueue') <= MaxLinked + 1 + (next' - 1)
        BY <3>1, <3>2, <3>3, <3>4, <3>5
      <3> QED
        BY <3>1, <3>2, <3>6 DEF QueueInv
    <2>4. CASE ~ChangeNeeded(Linked[house][next])
      BY <1>4, <2>4, Lengths DEF UpdateLamp, hueVars
    <2> QED
      BY <2>3, <2>4
  <1>5. CASE NextHouseCode
    BY <1>5, Lengths DEF NextHouseCode, hueVars
  <1>6. CASE EndPlan
    BY <1>6, Lengths DEF EndPlan, hueVars
  <1>7. CASE LookAway
    BY <1>7, Lengths DEF LookAway, hueVars, walk
  <1>8. CASE NextTurn
    BY <1>8, Lengths DEF NextTurn, hueVars, walk
  <1>9. CASE PopMessage
    BY <1>9, Lengths, LengthsAfter DEF PopMessage, houseVars, walk
  <1>10. CASE NotKnown \/ Committed \/ Refused
    <2>1. sent[1] \in Messages /\ NoCommands(sent[1].lamp) \in Messages
      BY <1>10, SentType, CommandsType DEF NotKnown, Committed, Refused
    <2>2. PICK m \in Messages : Reply(m)
      BY <1>10, <2>1 DEF NotKnown, Committed, Refused
    <2>3. Len(sent) = 1 /\ Len(hueQueue) \in Nat /\ Len(reverseHueQueue) \in Nat
      BY <1>10, Lengths DEF NotKnown, Committed, Refused
    <2>4. Len(reverseHueQueue') = Len(reverseHueQueue) + 1 /\ Len(sent') = 0
      BY <2>2, LengthsAfter DEF Reply
    <2>5. UNCHANGED <<rules, house, next, changeNeeded, hueQueue>>
      BY <2>2 DEF Reply, houseVars, walk
    <2> QED
      BY <2>3, <2>4, <2>5, Lengths
  <1>11. CASE CommitFails
    BY <1>11, Lengths DEF CommitFails, houseVars, walk
  <1>12. CASE Recover
    BY <1>12, Lengths DEF Recover, houseVars, walk
  <1>13. CASE Connect \/ ConnectFails
    BY <1>13, Lengths DEF Connect, ConnectFails, houseVars, walk
  <1>14. ASSUME \/ \E l \in Lamps : \/ \E w \in HueWishes : SetWantedState(l, w)
                                   \/ \E s \in {Off, On} : Timeout(l, s)
                \/ RefreshDevices
         PROVE  QueueInv'
    <2>1. UNCHANGED <<rules, walk, hueQueue, reverseHueQueue, hueVars>>
      BY <1>14 DEF SetWantedState, Timeout, RefreshDevices
    <2> QED
      BY <2>1 DEF walk, hueVars
  <1>15. CASE UNCHANGED vars
    BY <1>15 DEF vars, houseVars, hueVars, walk
  <1> QED
    BY <1>1, <1>2, <1>3, <1>4, <1>5, <1>6, <1>7, <1>8, <1>9, <1>10, <1>11, <1>12, <1>13, <1>14,
       <1>15
    DEF Next, RulesTurn, HueTurn, UpdateHueDevices

-----------------------------------------------------------------------------
(* What a set flag means                                                   *)

LEMMA RestInit == Init => RestInv
  BY DEF Init, RestInv

LEMMA RestStep == TypeOK /\ TypeOK' /\ QueueInv /\ RestInv /\ [Next]_vars => RestInv'
  <1> SUFFICES ASSUME TypeOK, TypeOK', QueueInv, RestInv, [Next]_vars PROVE RestInv'
    OBVIOUS
  <1> USE DEF RestInv
  <1>0. ASSUME shown' = shown, wanted' = wanted, NEW l
        PROVE  ChangeNeeded(l)' = ChangeNeeded(l)
    BY <1>0 DEF ChangeNeeded, StateWrong, ColourWrong, LoopWrong
  <1>1. CASE Listen
    BY <1>1 DEF Listen
  <1>2. CASE Listened \/ LookAway \/ NextTurn
    BY <1>2, <1>0 DEF Listened, LookAway, NextTurn, hueVars
  <1>3. CASE StartPlan
    BY <1>3, Constants DEF StartPlan, Looks, Passed, QueueInv, hueVars, walk
  <1>4. CASE UpdateLamp
    <2>1. /\ UNCHANGED <<shown, wanted, allHueDevicesInWantedState, rules, house>>
          /\ rules = "planning" /\ next' = next + 1 /\ next \in Nat
      BY <1>4, Lengths DEF UpdateLamp
    <2>2. CASE ChangeNeeded(Linked[house][next])
      BY <1>4, <2>1, <2>2 DEF UpdateLamp
    <2>3. CASE ~ChangeNeeded(Linked[house][next])
      <3>1. changeNeeded' = changeNeeded
        BY <1>4, <2>3 DEF UpdateLamp
      <3>2. \A h \in DOMAIN Linked : \A i \in DOMAIN Linked[h] :
               Passed(h, i)' => Passed(h, i) \/ (h = house /\ i = next)
        BY <2>1, Constants DEF Passed
      <3> QED
        BY <2>1, <2>3, <3>1, <3>2, <1>0
    <2> QED
      BY <2>2, <2>3
  <1>5. CASE NextHouseCode
    <2>1. /\ UNCHANGED <<shown, wanted, allHueDevicesInWantedState, rules, changeNeeded>>
          /\ rules = "planning" /\ ~changeNeeded /\ next > Len(Linked[house])
          /\ house' = house + 1 /\ next' = 1
      BY <1>5 DEF NextHouseCode
    <2>2. ASSUME NEW h \in DOMAIN Linked, NEW i \in DOMAIN Linked[h], Passed(h, i)'
          PROVE  Passed(h, i)
      <3>0. house \in Nat /\ next \in Nat
        BY Lengths
      <3>1. h \in Nat /\ house \in Nat /\ i \in 1..Len(Linked[h]) /\ next \in Nat
        <4>1. h \in 1..Len(Linked) /\ i \in 1..Len(Linked[h])
          BY Constants
        <4> QED
          BY <3>0, <4>1, Constants
      <3>2. h < house \/ h = house
        BY <2>1, <2>2, <3>1 DEF Passed
      <3> QED
        BY <2>1, <3>1, <3>2, Constants DEF Passed
    <2> QED
      BY <2>1, <2>2, <1>0
  <1>6. CASE EndPlan
    <2>1. CASE changeNeeded
      BY <1>6, <2>1 DEF EndPlan
    <2>2. CASE ~changeNeeded
      <3>1. \A h \in DOMAIN Linked : \A i \in DOMAIN Linked[h] : ~ChangeNeeded(Linked[h][i])
        BY <1>6, <2>2, Constants DEF EndPlan, Passed, TypeOK
      <3>2. \A l \in Lamps : ~ChangeNeeded(l)'
        BY <1>6, <1>0, <3>1, LampIsLinked DEF EndPlan
      <3> QED
        BY <1>6, <2>2, <3>2 DEF EndPlan, QueueInv, hueVars
    <2> QED
      BY <2>1, <2>2
  <1>7. CASE PopMessage \/ NotKnown \/ Committed \/ Refused \/ CommitFails
    <2>1. /\ UNCHANGED houseVars
          /\ ~(allHueDevicesInWantedState /\ ~overtaken)
      BY <1>7, Lengths DEF PopMessage, NotKnown, Committed, Refused, CommitFails, Reply
    <2>2. UNCHANGED <<shown, wanted, allHueDevicesInWantedState, overtaken, rules, house, next, changeNeeded>>
      BY <2>1 DEF houseVars, walk
    <2> QED
      BY <2>1, <2>2, <1>0 DEF Passed
  <1>8. CASE Recover \/ Connect \/ ConnectFails
    <2>1. UNCHANGED <<shown, wanted, allHueDevicesInWantedState, overtaken, rules, house, next,
                      changeNeeded, hueQueue, sent, reverseHueQueue>>
      BY <1>8 DEF Recover, Connect, ConnectFails, houseVars, walk
    <2> QED
      BY <2>1, <1>0 DEF Passed
  <1>9. ASSUME NEW l \in Lamps, NEW w \in HueWishes, SetWantedState(l, w)
        PROVE  RestInv'
    BY <1>9 DEF SetWantedState
  <1>10. ASSUME NEW l \in Lamps, NEW s \in {Off, On}, Timeout(l, s)
         PROVE  RestInv'
    <2>1. /\ shown' = shown /\ overtaken' = overtaken /\ rules = "working" /\ rules' = "working"
          /\ wanted' = [wanted EXCEPT ![l].state = s]
          /\ hueQueue' = hueQueue /\ sent' = sent /\ reverseHueQueue' = reverseHueQueue
          /\ allHueDevicesInWantedState' => allHueDevicesInWantedState /\ TimeoutShown(l, s)
      BY <1>10 DEF Timeout, hueVars
    <2>2. ASSUME NEW k \in Lamps, ~ChangeNeeded(k), TimeoutShown(l, s)
          PROVE  ~ChangeNeeded(k)'
      <3>1. CASE k = l
        BY <2>1, <2>2, <3>1
        DEF TimeoutShown, TypeOK, Wanted, ChangeNeeded, StateWrong, ColourWrong, LoopWrong
      <3>2. CASE k # l
        BY <2>1, <2>2, <3>2
        DEF TypeOK, Wanted, ChangeNeeded, StateWrong, ColourWrong, LoopWrong
      <3> QED
        BY <3>1, <3>2
    <2> QED
      BY <2>1, <2>2
  <1>11. CASE RefreshDevices
    BY <1>11 DEF RefreshDevices
  <1>12. CASE UNCHANGED vars
    BY <1>12, <1>0 DEF vars, houseVars, hueVars, walk, Passed
  <1> QED
    BY <1>1, <1>2, <1>3, <1>4, <1>5, <1>6, <1>7, <1>8, <1>9, <1>10, <1>11, <1>12
    DEF Next, RulesTurn, HueTurn, UpdateHueDevices

-----------------------------------------------------------------------------
(* What the house believes                                                 *)

LEMMA BeliefInit == Init => BeliefInv
  BY DEF Init, BeliefInv

LEMMA SameBelief ==
    ASSUME NEW l, Heard(l) \/ Waits(l), reverseHueQueue' = reverseHueQueue,
           actual[l].brightness' = actual[l].brightness,
           shown[l].state' = shown[l].state \/ shown[l].state' = RefreshWanted
    PROVE  (Heard(l) \/ Waits(l))'
  BY DEF Heard, Waits, IsReply, BelievedRight

\* A reply that is not about the state of l.
LEMMA OtherReply ==
    ASSUME TypeOK, NEW l, Heard(l) \/ Waits(l), NEW m \in Messages,
           reverseHueQueue' = Append(reverseHueQueue, m),
           m.lamp # l \/ m.brightness = {},
           actual[l].brightness' = actual[l].brightness, shown' = shown
    PROVE  (Heard(l) \/ Waits(l))'
  <1>1. /\ DOMAIN reverseHueQueue' = DOMAIN reverseHueQueue \cup {Len(reverseHueQueue) + 1}
        /\ \A i \in DOMAIN reverseHueQueue : reverseHueQueue'[i] = reverseHueQueue[i]
        /\ reverseHueQueue'[Len(reverseHueQueue) + 1] = m
    BY DEF TypeOK
  <1>2. \A i \in DOMAIN reverseHueQueue' : 
           IsReply(i, l)' => i \in DOMAIN reverseHueQueue /\ IsReply(i, l)
    BY <1>1 DEF IsReply
  <1>3. \A i \in DOMAIN reverseHueQueue : IsReply(i, l) => IsReply(i, l)'
    BY <1>1 DEF IsReply
  <1>4. Heard(l) => Heard(l)'
    BY <1>2 DEF Heard, BelievedRight
  <1>5. Waits(l) => Waits(l)'
    BY <1>1, <1>2, <1>3 DEF Waits
  <1> QED
    BY <1>4, <1>5

LEMMA OwnReply ==
    ASSUME TypeOK, NEW l, NEW m \in Messages,
           reverseHueQueue' = Append(reverseHueQueue, m),
           m.lamp = l, m.brightness = {actual[l].brightness'}
    PROVE  Waits(l)'
  <1>1. /\ DOMAIN reverseHueQueue' = 1..(Len(reverseHueQueue) + 1)
        /\ reverseHueQueue'[Len(reverseHueQueue) + 1] = m
        /\ Len(reverseHueQueue) \in Nat
    BY DEF TypeOK
  <1>2. /\ Len(reverseHueQueue) + 1 \in DOMAIN reverseHueQueue'
        /\ \A j \in DOMAIN reverseHueQueue' : j <= Len(reverseHueQueue) + 1
    BY <1>1
  <1>3. m.brightness # {}
    OBVIOUS
  <1> QED
    BY <1>1, <1>2, <1>3 DEF Waits, IsReply

\* A reply is heard.
LEMMA ListenKeeps ==
    ASSUME TypeOK, Listen, NEW l \in Lamps, Heard(l) \/ Waits(l)
    PROVE  (Heard(l) \/ Waits(l))'
  <1> DEFINE m == reverseHueQueue[1]
  <1>1. /\ m \in Messages /\ 1 \in DOMAIN reverseHueQueue
        /\ DOMAIN reverseHueQueue = 1..Len(reverseHueQueue) /\ Len(reverseHueQueue) \in Nat
        /\ DOMAIN reverseHueQueue' = 1..(Len(reverseHueQueue) - 1)
        /\ \A i \in DOMAIN reverseHueQueue' : reverseHueQueue'[i] = reverseHueQueue[i + 1]
        /\ actual' = actual
    BY DEF Listen, TypeOK, lampVars
  <1>2. m.lamp \in Lamps
    BY <1>1 DEF Messages
  <1>3. shown'[l].state = IF m.lamp = l /\ m.brightness # {}
                          THEN CalcDeviceState(Or(m.brightness, 0)) ELSE shown[l].state
    <2>1. m = Head(reverseHueQueue)
      BY <1>1
    <2> QED
      BY <1>2, <2>1 DEF Listen, TypeOK
  <1>4. \A i \in DOMAIN reverseHueQueue' :
           i + 1 \in DOMAIN reverseHueQueue /\ (IsReply(i, l)' <=> IsReply(i + 1, l))
    BY <1>1 DEF IsReply
  <1>5. CASE Heard(l)
    <2>1. shown'[l].state = shown[l].state
      BY <1>1, <1>3, <1>5 DEF Heard, IsReply
    <2>2. BelievedRight(l)'
      BY <1>1, <1>5, <2>1 DEF Heard, BelievedRight
    <2> QED
      BY <1>4, <1>5, <2>2 DEF Heard
  <1>6. CASE Waits(l)
    <2>1. PICK i \in DOMAIN reverseHueQueue :
             /\ IsReply(i, l) /\ \A j \in DOMAIN reverseHueQueue : IsReply(j, l) => j <= i
             /\ reverseHueQueue[i].brightness = {actual[l].brightness}
      BY <1>6 DEF Waits
    <2>2. CASE i = 1
      <3>1. PICK w \in Wishes : /\ m.brightness = {CalcBrightness(w)}
                                /\ CalcDeviceState(Or(m.brightness, 0)) = w
        BY <1>1, <2>1, <2>2, HeardType, WishesAreStates DEF IsReply
      <3>2. m.lamp = l /\ m.brightness # {} /\ CalcBrightness(w) = actual[l].brightness
        BY <2>1, <2>2, <3>1 DEF IsReply
      <3>3. BelievedRight(l)'
        BY <1>1, <1>3, <3>1, <3>2 DEF BelievedRight
      <3>4. \A j \in DOMAIN reverseHueQueue' : ~IsReply(j, l)'
        BY <1>1, <1>4, <2>1, <2>2
      <3> QED
        BY <3>3, <3>4 DEF Heard
    <2>3. CASE i # 1
      <3>1. i - 1 \in DOMAIN reverseHueQueue' /\ (i - 1) + 1 = i
        BY <1>1, <2>3
      <3>2. IsReply(i - 1, l)' /\ reverseHueQueue'[i - 1].brightness = {actual'[l].brightness}
        BY <1>1, <1>4, <2>1, <3>1
      <3>3. \A j \in DOMAIN reverseHueQueue' : IsReply(j, l)' => j <= i - 1
        BY <1>1, <1>4, <2>1
      <3> QED
        BY <3>1, <3>2, <3>3 DEF Waits
    <2> QED
      BY <2>2, <2>3
  <1> QED
    BY <1>5, <1>6

LEMMA BeliefStep == TypeOK /\ BeliefInv /\ [Next]_vars => BeliefInv'
  <1> SUFFICES ASSUME TypeOK, BeliefInv, [Next]_vars PROVE BeliefInv'
    OBVIOUS
  <1>0. sure \subseteq Lamps
    BY DEF TypeOK
  <1>1. ASSUME UNCHANGED <<shown, actual, reverseHueQueue, sure, refused>>
        PROVE  BeliefInv'
    BY <1>1, SameBelief DEF BeliefInv
  <1>2. CASE Listen
    BY <1>2, <1>0, ListenKeeps DEF BeliefInv, Listen, lampVars
  <1>3. CASE \/ Listened \/ UpdateHueDevices \/ LookAway \/ NextTurn
             \/ \E l \in Lamps : \/ \E w \in HueWishes : SetWantedState(l, w)
                                 \/ \E s \in {Off, On} : Timeout(l, s)
    BY <1>3, <1>1
    DEF Listened, UpdateHueDevices, StartPlan, UpdateLamp, NextHouseCode, EndPlan, LookAway,
        NextTurn, SetWantedState, Timeout, lampVars
  <1>4. CASE Connect \/ ConnectFails \/ PopMessage \/ Recover
    BY <1>4, <1>1 DEF Connect, ConnectFails, PopMessage, Recover, houseVars, lampVars
  <1>5. CASE RefreshDevices
    <2>1. UNCHANGED <<actual, reverseHueQueue, sure, refused>>
      BY <1>5 DEF RefreshDevices, lampVars
    <2>2. \A l \in Lamps : shown'[l].state = RefreshWanted
      BY <1>5 DEF RefreshDevices
    <2> QED
      BY <1>0, <2>1, <2>2, SameBelief DEF BeliefInv
  <1>6. CASE NotKnown
    <2>1. sent[1].lamp \in Lamps
      BY <1>6, SentType DEF NotKnown
    <2>2. PICK m \in Messages : m.brightness = {} /\ Reply(m)
      BY <1>6, <2>1, CommandsType DEF NotKnown
    <2>3. /\ UNCHANGED <<shown, actual, sure, refused>>
          /\ reverseHueQueue' = Append(reverseHueQueue, m)
      BY <1>6, <2>2 DEF NotKnown, Reply, houseVars, lampVars
    <2> QED
      BY <2>2, <2>3, OtherReply DEF BeliefInv
  <1>7. CASE Committed
    <2> DEFINE m == sent[1]
    <2>1. m \in Messages /\ m.lamp \in Lamps
      BY <1>7, SentType DEF Committed
    <2>2. /\ shown' = shown /\ reverseHueQueue' = Append(reverseHueQueue, m)
          /\ actual' = [actual EXCEPT ![m.lamp] = Obeys(actual[m.lamp], m)]
          /\ sure' = sure \cup StateSent /\ refused' = refused \ StateSent
      BY <1>7 DEF Committed, Reply, houseVars
    <2>3. /\ actual[m.lamp] \in Showing /\ actual'[m.lamp] = Obeys(actual[m.lamp], m)
          /\ \A l \in Lamps : l # m.lamp => actual'[l] = actual[l]
      BY <2>1, <2>2 DEF TypeOK
    <2>4. ASSUME NEW l \in sure' \ refused' PROVE (Heard(l) \/ Waits(l))'
      <3>1. l \in Lamps
        BY <1>0, <2>1, <2>2, <2>4 DEF StateSent
      <3>2. CASE l = m.lamp /\ m.brightness # {}
        <4>1. m.brightness = {actual'[l].brightness}
          BY <2>1, <2>3, <3>2, ObeysType
        <4> QED
          BY <2>1, <2>2, <3>2, <4>1, OwnReply
      <3>3. CASE l # m.lamp \/ m.brightness = {}
        <4>1. l \in sure \ refused
          BY <2>2, <2>4, <3>3 DEF StateSent
        <4>2. actual'[l].brightness = actual[l].brightness
          BY <2>1, <2>3, <3>1, <3>3, ObeysType
        <4> QED
          BY <2>1, <2>2, <3>3, <4>1, <4>2, OtherReply DEF BeliefInv
      <3> QED
        BY <3>2, <3>3
    <2> QED
      BY <2>4 DEF BeliefInv
  <1>8. CASE Refused
    <2> DEFINE m == sent[1]
    <2>1. m \in Messages
      BY <1>8, SentType DEF Refused
    <2>2. /\ UNCHANGED <<shown, actual, sure>>
          /\ reverseHueQueue' = Append(reverseHueQueue, m)
          /\ refused' = refused \cup StateSent
      BY <1>8 DEF Refused, Reply, houseVars
    <2>3. ASSUME NEW l \in sure' \ refused'
          PROVE  l \in sure \ refused /\ (m.lamp # l \/ m.brightness = {})
      BY <2>2, <2>3 DEF StateSent
    <2> QED
      BY <2>1, <2>2, <2>3, OtherReply DEF BeliefInv
  <1>9. CASE CommitFails
    <2> DEFINE m == sent[1]
    <2>1. m \in Messages /\ m.lamp \in Lamps
      BY <1>9, SentType DEF CommitFails
    <2>2. /\ UNCHANGED <<shown, reverseHueQueue, refused>> /\ sure' = sure \ StateSent
          /\ \/ actual' = actual
             \/ actual' = [actual EXCEPT ![m.lamp] = Obeys(actual[m.lamp], m)]
      BY <1>9 DEF CommitFails, houseVars
    <2>3. ASSUME NEW l \in sure' \ refused'
          PROVE  l \in sure \ refused /\ actual'[l].brightness = actual[l].brightness
      <3>1. l \in sure \ refused /\ l \in Lamps /\ (m.lamp # l \/ m.brightness = {})
        BY <1>0, <2>2, <2>3 DEF StateSent
      <3>2. actual[m.lamp] \in Showing
        BY <2>1 DEF TypeOK
      <3>3. m.brightness = {} => Obeys(actual[m.lamp], m).brightness = actual[m.lamp].brightness
        BY <2>1, <3>2, ObeysType
      <3> QED
        BY <2>1, <2>2, <3>1, <3>3 DEF TypeOK
    <2> QED
      BY <2>2, <2>3, SameBelief DEF BeliefInv
  <1>10. CASE UNCHANGED vars
    BY <1>10, <1>1 DEF vars, houseVars, lampVars
  <1> QED
    BY <1>2, <1>3, <1>4, <1>5, <1>6, <1>7, <1>8, <1>9, <1>10 DEF Next, RulesTurn, HueTurn

-----------------------------------------------------------------------------
(* Theorems                                                                *)

(* Every variable of the Hue lamps keeps its type: the device states made  *)
(* of replies, the messages planned, and the walk of mUpdateHueDevices.     *)
THEOREM TypeCorrect == Spec => []TypeOK
  <1> QED
    BY TypeInit, TypeStep, PTL DEF Spec

(* The queues between the rules thread and the Hue thread hold at most two  *)
(* plans of the largest house code, however slow the bridge is.            *)
THEOREM QueuesStayShortHolds == Spec => []QueuesStayShort
  <1>1. TypeOK /\ QueueInv => QueuesStayShort
    <2> SUFFICES ASSUME TypeOK, QueueInv PROVE QueuesStayShort
      OBVIOUS
    <2>1. next - 1 <= MaxLinked /\ next - 1 >= 0 /\ next \in Nat /\ MaxLinked \in Nat
      BY Lengths
    <2>2. Len(hueQueue) \in Nat /\ Len(sent) \in Nat /\ Len(reverseHueQueue) \in Nat
      BY Lengths
    <2>3. Len(hueQueue) <= MaxLinked
      BY DEF QueueInv
    <2>4. Len(hueQueue) + Len(sent) + Len(reverseHueQueue) <= MaxLinked + 1 + MaxLinked
      <3>1. CASE rules = "planned"
        BY <3>1 DEF QueueInv
      <3>2. CASE rules # "planned" /\ changeNeeded
        BY <3>2, <2>1, <2>2 DEF QueueInv
      <3>3. CASE rules # "planned" /\ ~changeNeeded
        BY <3>3, <2>1, <2>2 DEF QueueInv
      <3> QED
        BY <3>1, <3>2, <3>3
    <2> QED
      BY <2>1, <2>2, <2>3, <2>4 DEF QueuesStayShort
  <1> QED
    BY <1>1, TypeInit, TypeStep, QueueInit, QueueStep, PTL DEF Spec

(* A house at rest with a lamp to be changed set the flag while a reply was *)
(* outstanding: planning is right in every other order of the two threads.  *)
THEOREM WrongRestWasOvertakenHolds == Spec => []WrongRestWasOvertaken
  <1>1. RestInv => WrongRestWasOvertaken
    BY DEF RestInv, WrongRestWasOvertaken, AtRest
  <1> QED
    BY <1>1, TypeInit, TypeStep, QueueInit, QueueStep, RestInit, RestStep, PTL DEF Spec

(* Once its replies are heard the house believes of a lamp what it shows,   *)
(* unless a commit about it was refused or threw.                          *)
THEOREM BeliefsFollowLampsHolds == Spec => []BeliefsFollowLamps
  <1>1. TypeOK /\ BeliefInv => BeliefsFollowLamps
    <2> SUFFICES ASSUME TypeOK, NEW l \in sure \ refused, Waits(l) PROVE InFlight(l)
      BY DEF BeliefInv, BeliefsFollowLamps, Heard
    <2>1. PICK i \in DOMAIN reverseHueQueue : reverseHueQueue[i].lamp = l
      BY DEF Waits, IsReply
    <2>2. /\ Len(sent) + i \in DOMAIN (sent \o reverseHueQueue)
          /\ (sent \o reverseHueQueue)[Len(sent) + i] = reverseHueQueue[i]
      <3>1. sent \in Seq(Messages) /\ reverseHueQueue \in Seq(Messages)
        BY DEF TypeOK
      <3>2. /\ Len(sent) \in Nat /\ Len(reverseHueQueue) \in Nat
            /\ i \in 1..Len(reverseHueQueue)
        BY <3>1
      <3>3. DOMAIN (sent \o reverseHueQueue) = 1..(Len(sent) + Len(reverseHueQueue))
        BY <3>1
      <3>4. Len(sent) + i \in 1..(Len(sent) + Len(reverseHueQueue)) /\ Len(sent) + i > Len(sent)
        BY <3>2
      <3> QED
        BY <3>1, <3>2, <3>3, <3>4
    <2> QED
      BY <2>1, <2>2 DEF InFlight
  <1> QED
    BY <1>1, TypeInit, TypeStep, BeliefInit, BeliefStep, PTL DEF Spec
=============================================================================
