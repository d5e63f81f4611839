------------------------------ MODULE HueLoop ------------------------------
(***************************************************************************)
(* The Philips Hue lamps (huedevice.cpp, the Hue half of housecode.cpp and  *)
(* runtime.cpp, huehelper/).  The rules thread plans messages from what it  *)
(* believes the lamps show, the Hue thread hands them to the bridge one at  *)
(* a time, and its replies, which wait in the reverse queue, are what the   *)
(* beliefs are changed from.  The bridge and the lamps are external: a      *)
(* commit is obeyed, refused, or ends in an exception.                     *)
(***************************************************************************)
EXTENDS X10Device, Sequences, Functions

CONSTANTS Linked,           \* hue_lamp_devices of each house code, in order
          HueWishes,        \* what rules ask of a lamp
          MaxLinked,        \* the most lamps of a house code
          Known,            \* the lamps the bridge lists
          MaxFailCount,     \* maxFailCount of hueThreadStart: 500
          MaxDisturbances   \* bound on disturbances of a behaviour

Lamps    == UNION {Range(Linked[h]) : h \in DOMAIN Linked}
NoColour == -1
Colours  == {0} \cup {w.colour : w \in HueWishes}
Setting  == [state : States, colour : Colours \cup {NoColour}, loop : BOOLEAN]
Wanted   == [state : Wishes, colour : Colours, loop : BOOLEAN]

ASSUME LinkedAssumption ==
    /\ Linked \in Seq(Seq(Lamps)) /\ Linked # <<>>
    /\ MaxLinked \in Nat /\ \A h \in DOMAIN Linked : Len(Linked[h]) <= MaxLinked
ASSUME HueLoopAssumption ==
    /\ HueWishes \subseteq [state : Wishes, colour : Nat, loop : BOOLEAN]
    /\ Known \subseteq Lamps
    /\ MaxFailCount \in Nat \ {0} /\ MaxDisturbances \in Nat

VARIABLES shown, wanted,                 \* miState .. , miWantedState ..
          allHueDevicesInWantedState,
          rules,                         \* where the rules thread is
          house, next, changeNeeded,     \* mUpdateHueDevices: where its walk is
          hueQueue, reverseHueQueue,
          hue,                           \* where the Hue thread is
          connectedToHub, macAddressMap,
          sent,                          \* the message in processMessage, or <<>>
          failCount,
          actual,                        \* what the lamps show
          overtaken,     \* history: the flag was set with a reply outstanding
          sure, refused, \* history: lamps whose last setting was obeyed, refused
          disturbances   \* disturbances so far

walk      == <<house, next, changeNeeded>>
houseVars == <<shown, wanted, allHueDevicesInWantedState, overtaken, rules, walk>>
hueVars   == <<hue, connectedToHub, macAddressMap, sent, failCount>>
lampVars  == <<actual, sure, refused>>
vars == <<houseVars, hueQueue, reverseHueQueue, hueVars, lampVars, disturbances>>

Disturb == disturbances < MaxDisturbances /\ disturbances' = disturbances + 1
-----------------------------------------------------------------------------
(* Messages.  Each command is there or not: a set of one value or none.     *)

MaxBrightness  == 254
BrightnessStep == MaxBrightness \div (MaxDim + 1)

ASSUME BrightnessAssumption == MaxDim < MaxBrightness

\* Variant: one step too bright.
BrightnessFromDim(s) == IF s \in Lit THEN MaxBrightness - (s - Dim(1)) * BrightnessStep ELSE 0

CalcBrightness(s) == IF s \in Lit THEN MaxBrightness - (s - On) * BrightnessStep ELSE 0

\* Variant: the brightest is taken for the first DIM level.
DeviceStateFromDim(b) ==
    IF b > 0 THEN (MaxBrightness - b) \div BrightnessStep + Dim(1) ELSE Off

CalcDeviceState(b) ==
    IF b > 0 THEN (MaxBrightness - b) \div BrightnessStep + On ELSE Off

Perhaps(S) == {{}} \cup {{v} : v \in S}
Messages == [lamp : Lamps, brightness : Perhaps({CalcBrightness(s) : s \in Wishes}),
             colour : Perhaps(Colours), loop : Perhaps(BOOLEAN)]
Message(l, b, c, o) == [lamp |-> l, brightness |-> b, colour |-> c, loop |-> o]
NoCommands(l) == Message(l, {}, {}, {})

\* What commands set, and s where they set nothing.
Or(commands, s) == IF commands = {} THEN s ELSE CHOOSE v \in commands : TRUE

LoopWrong(l)   == shown[l].loop # wanted[l].loop
ColourWrong(l) == shown[l].colour # wanted[l].colour
StateWrong(l)  == shown[l].state # wanted[l].state

\* Variant: a lamp that is wanted off is looked at like any other.
ChangeNeededThoughOff(l) == StateWrong(l) \/ ColourWrong(l) \/ LoopWrong(l)

\* Colour and colour loop of a lamp that is wanted off are left as they are.
ChangeNeeded(l) ==
    StateWrong(l) \/ (wanted[l].state # Off /\ (ColourWrong(l) \/ LoopWrong(l)))

Commands(l) ==
    LET lit == wanted[l].state # Off
    IN  Message(l, IF StateWrong(l) THEN {CalcBrightness(wanted[l].state)} ELSE {},
                   IF lit /\ ColourWrong(l) THEN {wanted[l].colour} ELSE {},
                   IF lit /\ LoopWrong(l) THEN {wanted[l].loop} ELSE {})

\* What a lamp shows.
Showing == [brightness : 0..MaxBrightness, colour : Colours, loop : BOOLEAN]

\* A lamp obeys; switching it off ends its colour loop.
Obeys(a, m) ==
    [brightness |-> Or(m.brightness, a.brightness),
     colour     |-> Or(m.colour, a.colour),
     loop       |-> IF m.brightness = {0} THEN FALSE ELSE Or(m.loop, a.loop)]
-----------------------------------------------------------------------------
TypeOK ==
    /\ shown \in [Lamps -> Setting] /\ wanted \in [Lamps -> Wanted]
    /\ allHueDevicesInWantedState \in BOOLEAN /\ overtaken \in BOOLEAN
    /\ rules \in {"listening", "looking", "planning", "planned", "working"}
    /\ house \in DOMAIN Linked /\ next \in 1..(Len(Linked[house]) + 1)
    /\ changeNeeded \in BOOLEAN
    /\ hueQueue \in Seq(Messages)
    /\ reverseHueQueue \in Seq(Messages)
    /\ hue \in {"waiting", "sending", "failed", "ended"}
    /\ connectedToHub \in BOOLEAN
    /\ macAddressMap \subseteq Known
    /\ sent \in Seq(Messages) /\ Len(sent) = IF hue = "sending" THEN 1 ELSE 0
    /\ failCount \in 0..MaxFailCount /\ (hue # "ended" => failCount < MaxFailCount)
    /\ actual \in [Lamps -> Showing]
    /\ sure \subseteq Lamps /\ refused \subseteq Lamps
    /\ disturbances \in 0..MaxDisturbances

\* The house believes the lamps off; some of them may not be.
Init ==
    /\ shown = [l \in Lamps |-> [state |-> Off, colour |-> 0, loop |-> FALSE]]
    /\ wanted = shown
    /\ allHueDevicesInWantedState = FALSE /\ overtaken = FALSE
    /\ rules = "listening"
    /\ house = 1 /\ next = 1 /\ changeNeeded = FALSE
    /\ hueQueue = <<>> /\ reverseHueQueue = <<>>
    /\ hue = "waiting" /\ connectedToHub = FALSE /\ macAddressMap = {}
    /\ sent = <<>> /\ failCount = 0
    /\ actual \in [Lamps -> [brightness : {0, MaxBrightness}, colour : {0}, loop : {FALSE}]]
    /\ sure = {} /\ refused = {}
    /\ disturbances = 0
-----------------------------------------------------------------------------
(* The rules thread: the Hue half of maintainQueues.                        *)

\* processReverseHueQueue: pop a reply; commands that failed change nothing.
Listen ==
    /\ rules \in {"listening", "planned"} /\ reverseHueQueue # <<>>
    /\ LET reply == Head(reverseHueQueue)
       IN  shown' = [shown EXCEPT ![reply.lamp] =
               [state  |-> IF reply.brightness = {} THEN @.state
                           ELSE CalcDeviceState(Or(reply.brightness, 0)),
                colour |-> Or(reply.colour, @.colour),
                loop   |-> Or(reply.loop, @.loop)]]
    /\ reverseHueQueue' = Tail(reverseHueQueue)
    /\ UNCHANGED <<wanted, allHueDevicesInWantedState, overtaken, rules, walk, hueQueue, hueVars,
                   lampVars, disturbances>>

Listened ==
    /\ rules \in {"listening", "planned"} /\ reverseHueQueue = <<>>
    /\ rules' = IF rules = "listening" THEN "looking" ELSE "working"
    /\ UNCHANGED <<shown, wanted, allHueDevicesInWantedState, overtaken, walk, hueQueue,
                   reverseHueQueue, hueVars, lampVars, disturbances>>

\* Variant: maintainQueues does not look at the queue.
LooksAlways == ~allHueDevicesInWantedState

\* There is work, and getQueueSize() == 0.
Looks == ~allHueDevicesInWantedState /\ hueQueue = <<>>

\* mUpdateHueDevices begins with the first house code.
StartPlan ==
    /\ rules = "looking" /\ Looks
    /\ rules' = "planning"
    /\ UNCHANGED <<shown, wanted, allHueDevicesInWantedState, overtaken, walk, hueQueue,
                   reverseHueQueue, hueVars, lampVars, disturbances>>

\* updateHueDevices, one lamp: the Hue thread may take its message at once.
UpdateLamp ==
    /\ rules = "planning" /\ next <= Len(Linked[house])
    /\ LET l == Linked[house][next]
       IN  IF ChangeNeeded(l)
           THEN hueQueue' = Append(hueQueue, Commands(l)) /\ changeNeeded' = TRUE
           ELSE UNCHANGED <<hueQueue, changeNeeded>>
    /\ next' = next + 1
    /\ UNCHANGED <<shown, wanted, allHueDevicesInWantedState, overtaken, rules, house,
                   reverseHueQueue, hueVars, lampVars, disturbances>>

\* The first house code that needs a change is the last to be looked at.
NextHouseCode ==
    /\ rules = "planning" /\ next > Len(Linked[house])
    /\ ~changeNeeded /\ house < Len(Linked)
    /\ house' = house + 1 /\ next' = 1
    /\ UNCHANGED <<shown, wanted, allHueDevicesInWantedState, overtaken, rules, changeNeeded,
                   hueQueue, reverseHueQueue, hueVars, lampVars, disturbances>>

\* With nothing to send the lamps are as wanted.
EndPlan ==
    /\ rules = "planning" /\ next > Len(Linked[house])
    /\ changeNeeded \/ house = Len(Linked)
    /\ allHueDevicesInWantedState' = ~changeNeeded
    /\ overtaken' = (~changeNeeded /\ (sent # <<>> \/ reverseHueQueue # <<>>))
    /\ rules' = IF changeNeeded THEN "planned" ELSE "working"
    /\ house' = 1 /\ next' = 1 /\ changeNeeded' = FALSE
    /\ UNCHANGED <<shown, wanted, hueQueue, reverseHueQueue, hueVars, lampVars, disturbances>>

LookAway ==
    /\ rules = "looking" /\ ~Looks
    /\ rules' = "working"
    /\ UNCHANGED <<shown, wanted, allHueDevicesInWantedState, overtaken, walk, hueQueue,
                   reverseHueQueue, hueVars, lampVars, disturbances>>

\* HueLampDevice::mSetWantedState that takes effect at once.
SetWantedState(l, w) ==
    /\ rules = "working" /\ Disturb
    /\ wanted' = [wanted EXCEPT ![l] = w]
    /\ allHueDevicesInWantedState' = FALSE
    /\ UNCHANGED <<shown, overtaken, rules, walk, hueQueue, reverseHueQueue, hueVars, lampVars>>

\* Variant: a timeout looks at the colour only.
TimeoutShownColour(l, s) == ~ColourWrong(l)

\* The lamp shows already what a timeout makes wanted.
TimeoutShown(l, s) == shown[l].state = s /\ ~ColourWrong(l) /\ ~LoopWrong(l)

\* mCheckSwitchOnTimeout, mCheckSwitchOffTimeout: only the state changes.
Timeout(l, s) ==
    /\ rules = "working" /\ Disturb
    /\ wanted' = [wanted EXCEPT ![l].state = s]
    /\ allHueDevicesInWantedState' = (allHueDevicesInWantedState /\ TimeoutShown(l, s))
    /\ UNCHANGED <<shown, overtaken, rules, walk, hueQueue, reverseHueQueue, hueVars, lampVars>>

RefreshDevices ==
    /\ rules = "working" /\ Disturb
    /\ shown' = [l \in Lamps |-> [state |-> RefreshWanted, colour |-> NoColour, loop |-> FALSE]]
    /\ allHueDevicesInWantedState' = FALSE
    /\ UNCHANGED <<wanted, overtaken, rules, walk, hueQueue, reverseHueQueue, hueVars, lampVars>>

NextTurn ==
    /\ rules = "working"
    /\ rules' = "listening"
    /\ UNCHANGED <<shown, wanted, allHueDevicesInWantedState, overtaken, walk, hueQueue,
                   reverseHueQueue, hueVars, lampVars, disturbances>>
-----------------------------------------------------------------------------
(* The Hue thread: threadStart, again and again (hueThreadStart).           *)

\* connectToHub finds the bridge and maps its lamps.
Connect ==
    /\ hue = "waiting" /\ ~connectedToHub
    /\ connectedToHub' = TRUE /\ macAddressMap' = Known
    /\ UNCHANGED <<houseVars, hueQueue, reverseHueQueue, hue, sent, failCount, lampVars,
                   disturbances>>

\* An exception while connecting: before there is a connection, or after that
\* and before its lamps are mapped, which are then never mapped.
ConnectFails ==
    /\ hue = "waiting" /\ ~connectedToHub
    /\ Disturb
    /\ connectedToHub' \in BOOLEAN
    /\ hue' = "failed"
    /\ UNCHANGED <<houseVars, hueQueue, reverseHueQueue, macAddressMap, sent, failCount, lampVars>>

\* processQueue: popMessage, and processMessage begins.
PopMessage ==
    /\ hue = "waiting" /\ connectedToHub /\ hueQueue # <<>>
    /\ sent' = <<Head(hueQueue)>>
    /\ hueQueue' = Tail(hueQueue)
    /\ hue' = "sending"
    /\ UNCHANGED <<houseVars, reverseHueQueue, connectedToHub, macAddressMap, failCount, lampVars,
                   disturbances>>

Reply(m) ==
    /\ reverseHueQueue' = Append(reverseHueQueue, m)
    /\ sent' = <<>> /\ hue' = "waiting"
    /\ UNCHANGED <<houseVars, hueQueue, connectedToHub, macAddressMap, failCount>>

\* The bridge does not list the lamp.  ConstructFailureMessage is given the
\* reply by value: the failed commands do not get into it.
NotKnown ==
    /\ hue = "sending" /\ sent[1].lamp \notin macAddressMap
    /\ Reply(NoCommands(sent[1].lamp))
    /\ UNCHANGED <<lampVars, disturbances>>

StateSent == IF sent[1].brightness = {} THEN {} ELSE {sent[1].lamp}

Committed ==
    /\ hue = "sending" /\ sent[1].lamp \in macAddressMap
    /\ actual' = [actual EXCEPT ![sent[1].lamp] = Obeys(@, sent[1])]
    /\ sure' = sure \cup StateSent
    /\ refused' = refused \ StateSent
    /\ Reply(sent[1])
    /\ UNCHANGED disturbances

\* commit returns false.  The success of the commands is changed in copies
\* of them, and the reply says ok.
Refused ==
    /\ hue = "sending" /\ sent[1].lamp \in macAddressMap
    /\ Disturb
    /\ refused' = refused \cup StateSent
    /\ Reply(sent[1])
    /\ UNCHANGED <<actual, sure>>

\* An exception from commit: obeyed or not, there is no reply.
CommitFails ==
    /\ hue = "sending" /\ sent[1].lamp \in macAddressMap
    /\ Disturb
    /\ actual' \in {actual, [actual EXCEPT ![sent[1].lamp] = Obeys(@, sent[1])]}
    /\ sure' = sure \ StateSent
    /\ sent' = <<>> /\ hue' = "failed"
    /\ UNCHANGED <<houseVars, hueQueue, reverseHueQueue, connectedToHub, macAddressMap,
                   failCount, refused>>

\* hueThreadStart: a failure ten minutes after the last is the first again.
Recover ==
    /\ hue = "failed"
    /\ failCount' \in {0, failCount + 1}
    /\ hue' = IF failCount' < MaxFailCount THEN "waiting" ELSE "ended"
    /\ UNCHANGED <<houseVars, hueQueue, reverseHueQueue, connectedToHub, macAddressMap, sent,
                   lampVars, disturbances>>
-----------------------------------------------------------------------------
UpdateHueDevices == StartPlan \/ UpdateLamp \/ NextHouseCode \/ EndPlan

RulesTurn == Listen \/ Listened \/ UpdateHueDevices \/ LookAway \/ NextTurn

HueTurn == Connect \/ PopMessage \/ NotKnown \/ Committed \/ Recover

Next ==
    \/ RulesTurn
    \/ HueTurn
    \/ \E l \in Lamps : \/ \E w \in HueWishes : SetWantedState(l, w)
                        \/ \E s \in {Off, On} : Timeout(l, s)
    \/ RefreshDevices
    \/ ConnectFails \/ Refused \/ CommitFails

\* Both threads run, and the bridge can be found; nothing makes rules act or
\* the bridge fail.
Spec == Init /\ [][Next]_vars /\ WF_vars(RulesTurn) /\ WF_vars(HueTurn)
-----------------------------------------------------------------------------
AtRest == /\ allHueDevicesInWantedState
          /\ hueQueue = <<>> /\ sent = <<>> /\ reverseHueQueue = <<>>

(* The house rests with a lamp to be changed in one way only: the planner   *)
(* found nothing to do while a reply was outstanding that then changed what *)
(* a lamp is believed to show (runtime.cpp, maintainQueues).                *)
WrongRestWasOvertaken ==
    AtRest /\ (\E l \in Lamps : ChangeNeeded(l)) => overtaken

(* However slow the bridge is and however often wishes change, planning     *)
(* anew while replies are outstanding never lets the two queues grow beyond *)
(* two plans: nothing else bounds them (HueQueue.h, HueRQueue.h).           *)
QueuesStayShort ==
    /\ Len(hueQueue) <= MaxLinked
    /\ Len(hueQueue) + Len(sent) + Len(reverseHueQueue) <= 2 * MaxLinked + 1

InFlight(l) == \E i \in DOMAIN (sent \o reverseHueQueue) : (sent \o reverseHueQueue)[i].lamp = l

BelievedRight(l) == \/ shown[l].state = RefreshWanted
                    \/ actual[l].brightness = CalcBrightness(shown[l].state)

(* What the house believes of a lamp is what the lamp shows once its replies *)
(* are heard, although messages are sent twice and wishes change while they  *)
(* wait; a commit that was refused or threw aside.  A device state survives  *)
(* being made a brightness and back (CalcBrightness, CalcDeviceState).       *)
BeliefsFollowLamps == \A l \in sure \ refused : InFlight(l) \/ BelievedRight(l)

(* "apply success or otherwise to all the command just send" (HueThread.cpp):*)
(* a commit that returned false does not change what a lamp is believed to   *)
(* show.                                                                    *)
RefusalIsNoticed == \A l \in sure : InFlight(l) \/ BelievedRight(l)

(* Left alone, with its lamps mapped and the Hue thread alive, the house     *)
(* sends what is wanted and rests; a lost message is planned again.         *)
EventuallyAtRest ==
    [](hue # "ended") /\ <>(Lamps \subseteq macAddressMap) => <>[]AtRest
=============================================================================
