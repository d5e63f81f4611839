---------------------------------- MODULE MCVm ----------------------------------
(***************************************************************************)
(* The rule machine on rules of the shipped files, cut to two flags, two   *)
(* devices and a timeout, and on rules that are at and over its limits: a  *)
(* stack of 6 (30 in the code) lets two calls and one value in, so a rule  *)
(* that compares two values two calls down is one too many.                *)
(***************************************************************************)
EXTENDS RuleLanguage, ShippedRules

Const(v) == [e |-> "const", v |-> v]
Flag(v) == [e |-> "flag", v |-> v]
Device(v) == [e |-> "device", v |-> v]
Timeout(v) == [e |-> "timeout", v |-> v]
NotE(a) == [e |-> "not", a |-> a]
OpE(a, op, b) == [e |-> "op", op |-> op, a |-> a, b |-> b]
Is1(a, v) == OpE(a, Op.Equal, Const(v))

Set(f, x) == [s |-> "set", flag |-> f, to |-> x]
If(c, yes, no) == [s |-> "if", c |-> c, then |-> yes, else |-> no]
Call(r) == [s |-> "call", rule |-> r]
SetDevice(d, state, delay, duration) ==
    [s |-> "device", device |-> d, state |-> state, delay |-> delay, duration |-> duration]
Reset(t, duration) == [s |-> "reset", timeout |-> t, duration |-> duration]
House(op) == [s |-> "house", op |-> op]
StopNow == [s |-> "stop"]

\* Flag 0 is darkness, flag 1 the mode of the house; device 0 a light of the
\* porch, device 1 the hifi.
SomebodyOutside == <<If(Is1(Flag(0), 2), <<SetDevice(0, 1, 0, 120)>>, <<>>)>>
GoingDark == <<If(Is1(Flag(0), 1), <<Call(2)>>, <<>>)>>
ItsDark == <<Set(0, Const(2))>>
DownstairsHifiOn ==
    <<If(OpE(Flag(1), Op.NotEqual, Const(2)),
         <<SetDevice(1, 1, 0, 43200)>>, <<SetDevice(1, 0, 0, 0)>>)>>
\* of NoOneInHouse, KitchenLights and SecurityLights: a nested condition, a
\* timeout, a call whose effect the next statement sees, a delayed wish
Evening ==
    <<Reset(0, 1800), Call(1),
      If(OpE(Is1(Flag(0), 2), Op.And, NotE(Is1(Device(1), 1))),
         <<SetDevice(0, 1, 1140, 2400), House(Op.RefreshDevices)>>,
         <<If(Timeout(0), <<Set(1, OpE(Const(3), Op.Modulus,
                                         OpE(Flag(1), Op.Add, Const(1))))>>,
                          <<House(Op.ResynchClock)>>)>>),
      If(Is1(Flag(1), 1), <<Set(1, Const(0))>>, <<>>)>>
\* Limits: a Stop at each depth, too deep a comparison, a delay as long as the
\* duration.
StopsIfDark == <<If(Flag(0), <<StopNow>>, <<>>), Set(1, Const(2))>>
StopsBelow == <<Call(5), Set(1, Const(1))>>
StopsDeepBelow == <<Call(6), Set(0, Const(2))>>
TooDeep == <<Call(4)>>
NoTime == <<If(Flag(1), <<SetDevice(0, 1, 60, 60)>>, <<>>)>>
\* A timeout that is over is not, when the clock has been set back.
ClockMidway == <<Set(0, Timeout(0)), House(Op.ResynchClock), Set(1, Timeout(0))>>

MCSource == 0 :> SomebodyOutside @@ 1 :> GoingDark @@ 2 :> ItsDark
            @@ 3 :> DownstairsHifiOn @@ 4 :> Evening @@ 5 :> StopsIfDark
            @@ 6 :> StopsBelow @@ 7 :> StopsDeepBelow @@ 8 :> TooDeep @@ 9 :> NoTime
            @@ 10 :> ClockMidway
\* The entries: 0, 1 and 2 are simpledemo.smt:782-786, 788-792 (where ItsDark
\* is action 4) and 797-798, 3 is smart.smt:1121-1127 (its flag 7, device 10).
MCCode ==
    0 :> <<24, 0, 23, 2, 16, 28, 7, 2, 0, 1, 0, 0, 0, 120>>
    @@ 1 :> <<24, 0, 23, 1, 16, 28, 2, 30, 2>>
    @@ 2 :> <<23, 2, 25, 0>>
    @@ 3 :> <<24, 1, 23, 2, 19, 28, 9, 2, 1, 1, 0, 0, 0, 43200, 26, 7,
            2, 1, 0, 0, 0, 0, 0>>
    @@ 4 :> <<4, 0, 1800, 30, 1, 24, 0, 23, 2, 16, 1, 1, 23, 1, 16, 20,
            22, 28, 10, 2, 0, 1, 0, 0, 1140, 2400, 32, 26, 17, 3, 0, 28,
            12, 23, 3, 24, 1, 23, 1, 8, 12, 25, 1, 26, 1, 33, 24, 1, 23,
            1, 16, 28, 4, 23, 0, 25, 1>>
    @@ 5 :> <<24, 0, 28, 1, 0, 23, 2, 25, 1>>
    @@ 6 :> <<30, 5, 23, 1, 25, 1>>
    @@ 7 :> <<30, 6, 23, 2, 25, 0>>
    @@ 8 :> <<30, 4>>
    @@ 9 :> <<24, 1, 28, 7, 2, 0, 1, 0, 0, 60, 60>>
    @@ 10 :> <<3, 0, 25, 0, 33, 3, 0, 25, 1>>

ASSUME CompilesAsShipped == \A r \in DOMAIN MCSource : MCCode[r] = Compile(MCSource[r])

----------------------------------------------------------------------------
(* The tables of RuleCode for code whose jumps all go forward.              *)
HeightsIn(code) ==
    LET After(H, p) ==
          LET op == code[p + 1]
              left == H[p] - Pops(op)
              next == p + Length(op) :>
                         IF op = Op.CallUserProcedure THEN 0 ELSE left + Pushes(op)
              over == IF op \in {Op.Jump, Op.JumpIfFalse}
                      THEN p + 2 + code[p + 2] :> left ELSE <<>>
          IN H @@ over @@ (IF op = Op.Jump THEN <<>> ELSE next)
    IN FoldLeft(LAMBDA H, i : IF i - 1 \in DOMAIN H THEN After(H, i - 1) ELSE H,
                0 :> 0, [i \in DOMAIN code |-> i])

MCHeight == [r \in DOMAIN MCCode |-> HeightsIn(MCCode[r])]
MCStackNeed == [r \in DOMAIN MCSource |-> Need(MCSource[r])]
MCStopDepth == [r \in DOMAIN MCSource |-> Max({-1} \cup StopDepths(MCSource[r]))]

----------------------------------------------------------------------------
(* Every rule of the shipped files is sound, and none can be ended by an    *)
(* assertion, on the machine's stack of 30.                                *)
RECURSIVE NeedOf(_, _, _)
NeedOf(code, heights, r) ==
    Max({heights[r][p] + IF p < Len(code[r]) /\ code[r][p + 1] = Op.CallUserProcedure
                         THEN 2 + NeedOf(code, heights, code[r][p + 2]) ELSE 0 :
            p \in DOMAIN heights[r]})

Numbered(actions) == [r \in 0 .. Len(actions) - 1 |-> actions[r + 1]]
HeightsOf(code) == [r \in DOMAIN code |-> HeightsIn(code[r])]
NeedsOf(code, heights) == [r \in DOMAIN code |-> NeedOf(code, heights, r)]
NoStops(code) == [r \in DOMAIN code |-> -1]

DemoCode == Numbered(DemoActions)
DemoHeight == HeightsOf(DemoCode)
DemoNeed == NeedsOf(DemoCode, DemoHeight)
DemoStops == NoStops(DemoCode)
Demo == INSTANCE RuleCode
        WITH Code <- DemoCode, Height <- DemoHeight, StackNeed <- DemoNeed,
             StopDepth <- DemoStops, Devices <- 0 .. 2, Flags <- {0},
             TimeoutNos <- {}, StackSize <- 30

SmartCode == Numbered(SmartActions)
SmartHeight == HeightsOf(SmartCode)
SmartNeed == NeedsOf(SmartCode, SmartHeight)
SmartStops == NoStops(SmartCode)
Smart == INSTANCE RuleCode
         WITH Code <- SmartCode, Height <- SmartHeight, StackNeed <- SmartNeed,
              StopDepth <- SmartStops, Devices <- 0 .. 65, Flags <- 0 .. 7,
              TimeoutNos <- 0 .. 7, StackSize <- 30

ASSUME ShippedRulesAreSound ==
    /\ Demo!CompiledSoundly /\ Demo!AllHarmless
    /\ Smart!CompiledSoundly /\ Smart!AllHarmless
=============================================================================
