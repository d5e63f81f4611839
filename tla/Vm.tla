---------------------------------- MODULE Vm ----------------------------------
(***************************************************************************)
(* The machine that carries out compiled rules: vm.cpp, the entries of a   *)
(* CAction and the flags.  An action's entries are numbers: an instruction *)
(* followed by its parameters, and programCounter counts entries from 0.   *)
(* Execution is on the rules thread with the lock held, so wishes change   *)
(* between rules only; the clock ticks on, so a timeout may expire while a *)
(* rule runs.  What the machine does to the rest of the house is its       *)
(* wishes, its device timers (DeviceTimeouts), the timeouts it resets and  *)
(* the clock that tells when they are due (Scheduler).                     *)
(***************************************************************************)
EXTENDS Integers, Sequences, FiniteSets

CONSTANTS Code,        \* Code[r]: the entries of action r
          Flags,       \* numbers of the variables
          Devices,     \* numbers of the devices
          TimeoutNos,  \* numbers of the timeouts
          FlagValues, Wishes,  \* what flags and wishes start as
          StackSize    \* 30

Actions == DOMAIN Code
Off == 0
Unknown == 19           \* stateUnknown, which no wish may be
Never == -1            \* THE_END_OF_TIME, among delays
TimeoutStates == {"pending", "due", "ended"}

ASSUME StackAssumption == StackSize \in Nat \ {0}
ASSUME CodeAssumption == \A r \in Actions : Code[r] \in Seq(Int)

Op == [Stop |-> 0, PushDeviceState |-> 1, SetDeviceState |-> 2,
       PushTimeoutState |-> 3, ResetTimeout |-> 4,
       Abs |-> 5, Decrement |-> 6, Increment |-> 7,
       Add |-> 8, Subtract |-> 9, Multiply |-> 10, Divide |-> 11,
       Modulus |-> 12, Negate |-> 13,
       Less |-> 14, LessEqual |-> 15, Equal |-> 16, GreaterEqual |-> 17,
       Greater |-> 18, NotEqual |-> 19, Not |-> 20, Or |-> 21, And |-> 22,
       PushConstant |-> 23, PushVariableValue |-> 24, StoreVariable |-> 25,
       Jump |-> 26, JumpIfTrue |-> 27, JumpIfFalse |-> 28,
       CallSystemProcedure |-> 29, CallUserProcedure |-> 30,
       ReturnFromUserProcedure |-> 31,
       RefreshDevices |-> 32, ResynchClock |-> 33]

VARIABLES status,    \* "idle" between rules, "running", "aborted"
          rule, pc,  \* actionEntryNo, programCounter
          stop,      \* ExecuteProgram's stop
          stack,     \* stack[0 .. stackPointer - 1], the top last
          flags,     \* the value of each flag
          wanted,    \* miWantedState of each device
          timers,    \* the device's two timeouts, as delays from their setting
          timeouts,  \* each is pending, due or, once checked or never set,
                     \* ended; mGetTimeoutExpired is true of the last two
          begun      \* history: the rule called last, and what it found

machine == <<rule, pc, stop, stack>>
vars == <<status, machine, flags, wanted, timers, timeouts, begun>>

Init ==
    /\ status = "idle"
    /\ rule = -1 /\ pc = -1 /\ stop = FALSE /\ stack = <<>>
    /\ flags \in [Flags -> FlagValues]
    /\ wanted \in [Devices -> Wishes]
    /\ timers = [d \in Devices |-> [on |-> Never, off |-> Never]]
    /\ timeouts = [t \in TimeoutNos |-> "ended"]
    /\ begun = [rule |-> -1, stack |-> stack, flags |-> flags,
                wanted |-> wanted, timers |-> timers, timeouts |-> timeouts]

----------------------------------------------------------------------------
(* Arithmetic                                                              *)
Truth(b) == IF b THEN 1 ELSE 0
AbsValue(i) == IF i < 0 THEN -i ELSE i
\* C++ divides towards zero
Quotient(i, j) == (IF (i < 0) = (j < 0) THEN 1 ELSE -1)
                      * (AbsValue(i) \div AbsValue(j))

Unary(op, i) ==
    CASE op = Op.Abs       -> AbsValue(i)
      [] op = Op.Decrement -> i - 1
      [] op = Op.Increment -> i + 1
      [] op = Op.Negate    -> -i
      [] op = Op.Not       -> Truth(i = 0)

\* i1 is popped first, i2 second
Binary(op, i1, i2) ==
    CASE op = Op.Add          -> i1 + i2
      [] op = Op.Subtract     -> i1 - i2
      [] op = Op.Multiply     -> i1 * i2
      [] op = Op.Divide       -> Quotient(i1, i2)
      [] op = Op.Modulus      -> i1 - i2 * Quotient(i1, i2)
      [] op = Op.Less         -> Truth(i1 < i2)
      [] op = Op.LessEqual    -> Truth(i1 <= i2)
      [] op = Op.Equal        -> Truth(i1 = i2)
      [] op = Op.GreaterEqual -> Truth(i1 >= i2)
      [] op = Op.Greater      -> Truth(i1 > i2)
      [] op = Op.NotEqual     -> Truth(i1 # i2)
      [] op = Op.Or           -> Truth(i1 # 0 \/ i2 # 0)
      [] op = Op.And          -> Truth(i1 # 0 /\ i2 # 0)

Unaries == {Op.Abs, Op.Decrement, Op.Increment, Op.Negate, Op.Not}
Binaries == Op.Add .. Op.Modulus \cup Op.Less .. Op.NotEqual \cup {Op.Or, Op.And}
Pushers == {Op.PushConstant, Op.PushVariableValue,
            Op.PushDeviceState, Op.PushTimeoutState}

----------------------------------------------------------------------------
(* One instruction                                                         *)
Size == Len(Code[rule])
Top == stack[Len(stack)]
Next2 == stack[Len(stack) - 1]
Pop(n) == SubSeq(stack, 1, Len(stack) - n)

Executing == status = "running" /\ ~stop /\ pc \in 0 .. Size - 1
Instruction == Code[rule][pc + 1]
Parameter(k) == Code[rule][pc + 1 + k]
At(op) == Executing /\ Instruction = op

Pops(op) == IF op \in Unaries \cup {Op.StoreVariable, Op.JumpIfFalse} THEN 1
            ELSE IF op \in Binaries THEN 2 ELSE 0
Pushes(op) == IF op \in Unaries \cup Binaries \cup Pushers THEN 1
              ELSE IF op = Op.CallUserProcedure THEN 2 ELSE 0

JumpsTo == pc + 2 + Parameter(1)
Jumps == \/ Instruction = Op.Jump
         \/ Instruction = Op.JumpIfFalse /\ Top = 0

\* mSetWantedState: the wish itself when it is for now, and the two timeouts.
Timers(state, delay, duration) ==
    [on  |-> IF state = Off \/ delay = 0 THEN Never ELSE delay,
     off |-> IF state # Off THEN duration ELSE IF delay = 0 THEN Never ELSE delay]
Wish(old, state, delay) == IF delay = 0 THEN state ELSE old
WishIsSound(state, delay, duration) ==
    /\ state # Unknown
    /\ IF state = Off THEN duration = 0 ELSE delay < duration

\* What Pop, Push, the jumps, SetDeviceState and the instructions that are not
\* carried out assert; a division by zero ends the program as well.
AssertionFails ==
    \/ Instruction \notin {Op[name] : name \in DOMAIN Op}
    \/ Instruction \in {Op.JumpIfTrue, Op.CallSystemProcedure,
                        Op.ReturnFromUserProcedure}
    \/ Len(stack) < Pops(Instruction)
    \/ Len(stack) - Pops(Instruction) + Pushes(Instruction) >= StackSize
    \/ Instruction \in {Op.Divide, Op.Modulus} /\ Next2 = 0
    \/ Instruction \in {Op.Jump, Op.JumpIfFalse} /\ Jumps /\ JumpsTo \notin 0 .. Size
    \/ Instruction = Op.SetDeviceState
       /\ ~WishIsSound(Parameter(2), Parameter(5), Parameter(6))

Abort ==
    /\ Executing /\ AssertionFails
    /\ status' = "aborted"
    /\ UNCHANGED <<machine, flags, wanted, timers, timeouts, begun>>

\* The instruction op, which no assertion stops, leaves this stack and counter.
Carry(op, newStack, newPc) ==
    /\ At(op) /\ ~AssertionFails
    /\ stack' = newStack /\ pc' = newPc
    /\ UNCHANGED <<status, begun>>

Calculate ==
    \/ \E op \in Unaries :
          /\ Carry(op, Append(Pop(1), Unary(op, Top)), pc + 1)
          /\ UNCHANGED <<rule, stop, flags, wanted, timers, timeouts>>
    \/ \E op \in Binaries :
          /\ Carry(op, Append(Pop(2), Binary(op, Top, Next2)), pc + 1)
          /\ UNCHANGED <<rule, stop, flags, wanted, timers, timeouts>>

Pushed(op) ==
    CASE op = Op.PushConstant      -> Parameter(1)
      [] op = Op.PushVariableValue -> flags[Parameter(1)]
      [] op = Op.PushDeviceState   -> wanted[Parameter(1)]
      [] op = Op.PushTimeoutState  -> Truth(timeouts[Parameter(1)] # "pending")

Push ==
    \E op \in Pushers :
       /\ Carry(op, Append(stack, Pushed(op)), pc + 2)
       /\ UNCHANGED <<rule, stop, flags, wanted, timers, timeouts>>

\* Variant: the value stays on the stack.
StoreVariableOnly ==
    /\ Carry(Op.StoreVariable, stack, pc + 2)
    /\ flags' = [flags EXCEPT ![Parameter(1)] = Top]
    /\ UNCHANGED <<rule, stop, wanted, timers, timeouts>>

StoreVariable ==
    /\ Carry(Op.StoreVariable, Pop(1), pc + 2)
    /\ flags' = [flags EXCEPT ![Parameter(1)] = Top]
    /\ UNCHANGED <<rule, stop, wanted, timers, timeouts>>

SetDeviceState ==
    LET d == Parameter(1)  state == Parameter(2)
        delay == Parameter(5)  duration == Parameter(6)
    IN /\ Carry(Op.SetDeviceState, stack, pc + 7)
       /\ wanted' = [wanted EXCEPT ![d] = Wish(@, state, delay)]
       /\ timers' = [timers EXCEPT ![d] = Timers(state, delay, duration)]
       /\ UNCHANGED <<rule, stop, flags, timeouts>>

ResetTimeout ==
    /\ Carry(Op.ResetTimeout, stack, pc + 3)
    /\ timeouts' = [timeouts EXCEPT ![Parameter(1)] = "pending"]
    /\ UNCHANGED <<rule, stop, flags, wanted, timers>>

\* Variant: the jump counts from the instruction itself.
JumpShort ==
    \E op \in {Op.Jump, Op.JumpIfFalse} :
       /\ Carry(op, Pop(Pops(op)), IF Jumps THEN pc + Parameter(1) ELSE pc + 2)
       /\ UNCHANGED <<rule, stop, flags, wanted, timers, timeouts>>

Jump ==
    \E op \in {Op.Jump, Op.JumpIfFalse} :
       /\ Carry(op, Pop(Pops(op)), IF Jumps THEN JumpsTo ELSE pc + 2)
       /\ UNCHANGED <<rule, stop, flags, wanted, timers, timeouts>>

\* Variant: the rule comes back to the call itself.
CallAgain ==
    /\ Carry(Op.CallUserProcedure, stack \o <<pc, rule>>, 0)
    /\ rule' = Parameter(1)
    /\ UNCHANGED <<stop, flags, wanted, timers, timeouts>>

CallUserProcedure ==
    /\ Carry(Op.CallUserProcedure, stack \o <<pc + 2, rule>>, 0)
    /\ rule' = Parameter(1)
    /\ UNCHANGED <<stop, flags, wanted, timers, timeouts>>

Stop ==
    /\ Carry(Op.Stop, stack, pc + 1)
    /\ stop' = TRUE
    /\ UNCHANGED <<rule, flags, wanted, timers, timeouts>>

\* The devices' states are forgotten, which are no wishes.
RefreshDevices ==
    /\ Carry(Op.RefreshDevices, stack, pc + 1)
    /\ UNCHANGED <<rule, stop, flags, wanted, timers, timeouts>>

Turns(ts, before, after) ==
    /\ \A t \in ts : timeouts[t] = before
    /\ timeouts' = [t \in TimeoutNos |-> IF t \in ts THEN after ELSE timeouts[t]]

\* Set forward, the clock makes pending timeouts due; set back, it makes those
\* pending again that were due and have not been checked.
ClockIsSet ==
    \E ts \in SUBSET TimeoutNos :
       Turns(ts, "pending", "due") \/ Turns(ts, "due", "pending")

ResynchClock ==
    /\ Carry(Op.ResynchClock, stack, pc + 1)
    /\ ClockIsSet
    /\ UNCHANGED <<rule, stop, flags, wanted, timers>>

----------------------------------------------------------------------------
(* The program                                                             *)
\* vm takes the lock and starts ExecuteProgram; what an earlier program left on
\* the stack is still there.
StartProgram(r) ==
    /\ status = "idle"
    /\ status' = "running" /\ rule' = r /\ pc' = 0 /\ stop' = FALSE
    /\ begun' = [rule |-> r, stack |-> stack, flags |-> flags,
                 wanted |-> wanted, timers |-> timers, timeouts |-> timeouts]
    /\ UNCHANGED <<stack, flags, wanted, timers, timeouts>>

AtEnd == status = "running" /\ (stop \/ pc \notin 0 .. Size - 1)

\* Variant: a program that is to stop leaves the address where it is.
ReturnUnlessStopped ==
    /\ AtEnd
    /\ Len(stack) >= 2 /\ Len(stack) % 2 = 0
    /\ IF stop THEN UNCHANGED <<rule, pc, stack>>
       ELSE rule' = Top /\ pc' = Next2 /\ stack' = Pop(2)
    /\ status' = IF stop THEN "idle" ELSE "running"
    /\ UNCHANGED <<stop, flags, wanted, timers, timeouts, begun>>

\* Variant: taken off the stack in the order they were put there.
ReturnSwapped ==
    /\ AtEnd
    /\ Len(stack) >= 2 /\ Len(stack) % 2 = 0
    /\ rule' = Next2 /\ pc' = Top /\ stack' = Pop(2)
    /\ status' = IF stop THEN "idle" ELSE "running"
    /\ UNCHANGED <<stop, flags, wanted, timers, timeouts, begun>>

\* The end of a routine: back to its caller, whose address is popped even when
\* the program is to stop.
Return ==
    /\ AtEnd
    /\ Len(stack) >= 2 /\ Len(stack) % 2 = 0
    /\ rule' = Top /\ pc' = Next2 /\ stack' = Pop(2)
    /\ status' = IF stop THEN "idle" ELSE "running"
    /\ UNCHANGED <<stop, flags, wanted, timers, timeouts, begun>>

Finish ==
    /\ AtEnd
    /\ Len(stack) = 0 /\ pc = Size
    /\ status' = "idle" /\ stop' = TRUE
    /\ UNCHANGED <<rule, pc, stack, flags, wanted, timers, timeouts, begun>>

EndAsserts ==
    /\ AtEnd
    /\ IF Len(stack) >= 2 THEN Len(stack) % 2 = 1 ELSE Len(stack) # 0 \/ pc # Size
    /\ status' = "aborted"
    /\ UNCHANGED <<machine, flags, wanted, timers, timeouts, begun>>

----------------------------------------------------------------------------
(* The rest of the house                                                   *)
\* Between rules, device timers, people and other messages change wishes.
WishChanges(d) ==
    /\ status = "idle"
    /\ \E state \in Wishes : wanted' = [wanted EXCEPT ![d] = state]
    /\ UNCHANGED <<status, machine, flags, timers, timeouts, begun>>

\* The clock reaches a timeout, also while a rule runs.
Expire(t) ==
    /\ status # "aborted"
    /\ Turns({t}, "pending", "due")
    /\ UNCHANGED <<status, machine, flags, wanted, timers, begun>>

\* The rules thread checks the timeouts between rules: one that is due ends, and
\* is due no more if the clock is set back.
CheckTimeout(t) ==
    /\ status = "idle"
    /\ Turns({t}, "due", "ended")
    /\ UNCHANGED <<status, machine, flags, wanted, timers, begun>>

\* At the keyboard, which the rules thread reads between rules.
SetClock ==
    /\ status = "idle"
    /\ ClockIsSet
    /\ UNCHANGED <<status, machine, flags, wanted, timers, begun>>

ExecuteProgram ==
    \/ Calculate \/ Push \/ StoreVariable \/ SetDeviceState \/ ResetTimeout
    \/ Jump \/ CallUserProcedure \/ Stop \/ RefreshDevices \/ ResynchClock
    \/ Return \/ Finish \/ Abort \/ EndAsserts

Next ==
    \/ ExecuteProgram
    \/ \E r \in Actions : StartProgram(r)
    \/ \E d \in Devices : WishChanges(d)
    \/ \E t \in TimeoutNos : Expire(t) \/ CheckTimeout(t)
    \/ SetClock

\* The loop of ExecuteProgram runs on: the rules thread is not kept from it.
Spec == Init /\ [][Next]_vars /\ WF_vars(ExecuteProgram)

----------------------------------------------------------------------------
\* The stack never fills to its last place, which Pop asserts is free, and the
\* counter stays in the action (GetInstruction).
TypeOK ==
    /\ status \in {"idle", "running", "aborted"}
    /\ rule \in Actions \cup {-1}
    /\ status = "running" => rule \in Actions /\ pc \in 0 .. Size
    /\ stop \in BOOLEAN
    /\ stack \in Seq(Int) /\ Len(stack) < StackSize
    /\ flags \in [Flags -> Int]
    /\ wanted \in [Devices -> Int]
    /\ timers \in [Devices -> [on : Int, off : Int]]
    /\ timeouts \in [TimeoutNos -> TimeoutStates]
    /\ begun.rule \in Actions \cup {-1}

\* Every program that is started ends, or is ended by an assertion.
EveryRuleEnds == status = "running" ~> status # "running"
=============================================================================
