----------------------------- MODULE RulesProofs -----------------------------
(***************************************************************************)
(* What the rules thread does with the lock of the outgoing queue, and what *)
(* it carries out while it holds it.                                       *)
(*                                                                         *)
(* X10Queue: its assertions, and that planning loses nothing, for every     *)
(* queue, plan, retry and rule bound that X10QueueAssumption allows.       *)
(*                                                                         *)
(* Vm: for all code that is compiled soundly (RuleCodeAssumption) and every *)
(* size of the stack, flags, devices and timeouts, the assertions that end  *)
(* a program, where routines return to, and what a program may leave on the *)
(* stack for the next; for code without reasons to be ended (AllHarmless),  *)
(* that no program is ended.  The names of X10Queue's specification begin   *)
(* with Queue, those of Vm's are plain.                                    *)
(***************************************************************************)
EXTENDS RuleCode, X10Queue, TLAPS

-----------------------------------------------------------------------------
(* The queue and its lock                                                   *)

(* The lock belongs to the thread that is where it needs it.                *)
LockInv ==
    /\ rules \in {"planning", "firing"} <=> mutex = "rules"
    /\ tw523 \in {"flushing", "sending", "finished"} <=> mutex = "tw523"

(* The queue holds at most one plan and the infra red commands since the    *)
(* last clearing, and only a flush takes from it.                          *)
QueueInv ==
    /\ size <= MaxPlan + 2 * infraRed
    /\ head <= size
    /\ mutex # "tw523" => head = 0
    /\ rules = "planning" => infraRed = 0
    /\ rules = "wantsToPlan" => size = 0 \/ mutex = "tw523"

SharedInv == QueueTypeOK /\ LockInv /\ QueueInv

LEMMA QueueInitInv == QueueInit => SharedInv
<1> SUFFICES ASSUME QueueInit PROVE SharedInv
  OBVIOUS
<1>1. dimOrBright \in BOOLEAN
  BY Zenon DEF QueueInit
<1>2. QED
  BY <1>1, X10QueueAssumption
     DEF X10QueueAssumption, QueueInit, SharedInv, QueueTypeOK, LockInv, QueueInv

LEMMA RulesStepInv == SharedInv /\ RulesNext => SharedInv'
<1> SUFFICES ASSUME SharedInv, RulesNext PROVE SharedInv'
  OBVIOUS
<1> USE X10QueueAssumption DEF X10QueueAssumption, SharedInv, QueueTypeOK, LockInv, QueueInv
<1>1. CASE SeeEmpty
  BY <1>1 DEF SeeEmpty, Waiting
<1>2. CASE StartPlan
  <2>1. dimOrBright' \in BOOLEAN
    BY <1>2, Zenon DEF StartPlan, Clear
  <2>2. QED
    BY <1>2, <2>1 DEF StartPlan, Clear
<1>3. CASE AddMessage
  <2>1. dimOrBright' \in BOOLEAN
    BY <1>3, Zenon DEF AddMessage
  <2>2. QED
    BY <1>3, <2>1 DEF AddMessage
<1>4. CASE EndPlan
  BY <1>4 DEF EndPlan
<1>5. CASE CallRule
  BY <1>5 DEF CallRule
<1>6. CASE StartRule
  BY <1>6 DEF StartRule
<1>7. CASE InfraRedCommand
  BY <1>7 DEF InfraRedCommand
<1>8. CASE EndRule
  BY <1>8 DEF EndRule
<1>9. QED
  BY <1>1, <1>2, <1>3, <1>4, <1>5, <1>6, <1>7, <1>8 DEF RulesNext

LEMMA TW523StepInv == SharedInv /\ TW523Next => SharedInv'
<1> SUFFICES ASSUME SharedInv, TW523Next PROVE SharedInv'
  OBVIOUS
<1> USE X10QueueAssumption DEF X10QueueAssumption, SharedInv, QueueTypeOK, LockInv, QueueInv
<1>1. CASE HalfCycle
  BY <1>1 DEF HalfCycle
<1>2. CASE SeeWork
  BY <1>2 DEF SeeWork
<1>3. CASE StartFlush
  BY <1>3 DEF StartFlush
<1>4. CASE SendNext
  BY <1>4 DEF SendNext, Waiting
<1>5. CASE Acknowledged
  BY <1>5 DEF Acknowledged
<1>6. CASE Restart
  BY <1>6 DEF Restart
<1>7. CASE GiveUp
  BY <1>7 DEF GiveUp
<1>8. CASE AllSent
  BY <1>8 DEF AllSent
<1>9. CASE EndFlush
  <2>1. dimOrBright' \in BOOLEAN
    BY <1>9, Zenon DEF EndFlush, Clear
  <2>2. QED
    BY <1>9, <2>1 DEF EndFlush, Clear
<1>10. QED
  BY <1>1, <1>2, <1>3, <1>4, <1>5, <1>6, <1>7, <1>8, <1>9 DEF TW523Next

LEMMA QueueStepInv == SharedInv /\ [QueueNext]_queueVars => SharedInv'
<1>1. SharedInv /\ UNCHANGED queueVars => SharedInv'
  BY DEF SharedInv, QueueTypeOK, LockInv, QueueInv, queueVars
<1>2. QED
  BY <1>1, RulesStepInv, TW523StepInv DEF QueueNext

LEMMA QueueInvariance == QueueSpec => []SharedInv
BY QueueInitInv, QueueStepInv, PTL DEF QueueSpec

(* Every variable keeps its range; in particular no count runs past the     *)
(* bounds the code gives it.                                               *)
THEOREM QueueTypeCorrect == QueueSpec => []QueueTypeOK
<1>1. SharedInv => QueueTypeOK
  BY DEF SharedInv
<1>2. QED
  BY <1>1, QueueInvariance, PTL

(* The assertions of addQueue and nextMessage (queue.cpp) never fail.       *)
THEOREM QueueAssertionsHold == QueueSpec => []QueueAssertions
<1>1. SharedInv => QueueAssertions
  BY X10QueueAssumption DEF X10QueueAssumption, SharedInv, QueueTypeOK, LockInv, QueueInv, QueueAssertions
<1>2. QED
  BY <1>1, QueueInvariance, PTL

(* mUpdateDevices (housecode.cpp) never clears a message that has not been  *)
(* sent or given up, although it reads the queue's length before it locks.  *)
THEOREM PlanningLosesNothing == QueueSpec => []PlanDiscardsNothing
<1>1. SharedInv => PlanDiscardsNothing
  BY DEF SharedInv, QueueInv, PlanDiscardsNothing
<1>2. QED
  BY <1>1, QueueInvariance, PTL

-----------------------------------------------------------------------------
(* The machine                                                              *)

(* A return address: an entry after a call, where a routine has no values  *)
(* on the stack.                                                           *)
IsAddress(p, r) ==
    /\ r \in Actions /\ Meets(r, p, 0)
    /\ p >= 2 /\ Code[r][p - 1] = Op.CallUserProcedure

(* The lowest n pairs of the stack are return addresses.                   *)
Frames(n) == \A i \in 1 .. n : IsAddress(stack[2 * i - 1], stack[2 * i])

(* The routine n calls down is the rule that is carried out, those above it *)
(* are on the stack.                                                       *)
RoutineAt(i, n) == IF i = n THEN rule ELSE stack[2 * i + 2]

(* What the routine r, i calls down, may still need is no more than the     *)
(* rule may that was called first.                                         *)
WithinRule(r, i) ==
    /\ 2 * i + StackNeed[r] <= StackNeed[begun.rule]
    /\ StopDepth[r] >= 0 => i + StopDepth[r] <= StopDepth[begun.rule]

Chain(n) ==
    /\ begun.rule \in Actions
    /\ \A i \in 0 .. n : WithinRule(RoutineAt(i, n), i)
    /\ \A i \in 1 .. n : Code[stack[2 * i]][stack[2 * i - 1]] = RoutineAt(i, n)

CallsDown(n) ==
    /\ Len(stack) = 2 * n + Height[rule][pc]
    /\ Frames(n)
    /\ begun.stack = <<>> => Chain(n)

Running ==
    status # "idle" =>
       /\ rule \in Actions /\ pc \in DOMAIN Height[rule]
       /\ stop => Height[rule][pc] = 0 /\ StopDepth[rule] >= 0
       /\ \E n \in 0 .. Len(stack) : CallsDown(n)

Between ==
    status = "idle" => \E n \in 0 .. Len(stack) : Len(stack) = 2 * n /\ Frames(n)

MachineInv == TypeOK /\ Running /\ Between /\ AbortsForCause /\ LeftoversComeFromStop

(* The numbers of the instructions.                                         *)
LEMMA OpValues ==
    /\ Op.Stop = 0 /\ Op.PushDeviceState = 1 /\ Op.SetDeviceState = 2
    /\ Op.PushTimeoutState = 3 /\ Op.ResetTimeout = 4
    /\ Op.Abs = 5 /\ Op.Decrement = 6 /\ Op.Increment = 7
    /\ Op.Add = 8 /\ Op.Subtract = 9 /\ Op.Multiply = 10 /\ Op.Divide = 11
    /\ Op.Modulus = 12 /\ Op.Negate = 13
    /\ Op.Less = 14 /\ Op.LessEqual = 15 /\ Op.Equal = 16 /\ Op.GreaterEqual = 17
    /\ Op.Greater = 18 /\ Op.NotEqual = 19 /\ Op.Not = 20 /\ Op.Or = 21 /\ Op.And = 22
    /\ Op.PushConstant = 23 /\ Op.PushVariableValue = 24 /\ Op.StoreVariable = 25
    /\ Op.Jump = 26 /\ Op.JumpIfTrue = 27 /\ Op.JumpIfFalse = 28
    /\ Op.CallSystemProcedure = 29 /\ Op.CallUserProcedure = 30
    /\ Op.ReturnFromUserProcedure = 31
    /\ Op.RefreshDevices = 32 /\ Op.ResynchClock = 33
  BY DEF Op

LEMMA CarriedAreInstructions ==
    Carried \subseteq {Op[name] : name \in DOMAIN Op}
  BY OpValues DEF Op, Carried, Unaries, Binaries, Pushers

LEMMA CarriedAreNot ==
    ASSUME NEW op \in Carried
    PROVE  op \notin {Op.JumpIfTrue, Op.CallSystemProcedure, Op.ReturnFromUserProcedure}
  BY OpValues DEF Carried, Unaries, Binaries, Pushers

LEMMA Arities ==
    /\ \A op \in Unaries : Pops(op) = 1 /\ Pushes(op) = 1 /\ Length(op) = 1
    /\ \A op \in Binaries : Pops(op) = 2 /\ Pushes(op) = 1 /\ Length(op) = 1
    /\ \A op \in Pushers : Pops(op) = 0 /\ Pushes(op) = 1 /\ Length(op) = 2
    /\ Pops(Op.StoreVariable) = 1 /\ Pushes(Op.StoreVariable) = 0
    /\ Length(Op.StoreVariable) = 2
    /\ Pops(Op.JumpIfFalse) = 1 /\ Pushes(Op.JumpIfFalse) = 0
    /\ Length(Op.JumpIfFalse) = 2
    /\ Pops(Op.Jump) = 0 /\ Pushes(Op.Jump) = 0 /\ Length(Op.Jump) = 2
    /\ Pops(Op.CallUserProcedure) = 0 /\ Pushes(Op.CallUserProcedure) = 2
    /\ Length(Op.CallUserProcedure) = 2
    /\ Pops(Op.SetDeviceState) = 0 /\ Pushes(Op.SetDeviceState) = 0
    /\ Length(Op.SetDeviceState) = 7
    /\ Pops(Op.ResetTimeout) = 0 /\ Pushes(Op.ResetTimeout) = 0
    /\ Length(Op.ResetTimeout) = 3
    /\ \A op \in {Op.Stop, Op.RefreshDevices, Op.ResynchClock} :
          Pops(op) = 0 /\ Pushes(op) = 0 /\ Length(op) = 1
  BY OpValues DEF Pops, Pushes, Length, Unaries, Binaries, Pushers

LEMMA CodeFacts ==
    ASSUME NEW r \in Actions
    PROVE  /\ r \in Int /\ Code[r] \in Seq(Int)
           /\ StackNeed[r] \in Nat /\ StopDepth[r] \in Int
           /\ ActionIsSound(r) /\ CallsAreCounted(r)
  BY CodeAssumption, RuleCodeAssumption DEF CompiledSoundly, Actions

(* Where a program is, its action's height there is known, and what it is   *)
(* about to carry out is sound.                                            *)
LEMMA WhereItIs ==
    ASSUME Running, status # "idle"
    PROVE  /\ rule \in Actions /\ Size \in Nat /\ pc \in 0 .. Size
           /\ Height[rule][pc] \in 0 .. StackNeed[rule]
           /\ Height[rule][Size] = 0
           /\ pc < Size => InstructionIsSound(rule, pc)
  BY CodeFacts DEF Running, ActionIsSound, Meets, Size

LEMMA Decoded ==
    ASSUME Running, Executing
    PROVE  /\ Instruction \in Carried /\ pc + Length(Instruction) <= Size
           /\ Height[rule][pc] - Pops(Instruction) \in Nat
           /\ Length(Instruction) > 1 => OperandIsSound(Instruction, Parameter(1))
           /\ Instruction \in {Op.Jump, Op.JumpIfFalse} =>
                 Meets(rule, JumpsTo, Height[rule][pc] - Pops(Instruction))
           /\ Instruction \in {Op.CallUserProcedure, Op.Stop} =>
                 Height[rule][pc] = Pops(Instruction)
           /\ Instruction # Op.Jump =>
                 Meets(rule, pc + Length(Instruction),
                       IF Instruction = Op.CallUserProcedure THEN 0
                       ELSE Height[rule][pc] - Pops(Instruction) + Pushes(Instruction))
  <1>1. pc \in 0 .. Size - 1 /\ Size \in Nat /\ Height[rule][pc] \in Nat
        /\ InstructionIsSound(rule, pc)
    BY WhereItIs, CodeFacts DEF Executing
  <1>2. Parameter(1) = Code[rule][pc + 2] /\ JumpsTo = pc + 2 + Code[rule][pc + 2]
    BY <1>1 DEF Parameter, JumpsTo
  <1>3. Pops(Instruction) \in 0 .. 2
    BY DEF Pops
  <1> QED
    BY <1>1, <1>2, <1>3 DEF InstructionIsSound, Instruction, Size

(* Going on in the same routine: below its own values nothing changes.      *)
LEMMA SameRoutine ==
    ASSUME MachineInv, status = "running",
           status' = status, begun' = begun, rule' = rule, stop' \in BOOLEAN,
           stack' \in Seq(Int), Len(stack') < StackSize,
           pc' \in DOMAIN Height[rule],
           Len(stack') - Height[rule][pc'] = Len(stack) - Height[rule][pc],
           \A i \in 1 .. Len(stack) - Height[rule][pc] : stack'[i] = stack[i],
           stop' => Height[rule][pc'] = 0 /\ StopDepth[rule] >= 0,
           flags' \in [Flags -> Int], wanted' \in [Devices -> Int],
           timers' \in [Devices -> [on : Int, off : Int]],
           timeouts' \in [TimeoutNos -> TimeoutStates]
    PROVE  MachineInv'
  <1>1. /\ rule \in Actions /\ Height[rule][pc] \in Nat /\ Height[rule][pc'] \in Nat
        /\ pc' \in 0 .. Size /\ stack \in Seq(Int) /\ Len(stack) \in Nat
        /\ Len(stack') \in Nat
    BY WhereItIs, CodeFacts DEF MachineInv, TypeOK, ActionIsSound, Size
  <1>2. TypeOK'
    BY <1>1 DEF MachineInv, TypeOK, Size
  <1>3. PICK n \in 0 .. Len(stack) : CallsDown(n)
    BY DEF MachineInv, Running
  <1>4. Len(stack') = 2 * n + Height[rule][pc'] /\ n \in 0 .. Len(stack')
        /\ \A i \in 1 .. 2 * n : stack'[i] = stack[i]
    <2>1. Len(stack) = 2 * n + Height[rule][pc]
      BY <1>3 DEF CallsDown
    <2>2. Len(stack) - Height[rule][pc] = 2 * n
      BY <1>1, <2>1
    <2>3. Len(stack') - Height[rule][pc'] = 2 * n
      BY <2>2
    <2>4. Len(stack') = 2 * n + Height[rule][pc']
      BY <1>1, <2>3
    <2>5. n \in 0 .. Len(stack')
      BY <1>1, <2>4
    <2>6. \A i \in 1 .. 2 * n : stack'[i] = stack[i]
      BY <2>2
    <2> QED
      BY <2>4, <2>5, <2>6
  <1>5. \A i \in 1 .. n : stack'[2 * i] = stack[2 * i] /\ stack'[2 * i - 1] = stack[2 * i - 1]
    BY <1>4
  <1>6. Frames(n)'
    BY <1>3, <1>5 DEF CallsDown, Frames, IsAddress
  <1>7. \A i \in 0 .. n : RoutineAt(i, n)' = RoutineAt(i, n)
    <2> TAKE i \in 0 .. n
    <2>1. i # n => i + 1 \in 1 .. n
      OBVIOUS
    <2>2. i # n => stack'[2 * (i + 1)] = stack[2 * (i + 1)]
      BY <2>1, <1>5
    <2> QED
      BY <2>2 DEF RoutineAt
  <1>8. begun.stack = <<>> => Chain(n)'
    <2> SUFFICES ASSUME begun.stack = <<>> PROVE Chain(n)'
      OBVIOUS
    <2>1. Chain(n)
      BY <1>3 DEF CallsDown
    <2>2. \A i \in 0 .. n : WithinRule(RoutineAt(i, n), i)'
      BY <2>1, <1>7 DEF Chain, WithinRule
    <2>3. \A i \in 1 .. n :
             Code[stack'[2 * i]][stack'[2 * i - 1]] = RoutineAt(i, n)'
      <3> TAKE i \in 1 .. n
      <3>1. i \in 0 .. n
        OBVIOUS
      <3>2. Code[stack[2 * i]][stack[2 * i - 1]] = RoutineAt(i, n)
        BY <2>1 DEF Chain
      <3> QED
        BY <3>1, <3>2, <1>5, <1>7
    <2> QED
      BY <2>1, <2>2, <2>3 DEF Chain
  <1>9. CallsDown(n)'
    BY <1>4, <1>6, <1>8 DEF CallsDown
  <1>10. Running'
    BY <1>1, <1>4, <1>9 DEF Running
  <1> QED
    BY <1>2, <1>10 DEF MachineInv, Between, AbortsForCause, LeftoversComeFromStop

(* What is calculated is a number.                                          *)
LEMMA UnaryType ==
    ASSUME NEW op \in Unaries, NEW i \in Int
    PROVE  Unary(op, i) \in Int
  BY OpValues DEF Unaries, Unary, Truth, AbsValue

LEMMA QuotientType ==
    ASSUME NEW i \in Int, NEW j \in Int, j # 0
    PROVE  Quotient(i, j) \in Int
  <1>1. AbsValue(i) \in Int /\ AbsValue(j) \in Nat \ {0}
    BY DEF AbsValue
  <1>2. AbsValue(i) \div AbsValue(j) \in Int
    BY <1>1
  <1> QED
    BY <1>2 DEF Quotient

LEMMA BinaryType ==
    ASSUME NEW op \in Binaries, NEW i \in Int, NEW j \in Int,
           op \in {Op.Divide, Op.Modulus} => j # 0
    PROVE  Binary(op, i, j) \in Int
  <1>1. CASE op \in {Op.Divide, Op.Modulus}
    <2>1. Quotient(i, j) \in Int
      BY <1>1, QuotientType
    <2>2. j * Quotient(i, j) \in Int
      BY <2>1
    <2> QED
      BY <1>1, <2>1, <2>2, OpValues DEF Binary
  <1>2. CASE op \notin {Op.Divide, Op.Modulus}
    BY <1>2, OpValues DEF Binaries, Binary, Truth
  <1> QED
    BY <1>1, <1>2

(* What every instruction that no assertion stops begins from.              *)
LEMMA Carrying ==
    ASSUME MachineInv, NEW op, NEW newStack, NEW newPc, Carry(op, newStack, newPc)
    PROVE  /\ status = "running" /\ status' = status /\ begun' = begun
           /\ ~stop /\ pc \in 0 .. Size - 1 /\ Instruction = op
           /\ stack' = newStack /\ pc' = newPc
           /\ stack \in Seq(Int) /\ Len(stack) >= Height[rule][pc]
           /\ Height[rule][pc] \in Nat
           /\ rule \in Actions
           /\ \A k \in 1 .. Length(op) - 1 : Parameter(k) \in Int
           /\ Len(stack) - Pops(op) + Pushes(op) < StackSize
           /\ op \in {Op.Divide, Op.Modulus} => Next2 # 0
           /\ Executing /\ Running /\ TypeOK
  <1>1. /\ status = "running" /\ status' = status /\ begun' = begun
        /\ ~stop /\ pc \in 0 .. Size - 1 /\ Instruction = op
        /\ stack' = newStack /\ pc' = newPc /\ Executing /\ ~AssertionFails
    BY DEF Carry, At, Executing
  <1>2. /\ stack \in Seq(Int) /\ Height[rule][pc] \in Nat /\ rule \in Actions
        /\ Running /\ TypeOK /\ Code[rule] \in Seq(Int)
    BY <1>1, WhereItIs, CodeFacts DEF MachineInv, TypeOK
  <1>3. PICK n \in 0 .. Len(stack) : CallsDown(n)
    BY <1>1 DEF MachineInv, Running
  <1>4. Len(stack) >= Height[rule][pc]
    BY <1>2, <1>3 DEF CallsDown
  <1>5. /\ Len(stack) - Pops(op) + Pushes(op) < StackSize
        /\ op \in {Op.Divide, Op.Modulus} => Next2 # 0
    <2>1. Len(stack) - Pops(op) + Pushes(op) \in Int
      BY <1>2 DEF Pops, Pushes
    <2> QED
      BY <1>1, <2>1, StackAssumption DEF AssertionFails
  <1>6. \A k \in 1 .. Length(op) - 1 : Parameter(k) \in Int
    <2> TAKE k \in 1 .. Length(op) - 1
    <2>1. pc + Length(op) <= Len(Code[rule]) /\ Length(op) \in Nat
      BY <1>1, <1>2, Decoded DEF Size, Length
    <2>2. pc + 1 + k \in 1 .. Len(Code[rule])
      BY <1>1, <2>1
    <2> QED
      BY <1>2, <2>2 DEF Parameter
  <1> QED
    BY <1>1, <1>2, <1>4, <1>5, <1>6

LEMMA PopType ==
    ASSUME NEW s \in Seq(Int), NEW k \in 0 .. Len(s)
    PROVE  /\ SubSeq(s, 1, Len(s) - k) \in Seq(Int)
           /\ Len(SubSeq(s, 1, Len(s) - k)) = Len(s) - k
           /\ \A i \in 1 .. Len(s) - k : SubSeq(s, 1, Len(s) - k)[i] = s[i]
  OBVIOUS

LEMMA AppendType ==
    ASSUME NEW s \in Seq(Int), NEW v \in Int
    PROVE  /\ Append(s, v) \in Seq(Int) /\ Len(Append(s, v)) = Len(s) + 1
           /\ \A i \in 1 .. Len(s) : Append(s, v)[i] = s[i]
           /\ Append(s, v)[Len(s) + 1] = v
  OBVIOUS

(* The lowest j entries are where they were when k others give way to one.   *)
LEMMA Replaced ==
    ASSUME NEW s \in Seq(Int), NEW v \in Int, NEW k \in 0 .. Len(s),
           NEW j \in 0 .. Len(s) - k
    PROVE  /\ Append(SubSeq(s, 1, Len(s) - k), v) \in Seq(Int)
           /\ Len(Append(SubSeq(s, 1, Len(s) - k), v)) = Len(s) - k + 1
           /\ \A i \in 1 .. j : Append(SubSeq(s, 1, Len(s) - k), v)[i] = s[i]
  <1> DEFINE t == SubSeq(s, 1, Len(s) - k)
  <1>1. /\ t \in Seq(Int) /\ Len(t) = Len(s) - k
        /\ \A i \in 1 .. Len(s) - k : t[i] = s[i]
    BY PopType
  <1> HIDE DEF t
  <1>2. /\ Append(t, v) \in Seq(Int) /\ Len(Append(t, v)) = Len(t) + 1
        /\ \A i \in 1 .. Len(t) : Append(t, v)[i] = t[i]
    BY <1>1, AppendType
  <1>3. \A i \in 1 .. j : i \in 1 .. Len(s) - k
    OBVIOUS
  <1>4. \A i \in 1 .. j : Append(t, v)[i] = s[i]
    BY <1>1, <1>2, <1>3
  <1>5. Len(Append(t, v)) = Len(s) - k + 1
    BY <1>1, <1>2
  <1> QED
    BY <1>2, <1>4, <1>5 DEF t

(* An instruction that takes k values from the stack and leaves one.        *)
LEMMA Replacing ==
    ASSUME MachineInv, NEW op, NEW v \in Int, NEW k \in 0 .. 2,
           Carry(op, Append(Pop(k), v), pc + Length(op)),
           Pops(op) = k, Pushes(op) = 1, op \notin {Op.Jump, Op.CallUserProcedure},
           UNCHANGED <<rule, stop, flags, wanted, timers, timeouts>>
    PROVE  MachineInv'
  <1> DEFINE h == Height[rule][pc]
  <1>1. /\ status = "running" /\ status' = status /\ begun' = begun
        /\ ~stop /\ Instruction = op /\ Executing /\ Running /\ TypeOK
        /\ stack' = Append(Pop(k), v) /\ pc' = pc + Length(op)
        /\ stack \in Seq(Int) /\ Len(stack) \in Nat /\ Len(stack) >= h /\ h \in Nat
        /\ Len(stack) - Pops(op) + Pushes(op) < StackSize
    <2> DEFINE ns == Append(Pop(k), v)
    <2> HIDE DEF ns
    <2>1. Carry(op, ns, pc + Length(op))
      BY DEF ns
    <2>2. /\ status = "running" /\ status' = status /\ begun' = begun
          /\ ~stop /\ Instruction = op /\ Executing /\ Running /\ TypeOK
          /\ stack' = ns /\ pc' = pc + Length(op)
          /\ Len(stack) - Pops(op) + Pushes(op) < StackSize
      BY <2>1, Carrying
    <2>3. /\ stack \in Seq(Int) /\ Len(stack) >= Height[rule][pc]
          /\ Height[rule][pc] \in Nat
      BY <2>1, Carrying
    <2> QED
      BY <2>2, <2>3 DEF ns
  <1>2. h - k \in Nat /\ Meets(rule, pc', h - k + 1)
    BY <1>1, Decoded
  <1>3. k \in 0 .. Len(stack) /\ Len(stack) - h \in 0 .. Len(stack) - k
    <2>1. Len(stack) \in Nat /\ k \in Nat /\ h \in Nat
      BY <1>1
    <2>2. k <= h
      BY <1>2, <2>1
    <2>3. h <= Len(stack)
      BY <1>1
    <2> HIDE DEF h
    <2> QED
      BY <2>1, <2>2, <2>3
  <1>4. /\ stack' \in Seq(Int) /\ Len(stack') = Len(stack) - k + 1
        /\ \A i \in 1 .. Len(stack) - h : stack'[i] = stack[i]
    <2> DEFINE j == Len(stack) - h
               t == Append(SubSeq(stack, 1, Len(stack) - k), v)
    <2>1. stack' = t
      BY <1>1 DEF Pop
    <2>2. stack \in Seq(Int) /\ j \in 0 .. Len(stack) - k
      BY <1>1, <1>3
    <2> HIDE DEF j
    <2>3. /\ t \in Seq(Int) /\ Len(t) = Len(stack) - k + 1
          /\ \A i \in 1 .. j : t[i] = stack[i]
      BY <1>3, <2>2, Replaced
    <2> HIDE DEF t
    <2> QED
      BY <2>1, <2>3 DEF j
  <1>5. pc' \in DOMAIN Height[rule] /\ Len(stack') - Height[rule][pc'] = Len(stack) - h
    <2>1. pc' \in DOMAIN Height[rule] /\ Height[rule][pc'] = h - k + 1
      BY <1>2 DEF Meets
    <2>2. Len(stack) \in Nat /\ k \in Nat /\ h \in Nat
      BY <1>1
    <2>3. Len(stack') - Height[rule][pc'] = Len(stack) - h
      <3> HIDE DEF h
      <3> QED
        BY <1>4, <2>1, <2>2
    <2> QED
      BY <2>1, <2>3
  <1>6. /\ stop' \in BOOLEAN /\ ~stop' /\ rule' = rule
        /\ flags' \in [Flags -> Int] /\ wanted' \in [Devices -> Int]
        /\ timers' \in [Devices -> [on : Int, off : Int]]
        /\ timeouts' \in [TimeoutNos -> TimeoutStates]
    BY <1>1 DEF TypeOK
  <1> QED
    BY <1>1, <1>4, <1>5, <1>6, SameRoutine

LEMMA CalculateInv ==
    ASSUME MachineInv, Calculate
    PROVE  MachineInv'
  <1>1. ASSUME NEW op \in Unaries, Carry(op, Append(Pop(1), Unary(op, Top)), pc + 1),
               UNCHANGED <<rule, stop, flags, wanted, timers, timeouts>>
        PROVE  MachineInv'
    <2>1. /\ Pops(op) = 1 /\ Pushes(op) = 1 /\ Length(op) = 1
          /\ op \notin {Op.Jump, Op.CallUserProcedure}
      BY Arities, OpValues DEF Unaries
    <2>2. Top \in Int
      <3>1. /\ Executing /\ Running /\ Instruction = op /\ stack \in Seq(Int)
            /\ Len(stack) >= Height[rule][pc] /\ Height[rule][pc] \in Nat
        BY <1>1, Carrying
      <3>2. Height[rule][pc] >= 1
        BY <2>1, <3>1, Decoded
      <3> QED
        BY <3>1, <3>2 DEF Top
    <2>3. Unary(op, Top) \in Int
      BY <2>2, UnaryType
    <2>4. Carry(op, Append(Pop(1), Unary(op, Top)), pc + Length(op))
      BY <1>1, <2>1
    <2> HIDE DEF Carry, Pop, Unary, Top
    <2> QED
      BY <1>1, <2>1, <2>3, <2>4, Replacing
  <1>2. ASSUME NEW op \in Binaries, Carry(op, Append(Pop(2), Binary(op, Top, Next2)), pc + 1),
               UNCHANGED <<rule, stop, flags, wanted, timers, timeouts>>
        PROVE  MachineInv'
    <2>1. /\ Pops(op) = 2 /\ Pushes(op) = 1 /\ Length(op) = 1
          /\ op \notin {Op.Jump, Op.CallUserProcedure}
      BY Arities, OpValues DEF Binaries
    <2>2. Top \in Int /\ Next2 \in Int /\ (op \in {Op.Divide, Op.Modulus} => Next2 # 0)
      <3>1. /\ Executing /\ Running /\ Instruction = op /\ stack \in Seq(Int)
            /\ Len(stack) >= Height[rule][pc] /\ Height[rule][pc] \in Nat
            /\ op \in {Op.Divide, Op.Modulus} => Next2 # 0
        BY <1>2, Carrying
      <3>2. Height[rule][pc] >= 2
        BY <2>1, <3>1, Decoded
      <3> QED
        BY <3>1, <3>2 DEF Top, Next2
    <2>3. Binary(op, Top, Next2) \in Int
      <3> HIDE DEF Top, Next2
      <3> QED
        BY <2>2, BinaryType, OpValues
    <2>4. Carry(op, Append(Pop(2), Binary(op, Top, Next2)), pc + Length(op))
      BY <1>2, <2>1
    <2> QED
      BY <1>2, <2>1, <2>3, <2>4, Replacing
  <1> QED
    BY <1>1, <1>2 DEF Calculate

(* An instruction that takes k values from the stack and leaves none.       *)
LEMMA Dropping ==
    ASSUME MachineInv, NEW op, NEW k \in 0 .. 1, NEW newStack, NEW newPc,
           Carry(op, newStack, newPc), newStack \in {stack, Pop(1)},
           newStack = stack <=> k = 0,
           Pops(op) = k, Pushes(op) = 0, Meets(rule, newPc, Height[rule][pc] - k),
           rule' = rule, stop' \in BOOLEAN,
           stop' => Height[rule][pc] = k /\ StopDepth[rule] >= 0,
           flags' \in [Flags -> Int], wanted' \in [Devices -> Int],
           timers' \in [Devices -> [on : Int, off : Int]],
           timeouts' \in [TimeoutNos -> TimeoutStates]
    PROVE  MachineInv'
  <1> DEFINE h == Height[rule][pc]
  <1>1. /\ status = "running" /\ status' = status /\ begun' = begun
        /\ stack' = newStack /\ pc' = newPc /\ Executing /\ Running
        /\ Instruction = op /\ Len(stack) - Pops(op) + Pushes(op) < StackSize
    BY Carrying
  <1>2. stack \in Seq(Int) /\ Len(stack) >= Height[rule][pc] /\ Height[rule][pc] \in Nat
    BY Carrying
  <1>3. Len(stack) \in Nat /\ k \in 0 .. 1 /\ h \in Nat /\ h <= Len(stack) /\ k <= h
    <2>1. h - k \in Nat
      BY <1>1, Decoded
    <2> QED
      BY <1>2, <2>1
  <1> HIDE DEF h
  <1>4. /\ newStack \in Seq(Int) /\ Len(newStack) = Len(stack) - k
        /\ \A i \in 1 .. Len(stack) - k : newStack[i] = stack[i]
    <2>1. CASE k = 0
      <3>1. newStack = stack
        BY <2>1
      <3> QED
        BY <1>2, <1>3, <2>1, <3>1
    <2>2. CASE k = 1
      <3>1. newStack = SubSeq(stack, 1, Len(stack) - 1)
        BY <2>2 DEF Pop
      <3>2. 1 \in 0 .. Len(stack) /\ stack \in Seq(Int)
        BY <1>2, <1>3, <2>2
      <3> DEFINE t == SubSeq(stack, 1, Len(stack) - 1)
      <3>3. /\ t \in Seq(Int) /\ Len(t) = Len(stack) - 1
            /\ \A i \in 1 .. Len(stack) - 1 : t[i] = stack[i]
        BY <3>2, PopType
      <3> HIDE DEF t
      <3>4. newStack = t
        BY <3>1 DEF t
      <3> QED
        BY <2>2, <3>3, <3>4
    <2> QED
      BY <1>3, <2>1, <2>2
  <1>5. /\ stack' \in Seq(Int) /\ Len(stack') < StackSize
        /\ \A i \in 1 .. Len(stack) - h : stack'[i] = stack[i]
    BY <1>1, <1>3, <1>4
  <1>6. pc' \in DOMAIN Height[rule] /\ Height[rule][pc'] = h - k
    BY <1>1 DEF Meets, h
  <1>7. Len(stack') - Height[rule][pc'] = Len(stack) - h
    BY <1>1, <1>3, <1>4, <1>6
  <1>8. stop' => Height[rule][pc'] = 0 /\ StopDepth[rule] >= 0
    BY <1>3, <1>6 DEF h
  <1> QED
    BY <1>1, <1>5, <1>6, <1>7, <1>8, SameRoutine DEF h

LEMMA Kept ==
    ASSUME MachineInv, UNCHANGED <<stop, flags, wanted, timers, timeouts>>
    PROVE  /\ stop' \in BOOLEAN /\ (stop' <=> stop)
           /\ flags' \in [Flags -> Int] /\ wanted' \in [Devices -> Int]
           /\ timers' \in [Devices -> [on : Int, off : Int]]
           /\ timeouts' \in [TimeoutNos -> TimeoutStates]
  BY DEF MachineInv, TypeOK

LEMMA PushInv ==
    ASSUME MachineInv, Push
    PROVE  MachineInv'
  <1>1. PICK op \in Pushers :
           /\ Carry(op, Append(stack, Pushed(op)), pc + 2)
           /\ UNCHANGED <<rule, stop, flags, wanted, timers, timeouts>>
    BY DEF Push
  <1>2. /\ Pops(op) = 0 /\ Pushes(op) = 1 /\ Length(op) = 2
        /\ op \notin {Op.Jump, Op.CallUserProcedure}
    BY Arities, OpValues DEF Pushers
  <1>3. /\ stack \in Seq(Int) /\ TypeOK /\ Executing /\ Running /\ Instruction = op
        /\ \A k \in 1 .. Length(op) - 1 : Parameter(k) \in Int
    <2> DEFINE ns == Append(stack, Pushed(op))
    <2> HIDE DEF ns
    <2>1. Carry(op, ns, pc + 2)
      BY <1>1 DEF ns
    <2> QED
      BY <2>1, Carrying
  <1>4. Parameter(1) \in Int /\ OperandIsSound(op, Parameter(1))
    BY <1>2, <1>3, Decoded
  <1>5. Pushed(op) \in Int
    <2>1. op = Op.PushVariableValue => flags[Parameter(1)] \in Int
      BY <1>3, <1>4 DEF TypeOK, OperandIsSound
    <2>2. op = Op.PushDeviceState => wanted[Parameter(1)] \in Int
      BY <1>3, <1>4 DEF TypeOK, OperandIsSound
    <2>3. Truth(timeouts[Parameter(1)] # "pending") \in Int
      BY DEF Truth
    <2> QED
      BY <1>4, <2>1, <2>2, <2>3, OpValues DEF Pushers, Pushed
  <1>6. Pop(0) = stack
    BY <1>3 DEF Pop
  <1>7. Carry(op, Append(Pop(0), Pushed(op)), pc + Length(op))
    BY <1>1, <1>2, <1>6
  <1> HIDE DEF Pushed
  <1> QED
    BY <1>1, <1>2, <1>5, <1>7, Replacing

LEMMA StoreVariableInv ==
    ASSUME MachineInv, StoreVariable
    PROVE  MachineInv'
  <1> DEFINE op == Op.StoreVariable  ns == Pop(1)
  <1> HIDE DEF ns
  <1>1. Carry(op, ns, pc + 2)
    BY DEF StoreVariable, ns
  <1>2. /\ stack \in Seq(Int) /\ TypeOK /\ Executing /\ Running /\ Instruction = op
        /\ ~stop /\ Len(stack) >= Height[rule][pc] /\ Height[rule][pc] \in Nat
    BY <1>1, Carrying
  <1>3. Meets(rule, pc + 2, Height[rule][pc] - 1) /\ Height[rule][pc] - 1 \in Nat
    <2> DEFINE h == Height[rule][pc]
    <2>1. Meets(rule, pc + Length(op), h - Pops(op) + Pushes(op)) /\ h - Pops(op) \in Nat
      BY <1>2, Decoded, OpValues
    <2>2. h - Pops(op) + Pushes(op) = h - 1 /\ Length(op) = 2 /\ Pops(op) = 1
      BY <1>2, Arities
    <2>3. Meets(rule, pc + 2, h - 1)
      <3> HIDE DEF h
      <3> QED
        BY <2>1, <2>2
    <2> QED
      BY <1>2, <2>1, <2>2, <2>3
  <1>4. Top \in Int
    BY <1>2, <1>3 DEF Top
  <1>5. flags' \in [Flags -> Int]
    BY <1>2, <1>4 DEF StoreVariable, TypeOK
  <1>6. ns # stack
    BY <1>2, <1>3 DEF ns, Pop
  <1>7. /\ rule' = rule /\ stop' \in BOOLEAN /\ ~stop'
        /\ wanted' \in [Devices -> Int]
        /\ timers' \in [Devices -> [on : Int, off : Int]]
        /\ timeouts' \in [TimeoutNos -> TimeoutStates]
    BY <1>2 DEF StoreVariable, TypeOK
  <1>8. Pops(op) = 1 /\ Pushes(op) = 0
    BY Arities
  <1>9. ns \in {stack, Pop(1)}
    BY DEF ns
  <1> HIDE DEF op
  <1> QED
    BY <1>1, <1>3, <1>5, <1>6, <1>7, <1>8, <1>9, Dropping

LEMMA JumpInv ==
    ASSUME MachineInv, Jump
    PROVE  MachineInv'
  <1>1. PICK op \in {Op.Jump, Op.JumpIfFalse} :
           /\ Carry(op, Pop(Pops(op)), IF Jumps THEN JumpsTo ELSE pc + 2)
           /\ UNCHANGED <<rule, stop, flags, wanted, timers, timeouts>>
    BY DEF Jump
  <1> DEFINE h == Height[rule][pc]
             ns == Pop(Pops(op))
             np == IF Jumps THEN JumpsTo ELSE pc + 2
  <1>2. Carry(op, ns, np)
    BY <1>1
  <1> HIDE DEF ns, np
  <1>3. /\ stack \in Seq(Int) /\ Executing /\ Running /\ Instruction = op
        /\ ~stop /\ Len(stack) >= h /\ h \in Nat
    BY <1>2, Carrying
  <1>4. Pushes(op) = 0 /\ Length(op) = 2 /\ Pops(op) \in 0 .. 1
        /\ (Pops(op) = 0 <=> op = Op.Jump)
    BY Arities, OpValues
  <1>5. Meets(rule, JumpsTo, h - Pops(op)) /\ h - Pops(op) \in Nat
    BY <1>3, Decoded
  <1>6. op # Op.Jump => Meets(rule, pc + 2, h - Pops(op))
    <2>1. op # Op.Jump => Meets(rule, pc + Length(op), h - Pops(op) + Pushes(op))
      <3>1. op # Op.CallUserProcedure
        BY OpValues
      <3> QED
        BY <1>3, <3>1, Decoded
    <2>2. h - Pops(op) + Pushes(op) = h - Pops(op)
      BY <1>3, <1>4
    <2> HIDE DEF h
    <2> QED
      BY <1>4, <2>1, <2>2
  <1>7. Meets(rule, np, h - Pops(op))
    BY <1>3, <1>5, <1>6 DEF np, Jumps
  <1>8. ns \in {stack, Pop(1)} /\ (ns = stack <=> Pops(op) = 0)
    <2>1. CASE Pops(op) = 0
      <3>1. ns = SubSeq(stack, 1, Len(stack) - 0)
        BY <2>1 DEF ns, Pop
      <3>2. ns = stack
        BY <1>3, <3>1
      <3> QED
        BY <2>1, <3>2
    <2>2. CASE Pops(op) = 1
      <3>1. ns = Pop(1) /\ Len(stack) >= 1
        BY <1>3, <1>5, <2>2 DEF ns
      <3>2. ns # stack
        BY <1>3, <3>1 DEF Pop
      <3> QED
        BY <2>2, <3>1, <3>2
    <2> QED
      BY <1>4, <2>1, <2>2
  <1>9. /\ rule' = rule /\ stop' \in BOOLEAN /\ ~stop'
        /\ flags' \in [Flags -> Int] /\ wanted' \in [Devices -> Int]
        /\ timers' \in [Devices -> [on : Int, off : Int]]
        /\ timeouts' \in [TimeoutNos -> TimeoutStates]
    BY <1>1, <1>3, Kept
  <1> QED
    BY <1>2, <1>4, <1>7, <1>8, <1>9, Dropping DEF h

(* Statements that leave the stack alone.                                   *)
LEMMA Going ==
    ASSUME MachineInv, NEW op, NEW newPc, Carry(op, stack, newPc),
           Pops(op) = 0, Pushes(op) = 0, newPc = pc + Length(op),
           op \notin {Op.Jump, Op.CallUserProcedure},
           rule' = rule, stop' \in BOOLEAN,
           stop' => Height[rule][pc] = 0 /\ StopDepth[rule] >= 0,
           flags' \in [Flags -> Int], wanted' \in [Devices -> Int],
           timers' \in [Devices -> [on : Int, off : Int]],
           timeouts' \in [TimeoutNos -> TimeoutStates]
    PROVE  MachineInv'
  <1> DEFINE h == Height[rule][pc]
  <1>1. Executing /\ Running /\ Instruction = op /\ h \in Nat
    BY Carrying
  <1>2. Meets(rule, newPc, h - Pops(op) + Pushes(op))
    BY <1>1, Decoded
  <1>3. h - Pops(op) + Pushes(op) = h - 0
    BY <1>1
  <1>4. Meets(rule, newPc, h - 0)
    <2> HIDE DEF h
    <2> QED
      BY <1>2, <1>3
  <1>5. 0 \in 0 .. 1 /\ stack \in {stack, Pop(1)}
    OBVIOUS
  <1> QED
    BY <1>4, <1>5, Dropping

LEMMA SetDeviceStateInv ==
    ASSUME MachineInv, SetDeviceState
    PROVE  MachineInv'
  <1> DEFINE op == Op.SetDeviceState
  <1>1. Carry(op, stack, pc + 7)
    BY DEF SetDeviceState
  <1>2. Pops(op) = 0 /\ Pushes(op) = 0 /\ Length(op) = 7
        /\ op \notin {Op.Jump, Op.CallUserProcedure}
    BY Arities, OpValues
  <1>3. TypeOK /\ ~stop /\ \A k \in 1 .. Length(op) - 1 : Parameter(k) \in Int
    BY <1>1, Carrying
  <1>4. Parameter(2) \in Int /\ Parameter(5) \in Int /\ Parameter(6) \in Int
    BY <1>2, <1>3
  <1>5. wanted' \in [Devices -> Int]
    <2>1. \A old \in Int : Wish(old, Parameter(2), Parameter(5)) \in Int
      BY <1>4 DEF Wish
    <2>2. wanted' = [wanted EXCEPT ![Parameter(1)] = Wish(@, Parameter(2), Parameter(5))]
      BY DEF SetDeviceState
    <2> QED
      BY <1>3, <2>1, <2>2 DEF TypeOK
  <1>6. timers' \in [Devices -> [on : Int, off : Int]]
    <2> DEFINE t == Timers(Parameter(2), Parameter(5), Parameter(6))
    <2>1. t \in [on : Int, off : Int]
      BY <1>4 DEF Timers, Never
    <2>2. timers' = [timers EXCEPT ![Parameter(1)] = t]
      BY DEF SetDeviceState
    <2> HIDE DEF t
    <2> QED
      BY <1>3, <2>1, <2>2 DEF TypeOK
  <1>7. /\ rule' = rule /\ stop' \in BOOLEAN /\ ~stop'
        /\ flags' \in [Flags -> Int] /\ timeouts' \in [TimeoutNos -> TimeoutStates]
    BY <1>3 DEF SetDeviceState, TypeOK
  <1> HIDE DEF op
  <1> QED
    BY <1>1, <1>2, <1>5, <1>6, <1>7, Going

LEMMA ResetTimeoutInv ==
    ASSUME MachineInv, ResetTimeout
    PROVE  MachineInv'
  <1> DEFINE op == Op.ResetTimeout
  <1>1. Carry(op, stack, pc + 3)
    BY DEF ResetTimeout
  <1>2. Pops(op) = 0 /\ Pushes(op) = 0 /\ Length(op) = 3
        /\ op \notin {Op.Jump, Op.CallUserProcedure}
    BY Arities, OpValues
  <1>3. TypeOK /\ ~stop
    BY <1>1, Carrying
  <1>4. /\ rule' = rule /\ stop' \in BOOLEAN /\ ~stop'
        /\ flags' \in [Flags -> Int] /\ wanted' \in [Devices -> Int]
        /\ timers' \in [Devices -> [on : Int, off : Int]]
    BY <1>3 DEF ResetTimeout, TypeOK
  <1>5. timeouts' \in [TimeoutNos -> TimeoutStates]
    BY <1>3 DEF ResetTimeout, TypeOK, TimeoutStates
  <1> HIDE DEF op
  <1> QED
    BY <1>1, <1>2, <1>4, <1>5, Going

LEMMA RefreshDevicesInv ==
    ASSUME MachineInv, RefreshDevices
    PROVE  MachineInv'
  <1> DEFINE op == Op.RefreshDevices
  <1>1. /\ Carry(op, stack, pc + 1)
        /\ UNCHANGED <<rule, stop, flags, wanted, timers, timeouts>>
    BY DEF RefreshDevices
  <1>2. Pops(op) = 0 /\ Pushes(op) = 0 /\ Length(op) = 1
        /\ op \notin {Op.Jump, Op.CallUserProcedure}
    BY Arities, OpValues
  <1>3. ~stop
    BY <1>1, Carrying
  <1>4. /\ rule' = rule /\ stop' \in BOOLEAN /\ ~stop'
        /\ flags' \in [Flags -> Int] /\ wanted' \in [Devices -> Int]
        /\ timers' \in [Devices -> [on : Int, off : Int]]
        /\ timeouts' \in [TimeoutNos -> TimeoutStates]
    BY <1>1, <1>3, Kept
  <1> HIDE DEF op
  <1> QED
    BY <1>1, <1>2, <1>4, Going

\* However many timeouts turn, each is in one of its states.
LEMMA TurnsType ==
    ASSUME timeouts \in [TimeoutNos -> TimeoutStates], NEW ts,
           NEW before, NEW after \in TimeoutStates, Turns(ts, before, after)
    PROVE  timeouts' \in [TimeoutNos -> TimeoutStates]
  BY DEF Turns

LEMMA ClockIsSetType ==
    ASSUME timeouts \in [TimeoutNos -> TimeoutStates], ClockIsSet
    PROVE  timeouts' \in [TimeoutNos -> TimeoutStates]
  <1>1. "pending" \in TimeoutStates /\ "due" \in TimeoutStates
    BY DEF TimeoutStates
  <1> QED
    BY <1>1, TurnsType DEF ClockIsSet

LEMMA ResynchClockInv ==
    ASSUME MachineInv, ResynchClock
    PROVE  MachineInv'
  <1> DEFINE op == Op.ResynchClock
  <1>1. /\ Carry(op, stack, pc + 1) /\ ClockIsSet
        /\ UNCHANGED <<rule, stop, flags, wanted, timers>>
    BY DEF ResynchClock
  <1>2. Pops(op) = 0 /\ Pushes(op) = 0 /\ Length(op) = 1
        /\ op \notin {Op.Jump, Op.CallUserProcedure}
    BY Arities, OpValues
  <1>3. TypeOK /\ ~stop
    BY <1>1, Carrying
  <1>4. timeouts' \in [TimeoutNos -> TimeoutStates]
    BY <1>1, <1>3, ClockIsSetType DEF TypeOK
  <1>5. /\ rule' = rule /\ stop' \in BOOLEAN /\ ~stop'
        /\ flags' \in [Flags -> Int] /\ wanted' \in [Devices -> Int]
        /\ timers' \in [Devices -> [on : Int, off : Int]]
    BY <1>1, <1>3 DEF TypeOK
  <1> HIDE DEF op
  <1> QED
    BY <1>1, <1>2, <1>4, <1>5, Going

LEMMA StopInv ==
    ASSUME MachineInv, Stop
    PROVE  MachineInv'
  <1> DEFINE op == Op.Stop
  <1>1. Carry(op, stack, pc + 1)
    BY DEF Stop
  <1>2. Pops(op) = 0 /\ Pushes(op) = 0 /\ Length(op) = 1
        /\ op \notin {Op.Jump, Op.CallUserProcedure}
    BY Arities, OpValues
  <1>3. /\ TypeOK /\ Executing /\ Running /\ Instruction = op /\ rule \in Actions
        /\ pc \in 0 .. Size - 1
    BY <1>1, Carrying
  <1>4. Height[rule][pc] = 0
    BY <1>2, <1>3, Decoded
  <1>5. StopDepth[rule] >= 0
    <2>1. pc \in DOMAIN Height[rule] /\ pc # Len(Code[rule])
      BY <1>3, CodeFacts DEF Running, Executing, Size
    <2> QED
      BY <1>3, <2>1, CodeFacts DEF CallsAreCounted, Instruction
  <1>6. /\ rule' = rule /\ stop' \in BOOLEAN
        /\ flags' \in [Flags -> Int] /\ wanted' \in [Devices -> Int]
        /\ timers' \in [Devices -> [on : Int, off : Int]]
        /\ timeouts' \in [TimeoutNos -> TimeoutStates]
    BY <1>3 DEF Stop, TypeOK
  <1> HIDE DEF op
  <1> QED
    BY <1>1, <1>2, <1>4, <1>5, <1>6, Going

LEMMA CallType ==
    ASSUME NEW s \in Seq(Int), NEW a \in Int, NEW b \in Int
    PROVE  /\ s \o <<a, b>> \in Seq(Int) /\ Len(s \o <<a, b>>) = Len(s) + 2
           /\ \A i \in 1 .. Len(s) : (s \o <<a, b>>)[i] = s[i]
           /\ (s \o <<a, b>>)[Len(s) + 1] = a /\ (s \o <<a, b>>)[Len(s) + 2] = b
  OBVIOUS

LEMMA CallUserProcedureInv ==
    ASSUME MachineInv, CallUserProcedure
    PROVE  MachineInv'
  <1> DEFINE op == Op.CallUserProcedure
             callee == Parameter(1)
             ns == stack \o <<pc + 2, rule>>
  <1>1. Carry(op, ns, 0)
    BY DEF CallUserProcedure
  <1> HIDE DEF ns
  <1>2. Pops(op) = 0 /\ Pushes(op) = 2 /\ Length(op) = 2 /\ op # Op.Jump
    BY Arities, OpValues
  <1>3. /\ status = "running" /\ status' = status /\ begun' = begun /\ ~stop
        /\ TypeOK /\ Executing /\ Running /\ Instruction = op /\ rule \in Actions
        /\ pc \in 0 .. Size - 1 /\ stack' = ns /\ pc' = 0
        /\ stack \in Seq(Int) /\ Len(stack) - Pops(op) + Pushes(op) < StackSize
    BY <1>1, Carrying
  <1>4. /\ callee \in Actions /\ Height[rule][pc] = 0
        /\ Meets(rule, pc + 2, 0)
    <2>1. Length(op) > 1 /\ op = Op.CallUserProcedure
      BY <1>2
    <2>2. Height[rule][pc] = Pops(op) /\ OperandIsSound(op, callee)
      BY <1>3, <2>1, Decoded
    <2>3. Meets(rule, pc + Length(op), 0)
      BY <1>2, <1>3, <2>1, Decoded
    <2> QED
      BY <1>2, <2>2, <2>3 DEF OperandIsSound, Actions
  <1>5. /\ pc \in Int /\ rule \in Int /\ Code[rule][pc + 1] = op
        /\ Code[rule][pc + 2] = callee /\ Meets(callee, 0, 0)
        /\ StackNeed[rule] \in Nat /\ StackNeed[callee] \in Nat
        /\ StopDepth[rule] \in Int /\ StopDepth[callee] \in Int
    <2>1. pc \in Int /\ rule \in Int /\ Code[rule][pc + 1] = op
      BY <1>3, CodeFacts DEF Instruction
    <2>2. callee = Code[rule][pc + 2]
      BY <2>1 DEF Parameter
    <2>3. Meets(callee, 0, 0)
      BY <1>4, CodeFacts DEF ActionIsSound
    <2> QED
      BY <1>3, <1>4, <2>1, <2>2, <2>3, CodeFacts
  <1>6. CallIsCounted(rule, pc)
    <2>1. pc \in DOMAIN Height[rule] /\ pc # Len(Code[rule])
      BY <1>3, CodeFacts DEF Running, Executing, Size
    <2> QED
      BY <1>3, <1>5, <2>1, CodeFacts DEF CallsAreCounted
  <1> HIDE DEF callee
  <1>7. rule' = callee /\ stop' = stop
        /\ UNCHANGED <<flags, wanted, timers, timeouts>>
    BY DEF CallUserProcedure, callee
  <1>8. PICK n \in 0 .. Len(stack) : CallsDown(n)
    BY <1>3 DEF MachineInv, Running
  <1>9. Len(stack) = 2 * n /\ n \in Nat
    BY <1>3, <1>4, <1>8 DEF CallsDown
  <1>10. /\ stack' \in Seq(Int) /\ Len(stack') = 2 * (n + 1)
         /\ \A i \in 1 .. 2 * n : stack'[i] = stack[i]
         /\ stack'[2 * n + 1] = pc + 2 /\ stack'[2 * n + 2] = rule
    <2>1. ns = stack \o <<pc + 2, rule>> /\ pc + 2 \in Int
      BY <1>5 DEF ns
    <2>2. /\ ns \in Seq(Int) /\ Len(ns) = Len(stack) + 2
          /\ \A i \in 1 .. Len(stack) : ns[i] = stack[i]
          /\ ns[Len(stack) + 1] = pc + 2 /\ ns[Len(stack) + 2] = rule
      BY <1>3, <1>5, <2>1, CallType
    <2> QED
      BY <1>3, <1>9, <2>2
  <1>11. /\ \A i \in 1 .. n : stack'[2 * i] = stack[2 * i] /\ stack'[2 * i - 1] = stack[2 * i - 1]
         /\ stack'[2 * (n + 1)] = rule /\ stack'[2 * (n + 1) - 1] = pc + 2
    BY <1>9, <1>10
  <1>12. IsAddress(pc + 2, rule)
    BY <1>3, <1>4, <1>5 DEF IsAddress
  <1>13. Frames(n + 1)'
    <2> SUFFICES ASSUME NEW i \in 1 .. n + 1
                 PROVE  IsAddress(stack'[2 * i - 1], stack'[2 * i])
      BY DEF Frames, IsAddress, Meets
    <2>1. CASE i = n + 1
      BY <2>1, <1>11, <1>12
    <2>2. CASE i \in 1 .. n
      BY <2>2, <1>8, <1>11 DEF CallsDown, Frames
    <2> QED
      BY <1>9, <2>1, <2>2
  <1>14. begun.stack = <<>> => Chain(n + 1)'
    <2> SUFFICES ASSUME begun.stack = <<>> PROVE Chain(n + 1)'
      OBVIOUS
    <2>1. Chain(n)
      BY <1>8 DEF CallsDown
    <2>2. \A i \in 0 .. n : RoutineAt(i, n + 1)' = RoutineAt(i, n)
      <3> TAKE i \in 0 .. n
      <3>1. CASE i = n
        BY <3>1, <1>9, <1>10 DEF RoutineAt
      <3>2. CASE i \in 0 .. n - 1
        <4>1. i + 1 \in 1 .. n
          BY <3>2, <1>9
        <4>2. stack'[2 * (i + 1)] = stack[2 * (i + 1)]
          BY <4>1, <1>11
        <4> QED
          BY <3>2, <4>2, <1>9 DEF RoutineAt
      <3> QED
        BY <1>9, <3>1, <3>2
    <2>3. RoutineAt(n + 1, n + 1)' = callee
      BY <1>7 DEF RoutineAt
    <2>4. WithinRule(callee, n + 1)
      <3>1. WithinRule(rule, n)
        BY <2>1, <1>9 DEF Chain, RoutineAt
      <3>2. /\ StackNeed[rule] >= 2 + StackNeed[callee]
            /\ StopDepth[callee] >= 0 => StopDepth[rule] >= 1 + StopDepth[callee]
        BY <1>5, <1>6 DEF CallIsCounted
      <3>3. StackNeed[begun.rule] \in Nat /\ StopDepth[begun.rule] \in Int
        BY <2>1, CodeFacts DEF Chain
      <3> QED
        <4>1. 2 * (n + 1) + StackNeed[callee] <= StackNeed[begun.rule]
          BY <3>1, <3>2, <3>3, <1>5, <1>9 DEF WithinRule
        <4>2. ASSUME StopDepth[callee] >= 0
              PROVE  n + 1 + StopDepth[callee] <= StopDepth[begun.rule]
          <5>1. StopDepth[rule] >= 1 + StopDepth[callee] /\ StopDepth[rule] >= 0
            BY <4>2, <3>2, <1>5
          <5>2. n + StopDepth[rule] <= StopDepth[begun.rule]
            BY <5>1, <3>1 DEF WithinRule
          <5> QED
            BY <5>1, <5>2, <3>3, <1>5, <1>9
        <4> QED
          BY <4>1, <4>2 DEF WithinRule
    <2>5. \A i \in 0 .. n + 1 : WithinRule(RoutineAt(i, n + 1), i)'
      <3> SUFFICES ASSUME NEW i \in 0 .. n + 1
                   PROVE  WithinRule(RoutineAt(i, n + 1)', i)
        BY <1>3 DEF WithinRule
      <3>1. CASE i = n + 1
        BY <3>1, <2>3, <2>4
      <3>2. CASE i \in 0 .. n
        BY <3>2, <2>1, <2>2 DEF Chain
      <3> QED
        BY <1>9, <3>1, <3>2
    <2>6. \A i \in 1 .. n + 1 :
             Code[stack'[2 * i]][stack'[2 * i - 1]] = RoutineAt(i, n + 1)'
      <3> TAKE i \in 1 .. n + 1
      <3>1. CASE i = n + 1
        BY <3>1, <2>3, <1>5, <1>11
      <3>2. CASE i \in 1 .. n
        BY <3>2, <2>1, <2>2, <1>11 DEF Chain
      <3> QED
        BY <1>9, <3>1, <3>2
    <2> QED
      BY <2>1, <2>5, <2>6, <1>3 DEF Chain
  <1>15. pc' \in DOMAIN Height[rule'] /\ Height[rule'][pc'] = 0 /\ rule' \in Actions
    BY <1>3, <1>4, <1>5, <1>7 DEF Meets
  <1>16. CallsDown(n + 1)' /\ n + 1 \in 0 .. Len(stack')
    <2>1. Len(stack') = 2 * (n + 1) + Height[rule'][pc']
      BY <1>9, <1>10, <1>15
    <2> QED
      BY <2>1, <1>3, <1>9, <1>10, <1>13, <1>14 DEF CallsDown
  <1>17. Running'
    BY <1>3, <1>7, <1>15, <1>16 DEF Running
  <1>18. TypeOK'
    <2>1. Len(stack') < StackSize
      BY <1>2, <1>3, <1>9, <1>10
    <2>2. pc' \in 0 .. Size'
      BY <1>3, <1>15, CodeFacts DEF Size
    <2>3. status' = "running" /\ begun'.rule = begun.rule /\ (stop' <=> stop) /\ stop' \in BOOLEAN
      BY <1>3, <1>7 DEF TypeOK
    <2> QED
      BY <1>3, <1>7, <1>10, <1>15, <2>1, <2>2, <2>3 DEF TypeOK
  <1> QED
    BY <1>3, <1>17, <1>18 DEF MachineInv, Between, AbortsForCause, LeftoversComeFromStop

(* Where a routine ends its values are off the stack.                       *)
LEMMA AtItsEnd ==
    ASSUME MachineInv, AtEnd
    PROVE  /\ status = "running" /\ rule \in Actions /\ Running /\ TypeOK
           /\ stack \in Seq(Int) /\ Height[rule][pc] = 0
           /\ stop \/ pc = Size
           /\ stop => StopDepth[rule] >= 0
           /\ \E n \in Nat : Len(stack) = 2 * n /\ CallsDown(n)
  <1>1. /\ status = "running" /\ rule \in Actions /\ Running /\ TypeOK
        /\ stack \in Seq(Int) /\ Len(stack) \in Nat
        /\ Size \in Nat /\ pc \in 0 .. Size /\ Height[rule][Size] = 0
    BY WhereItIs DEF AtEnd, MachineInv, TypeOK
  <1>2. stop \/ pc = Size
    BY <1>1 DEF AtEnd
  <1>3. Height[rule][pc] = 0 /\ (stop => StopDepth[rule] >= 0)
    BY <1>1, <1>2 DEF Running
  <1>4. PICK n \in 0 .. Len(stack) : CallsDown(n)
    BY <1>1 DEF Running
  <1>5. n \in Nat /\ Len(stack) = 2 * n
    BY <1>1, <1>3, <1>4 DEF CallsDown
  <1> QED
    BY <1>1, <1>2, <1>3, <1>4, <1>5

LEMMA ReturnInv ==
    ASSUME MachineInv, Return
    PROVE  MachineInv'
  <1>1. /\ status = "running" /\ rule \in Actions /\ Running /\ TypeOK
        /\ stack \in Seq(Int) /\ Len(stack) \in Nat /\ Height[rule][pc] = 0
        /\ stop => StopDepth[rule] >= 0
    BY AtItsEnd DEF Return
  <1>2. PICK n \in Nat : Len(stack) = 2 * n /\ CallsDown(n)
    BY AtItsEnd DEF Return
  <1>3. /\ rule' = stack[2 * n] /\ pc' = stack[2 * n - 1]
        /\ stack' = SubSeq(stack, 1, Len(stack) - 2)
        /\ status' = (IF stop THEN "idle" ELSE "running")
        /\ stop' = stop /\ UNCHANGED <<flags, wanted, timers, timeouts, begun>>
        /\ n >= 1
    BY <1>1, <1>2 DEF Return, Top, Next2, Pop
  <1> DEFINE m == n - 1
  <1>4. m \in Nat /\ n = m + 1 /\ n \in 1 .. n
    BY <1>2, <1>3
  <1> HIDE DEF m
  <1>5. /\ stack' \in Seq(Int) /\ Len(stack') = 2 * m
        /\ \A i \in 1 .. 2 * m : stack'[i] = stack[i]
    <2>1. 2 \in 0 .. Len(stack)
      BY <1>2, <1>3
    <2>2. Len(stack) - 2 = 2 * m
      BY <1>2, <1>4
    <2> QED
      BY <1>1, <1>3, <2>1, <2>2, PopType
  <1>6. \A i \in 1 .. m : stack'[2 * i] = stack[2 * i] /\ stack'[2 * i - 1] = stack[2 * i - 1]
    BY <1>4, <1>5
  <1>7. IsAddress(pc', rule')
    BY <1>2, <1>3, <1>4 DEF CallsDown, Frames
  <1>8. pc' \in DOMAIN Height[rule'] /\ Height[rule'][pc'] = 0 /\ rule' \in Actions
    BY <1>7 DEF IsAddress, Meets
  <1>9. Frames(m)'
    <2> SUFFICES ASSUME NEW i \in 1 .. m
                 PROVE  IsAddress(stack'[2 * i - 1], stack'[2 * i])
      BY DEF Frames, IsAddress, Meets
    <2>1. i \in 1 .. n
      BY <1>4
    <2> QED
      BY <2>1, <1>2, <1>6 DEF CallsDown, Frames
  <1>10. begun.stack = <<>> => Chain(m)'
    <2> SUFFICES ASSUME begun.stack = <<>> PROVE Chain(m)'
      OBVIOUS
    <2>1. Chain(n)
      BY <1>2 DEF CallsDown
    <2>2. \A i \in 0 .. m : i \in 0 .. n /\ RoutineAt(i, m)' = RoutineAt(i, n)
      <3> TAKE i \in 0 .. m
      <3>1. i \in 0 .. n /\ i # n
        BY <1>4
      <3>2. CASE i = m
        BY <3>1, <3>2, <1>3, <1>4 DEF RoutineAt
      <3>3. CASE i \in 0 .. m - 1
        <4>1. i + 1 \in 1 .. m
          BY <3>3, <1>4
        <4>2. stack'[2 * (i + 1)] = stack[2 * (i + 1)]
          BY <4>1, <1>6
        <4> QED
          BY <3>1, <3>3, <4>2, <1>4 DEF RoutineAt
      <3> QED
        BY <1>4, <3>1, <3>2, <3>3
    <2>3. \A i \in 0 .. m : WithinRule(RoutineAt(i, m), i)'
      <3> SUFFICES ASSUME NEW i \in 0 .. m
                   PROVE  WithinRule(RoutineAt(i, m)', i)
        BY <1>3 DEF WithinRule
      <3> QED
        BY <2>1, <2>2 DEF Chain
    <2>4. \A i \in 1 .. m :
             Code[stack'[2 * i]][stack'[2 * i - 1]] = RoutineAt(i, m)'
      <3> TAKE i \in 1 .. m
      <3>1. i \in 0 .. m /\ i \in 1 .. n
        BY <1>4
      <3> QED
        BY <3>1, <2>1, <2>2, <1>6 DEF Chain
    <2> QED
      BY <2>1, <2>3, <2>4, <1>3 DEF Chain
  <1>11. m \in 0 .. Len(stack')
    BY <1>4, <1>5
  <1>12. TypeOK'
    <2>1. Len(stack') < StackSize
      BY <1>1, <1>2, <1>4, <1>5, StackAssumption DEF TypeOK
    <2>2. pc' \in 0 .. Size'
      BY <1>8, CodeFacts DEF ActionIsSound, Size
    <2>3. status' \in {"idle", "running"}
      BY <1>3
    <2>4. stop' \in BOOLEAN
      BY <1>1, <1>3 DEF TypeOK
    <2> QED
      BY <1>1, <1>3, <1>5, <1>8, <2>1, <2>2, <2>3, <2>4 DEF TypeOK
  <1>13. CASE stop
    <2>1. status' = "idle"
      BY <1>3, <1>13
    <2>2. Between'
      BY <1>5, <1>9, <1>11 DEF Between
    <2>3. LeftoversComeFromStop'
      <3> SUFFICES ASSUME begun.stack = <<>>
                   PROVE  Len(stack') <= 2 * (StopDepth[begun.rule] - 1)
        BY <1>3 DEF LeftoversComeFromStop
      <3>1. Chain(n)
        BY <1>2 DEF CallsDown
      <3>2. WithinRule(rule, n) /\ StopDepth[begun.rule] \in Int
        BY <3>1, CodeFacts DEF Chain, RoutineAt
      <3>3. n + StopDepth[rule] <= StopDepth[begun.rule] /\ StopDepth[rule] >= 0
            /\ StopDepth[rule] \in Int
        BY <3>2, <1>1, <1>13, CodeFacts DEF WithinRule
      <3> QED
        BY <3>2, <3>3, <1>4, <1>5
    <2> QED
      BY <2>1, <2>2, <2>3, <1>12 DEF MachineInv, Running, AbortsForCause
  <1>14. CASE ~stop
    <2>1. status' = "running"
      BY <1>3, <1>14
    <2>2. CallsDown(m)'
      <3>1. Len(stack') = 2 * m + Height[rule'][pc']
        BY <1>4, <1>5, <1>8
      <3> QED
        BY <3>1, <1>3, <1>9, <1>10 DEF CallsDown
    <2>3. Running'
      BY <2>2, <1>3, <1>8, <1>11, <1>14 DEF Running
    <2> QED
      BY <2>1, <2>3, <1>12 DEF MachineInv, Between, AbortsForCause, LeftoversComeFromStop
  <1> QED
    BY <1>13, <1>14

LEMMA FinishInv ==
    ASSUME MachineInv, Finish
    PROVE  MachineInv'
  <1>1. /\ status' = "idle" /\ Len(stack) = 0 /\ stack \in Seq(Int) /\ TypeOK
        /\ UNCHANGED <<rule, pc, stack, flags, wanted, timers, timeouts, begun>>
    BY DEF Finish, MachineInv, TypeOK
  <1>2. stack = <<>> /\ stack' = <<>>
    BY <1>1
  <1>3. stop' = TRUE
    BY DEF Finish
  <1>4. TypeOK'
    BY <1>1, <1>3 DEF TypeOK, Size
  <1>5. Between'
    <2>1. 0 \in 0 .. Len(stack') /\ Len(stack') = 2 * 0
      BY <1>1
    <2>2. Frames(0)'
      BY DEF Frames
    <2> QED
      BY <2>1, <2>2 DEF Between
  <1> QED
    BY <1>1, <1>2, <1>4, <1>5 DEF MachineInv, Running, AbortsForCause, LeftoversComeFromStop

(* The instruction whose assertion ends the program.                        *)
LEMMA AbortedForCause ==
    ASSUME MachineInv, Executing, AssertionFails, begun.stack = <<>>
    PROVE  \/ StackNeed[begun.rule] >= StackSize
           \/ Instruction \in {Op.Divide, Op.Modulus} /\ Next2 = 0
           \/ Instruction = Op.SetDeviceState
              /\ ~WishIsSound(Parameter(2), Parameter(5), Parameter(6))
  <1> DEFINE h == Height[rule][pc]
             op == Instruction
  <1>1. /\ Running /\ rule \in Actions /\ stack \in Seq(Int) /\ Size \in Nat
        /\ h \in 0 .. StackNeed[rule] /\ StackNeed[rule] \in Nat /\ h \in Nat
        /\ pc \in DOMAIN Height[rule] /\ pc \in 0 .. Size - 1
    BY WhereItIs, CodeFacts DEF MachineInv, Executing, TypeOK, Running
  <1>2. op \in Carried /\ h - Pops(op) \in Nat
    BY <1>1, Decoded
  <1>3. op \in {Op[name] : name \in DOMAIN Op}
    BY <1>2, CarriedAreInstructions
  <1>4. op \notin {Op.JumpIfTrue, Op.CallSystemProcedure, Op.ReturnFromUserProcedure}
    BY <1>2, CarriedAreNot
  <1>5. PICK n \in 0 .. Len(stack) : CallsDown(n)
    BY <1>1 DEF Running, Executing
  <1>6. Len(stack) = 2 * n + h /\ n \in Nat /\ Chain(n)
    BY <1>1, <1>5 DEF CallsDown
  <1>7. WithinRule(rule, n) /\ StackNeed[begun.rule] \in Nat
    BY <1>6, CodeFacts DEF Chain, RoutineAt
  <1>8. 2 * n + StackNeed[rule] <= StackNeed[begun.rule]
    BY <1>7 DEF WithinRule
  <1>9. Pops(op) \in Nat /\ Pushes(op) \in Nat
    BY DEF Pops, Pushes
  <1>10. ~(Len(stack) < Pops(op))
    <2> HIDE DEF op, h
    <2> QED
      BY <1>1, <1>2, <1>6, <1>9
  <1>11. CASE Len(stack) - Pops(op) + Pushes(op) >= StackSize
    <2>1. Len(stack) - Pops(op) + Pushes(op) <= StackNeed[begun.rule]
      <3>1. CASE op = Op.CallUserProcedure
        <4>1. h = 0 /\ Pops(op) = 0 /\ Pushes(op) = 2
          BY <1>1, <3>1, Decoded, Arities
        <4>2. CallIsCounted(rule, pc) /\ Code[rule][pc + 2] \in Actions
          <5>1. pc # Len(Code[rule]) /\ Code[rule][pc + 1] = Op.CallUserProcedure
            BY <1>1, <3>1 DEF Size, Instruction
          <5>2. CallIsCounted(rule, pc)
            BY <1>1, <5>1, CodeFacts DEF CallsAreCounted
          <5>3. OperandIsSound(op, Parameter(1)) /\ Parameter(1) = Code[rule][pc + 2]
            <6>1. Length(op) > 1
              BY <3>1, Arities
            <6> QED
              BY <1>1, <6>1, Decoded DEF Parameter
          <5> QED
            BY <3>1, <5>2, <5>3 DEF OperandIsSound, Actions
        <4>3. StackNeed[Code[rule][pc + 2]] \in Nat
          BY <4>2, CodeFacts
        <4>4. StackNeed[rule] >= 2
          BY <4>2, <4>3, <1>1 DEF CallIsCounted
        <4> HIDE DEF op, h
        <4> QED
          BY <4>1, <4>4, <1>1, <1>6, <1>7, <1>8
      <3>2. CASE op = Op.Jump
        <4>1. Pops(op) = 0 /\ Pushes(op) = 0
          BY <3>2, Arities
        <4> HIDE DEF op, h
        <4> QED
          BY <4>1, <1>1, <1>6, <1>7, <1>8
      <3>3. CASE op \notin {Op.CallUserProcedure, Op.Jump}
        <4>1. Meets(rule, pc + Length(op), h - Pops(op) + Pushes(op))
          BY <1>1, <3>3, Decoded
        <4>2. h - Pops(op) + Pushes(op) <= StackNeed[rule]
          BY <4>1, <1>1, CodeFacts DEF Meets, ActionIsSound
        <4> HIDE DEF op, h
        <4>3. Len(stack) - Pops(op) + Pushes(op) = 2 * n + (h - Pops(op) + Pushes(op))
          BY <1>1, <1>6, <1>9
        <4>4. h - Pops(op) + Pushes(op) \in Int
          BY <1>1, <1>9
        <4>5. 2 * n + (h - Pops(op) + Pushes(op)) <= 2 * n + StackNeed[rule]
          BY <4>2, <4>4, <1>1, <1>6
        <4> QED
          BY <4>3, <4>4, <4>5, <1>1, <1>6, <1>7, <1>8
      <3> QED
        BY <3>1, <3>2, <3>3
    <2> HIDE DEF op
    <2> QED
      BY <2>1, <1>1, <1>7, <1>9, <1>11, StackAssumption
  <1>12. ~(op \in {Op.Jump, Op.JumpIfFalse} /\ Jumps /\ JumpsTo \notin 0 .. Size)
    <2> SUFFICES ASSUME op \in {Op.Jump, Op.JumpIfFalse} PROVE JumpsTo \in 0 .. Size
      OBVIOUS
    <2>1. JumpsTo \in DOMAIN Height[rule]
      BY <1>1, Decoded DEF Meets
    <2> QED
      BY <1>1, <2>1, CodeFacts DEF ActionIsSound, Size
  <1> HIDE DEF h
  <1> QED
    BY <1>3, <1>4, <1>10, <1>11, <1>12 DEF AssertionFails

LEMMA AbortInv ==
    ASSUME MachineInv, Abort
    PROVE  MachineInv'
  <1>1. /\ status = "running" /\ status' = "aborted" /\ ~stop /\ pc \in 0 .. Size - 1
        /\ Executing /\ AssertionFails
        /\ UNCHANGED <<rule, pc, stop, stack, flags, wanted, timers, timeouts, begun>>
    BY DEF Abort, Executing, machine
  <1>2. TypeOK' /\ Size \in Nat /\ pc < Size
    <2>1. TypeOK /\ Running
      BY DEF MachineInv
    <2>2. Size \in Nat
      BY <1>1, <2>1, WhereItIs
    <2> QED
      BY <1>1, <2>1, <2>2 DEF TypeOK, Size
  <1>3. Running'
    <2>1. \A n : CallsDown(n) => CallsDown(n)'
      BY <1>1 DEF CallsDown, Frames, IsAddress, Chain, WithinRule, RoutineAt
    <2> QED
      BY <1>1, <2>1 DEF MachineInv, Running
  <1>4. AbortsForCause'
    <2>1. begun.stack = <<>> =>
             \/ StackNeed[begun.rule] >= StackSize
             \/ Instruction \in {Op.Divide, Op.Modulus} /\ Next2 = 0
             \/ Instruction = Op.SetDeviceState
                /\ ~WishIsSound(Parameter(2), Parameter(5), Parameter(6))
      BY <1>1, AbortedForCause
    <2> QED
      BY <1>1, <1>2, <2>1 DEF AbortsForCause, Instruction, Parameter, Next2, Size
  <1> QED
    BY <1>1, <1>2, <1>3, <1>4 DEF MachineInv, Between, LeftoversComeFromStop

LEMMA EndAssertsInv ==
    ASSUME MachineInv, EndAsserts
    PROVE  MachineInv'
  <1>1. /\ status = "running" /\ rule \in Actions /\ Running /\ TypeOK
        /\ stack \in Seq(Int) /\ Len(stack) \in Nat /\ Height[rule][pc] = 0
        /\ stop \/ pc = Size
        /\ stop => StopDepth[rule] >= 0
    BY AtItsEnd DEF EndAsserts
  <1>2. PICK n \in Nat : Len(stack) = 2 * n /\ CallsDown(n)
    BY AtItsEnd DEF EndAsserts
  <1>3. /\ status' = "aborted"
        /\ UNCHANGED <<rule, pc, stop, stack, flags, wanted, timers, timeouts, begun>>
    BY DEF EndAsserts, machine
  <1>4. Len(stack) = 0 /\ pc # Size
    <2>1. IF Len(stack) >= 2 THEN Len(stack) % 2 = 1 ELSE Len(stack) # 0 \/ pc # Size
      BY DEF EndAsserts
    <2>2. Len(stack) % 2 = 0
      BY <1>2
    <2>3. Len(stack) < 2 => Len(stack) = 0
      BY <1>2
    <2> QED
      BY <1>1, <2>1, <2>2, <2>3
  <1>5. TypeOK'
    BY <1>1, <1>3 DEF TypeOK, Size
  <1>6. Running'
    <2>1. \A k : CallsDown(k) => CallsDown(k)'
      BY <1>3 DEF CallsDown, Frames, IsAddress, Chain, WithinRule, RoutineAt
    <2> QED
      BY <1>1, <1>3, <2>1 DEF Running
  <1>7. AbortsForCause'
    <2> SUFFICES ASSUME begun.stack = <<>>
                 PROVE  stop /\ stack = <<>> /\ StopDepth[begun.rule] >= 0
      BY <1>3 DEF AbortsForCause
    <2>1. stop /\ stack = <<>> /\ n = 0 /\ StopDepth[rule] >= 0 /\ StopDepth[rule] \in Int
      BY <1>1, <1>2, <1>4, CodeFacts
    <2>2. WithinRule(rule, 0) /\ StopDepth[begun.rule] \in Int
      BY <1>2, <2>1, CodeFacts DEF CallsDown, Chain, RoutineAt
    <2> QED
      BY <2>1, <2>2 DEF WithinRule
  <1> QED
    BY <1>3, <1>5, <1>6, <1>7 DEF MachineInv, Between, LeftoversComeFromStop

LEMMA StartProgramInv ==
    ASSUME MachineInv, NEW r \in Actions, StartProgram(r)
    PROVE  MachineInv'
  <1>1. /\ status = "idle" /\ status' = "running" /\ rule' = r /\ pc' = 0 /\ stop' = FALSE
        /\ begun'.rule = r /\ begun'.stack = stack
        /\ UNCHANGED <<stack, flags, wanted, timers, timeouts>>
    BY DEF StartProgram
  <1>2. TypeOK /\ stack \in Seq(Int) /\ Len(stack) \in Nat
    BY DEF MachineInv, TypeOK
  <1>3. Meets(r, 0, 0) /\ Code[r] \in Seq(Int)
    BY CodeFacts DEF ActionIsSound
  <1>4. pc' \in DOMAIN Height[rule'] /\ Height[rule'][pc'] = 0
    BY <1>1, <1>3 DEF Meets
  <1>5. PICK n \in 0 .. Len(stack) : Len(stack) = 2 * n /\ Frames(n)
    BY <1>1 DEF MachineInv, Between
  <1>6. Frames(n)'
    BY <1>1, <1>5 DEF Frames, IsAddress
  <1>7. begun'.stack = <<>> => Chain(n)'
    <2> SUFFICES ASSUME stack = <<>> PROVE Chain(n)'
      BY <1>1
    <2>1. n = 0
      BY <1>5
    <2>2. RoutineAt(0, n)' = r
      BY <1>1, <2>1 DEF RoutineAt
    <2>3. WithinRule(r, 0)'
      BY <1>1, CodeFacts DEF WithinRule
    <2> QED
      BY <1>1, <2>1, <2>2, <2>3 DEF Chain, WithinRule
  <1>8. CallsDown(n)'
    <2>1. Len(stack') = 2 * n + Height[rule'][pc']
      BY <1>1, <1>2, <1>4, <1>5
    <2> QED
      BY <2>1, <1>6, <1>7 DEF CallsDown
  <1>9. Running'
    BY <1>1, <1>4, <1>5, <1>8 DEF Running
  <1>10. TypeOK'
    <2>1. /\ status' = "running" /\ rule' \in Actions /\ stop' \in BOOLEAN
          /\ begun'.rule \in Actions
      BY <1>1
    <2>2. pc' \in 0 .. Size'
      BY <1>1, <1>3 DEF Size
    <2>3. /\ stack' \in Seq(Int) /\ Len(stack') < StackSize
          /\ flags' \in [Flags -> Int] /\ wanted' \in [Devices -> Int]
          /\ timers' \in [Devices -> [on : Int, off : Int]]
          /\ timeouts' \in [TimeoutNos -> TimeoutStates]
      BY <1>1, <1>2 DEF TypeOK
    <2> QED
      BY <2>1, <2>2, <2>3 DEF TypeOK
  <1> QED
    BY <1>1, <1>9, <1>10 DEF MachineInv, Between, AbortsForCause, LeftoversComeFromStop

LEMMA MachineInitInv == Init => MachineInv
  <1> SUFFICES ASSUME Init PROVE MachineInv
    OBVIOUS
  <1>1. stack = <<>> /\ Len(stack) = 0 /\ stack \in Seq(Int) /\ status = "idle"
        /\ begun.rule = -1
    BY DEF Init
  <1>2. TypeOK
    <2>1. flags \in [Flags -> Int] /\ wanted \in [Devices -> Int]
      BY ValuesAssumption DEF Init
    <2>2. timers \in [Devices -> [on : Int, off : Int]]
      BY DEF Init, Never
    <2>3. rule = -1 /\ stop \in BOOLEAN /\ timeouts \in [TimeoutNos -> TimeoutStates]
      BY DEF Init, TimeoutStates
    <2> QED
      BY <1>1, <2>1, <2>2, <2>3, StackAssumption DEF TypeOK
  <1>3. Between
    <2>1. 0 \in 0 .. Len(stack) /\ Len(stack) = 2 * 0 /\ Frames(0)
      BY <1>1 DEF Frames
    <2> QED
      BY <2>1 DEF Between
  <1> QED
    BY <1>1, <1>2, <1>3 DEF MachineInv, Running, AbortsForCause, LeftoversComeFromStop

(* The machine as it is: nothing but flags, wishes and timeouts changes.     *)
LEMMA MachineAtRest ==
    ASSUME MachineInv, UNCHANGED <<status, rule, pc, stop, stack, begun>>,
           flags' \in [Flags -> Int], wanted' \in [Devices -> Int],
           timers' \in [Devices -> [on : Int, off : Int]], timeouts' \in [TimeoutNos -> TimeoutStates]
    PROVE  MachineInv'
  <1>1. TypeOK'
    <2>1. TypeOK
      BY DEF MachineInv
    <2>2. stop' \in BOOLEAN
      BY <2>1 DEF TypeOK
    <2> QED
      BY <2>1, <2>2 DEF TypeOK, Size
  <1>2. \A n : CallsDown(n) => CallsDown(n)'
    BY DEF CallsDown, Frames, IsAddress, Chain, WithinRule, RoutineAt
  <1>3. Running'
    BY <1>2 DEF MachineInv, Running
  <1>4. Between'
    BY DEF MachineInv, Between, Frames
  <1>5. AbortsForCause'
    BY DEF MachineInv, AbortsForCause, Instruction, Parameter, Next2, Size
  <1>6. LeftoversComeFromStop'
    BY DEF MachineInv, LeftoversComeFromStop
  <1> QED
    BY <1>1, <1>3, <1>4, <1>5, <1>6 DEF MachineInv

LEMMA MachineStepInv == MachineInv /\ [Next]_vars => MachineInv'
  <1> SUFFICES ASSUME MachineInv, [Next]_vars PROVE MachineInv'
    OBVIOUS
  <1>1. CASE ExecuteProgram
    BY <1>1, CalculateInv, PushInv, StoreVariableInv, SetDeviceStateInv,
       ResetTimeoutInv, JumpInv, CallUserProcedureInv, StopInv,
       RefreshDevicesInv, ResynchClockInv, ReturnInv, FinishInv, AbortInv, EndAssertsInv DEF ExecuteProgram
  <1>2. CASE \E r \in Actions : StartProgram(r)
    BY <1>2, StartProgramInv
  <1>3. TypeOK
    BY DEF MachineInv
  <1>4. CASE \E d \in Devices : WishChanges(d)
    <2>1. UNCHANGED <<status, rule, pc, stop, stack, begun, flags, timers, timeouts>>
      BY <1>4 DEF WishChanges, machine
    <2>2. wanted' \in [Devices -> Int]
      BY <1>3, <1>4, ValuesAssumption DEF WishChanges, TypeOK
    <2>3. /\ flags' \in [Flags -> Int] /\ timers' \in [Devices -> [on : Int, off : Int]]
          /\ timeouts' \in [TimeoutNos -> TimeoutStates]
      BY <1>3, <2>1 DEF TypeOK
    <2> QED
      BY <2>1, <2>2, <2>3, MachineAtRest
  <1>5. CASE (\E t \in TimeoutNos : Expire(t) \/ CheckTimeout(t)) \/ SetClock
    <2>1. UNCHANGED <<status, rule, pc, stop, stack, begun, flags, wanted, timers>>
      BY <1>5 DEF Expire, CheckTimeout, SetClock, machine
    <2>2. timeouts' \in [TimeoutNos -> TimeoutStates]
      <3>1. /\ timeouts \in [TimeoutNos -> TimeoutStates]
            /\ "due" \in TimeoutStates /\ "ended" \in TimeoutStates
        BY <1>3 DEF TypeOK, TimeoutStates
      <3> QED
        BY <1>5, <3>1, TurnsType, ClockIsSetType DEF Expire, CheckTimeout, SetClock
    <2>3. /\ flags' \in [Flags -> Int] /\ timers' \in [Devices -> [on : Int, off : Int]]
          /\ wanted' \in [Devices -> Int]
      BY <1>3, <2>1 DEF TypeOK
    <2> QED
      BY <2>1, <2>2, <2>3, MachineAtRest
  <1>6. CASE UNCHANGED vars
    <2>1. UNCHANGED <<status, rule, pc, stop, stack, begun, flags, wanted, timers, timeouts>>
      BY <1>6 DEF vars, machine
    <2>2. /\ flags' \in [Flags -> Int] /\ timers' \in [Devices -> [on : Int, off : Int]]
          /\ wanted' \in [Devices -> Int] /\ timeouts' \in [TimeoutNos -> TimeoutStates]
      BY <1>3, <2>1 DEF TypeOK
    <2> QED
      BY <2>1, <2>2, MachineAtRest
  <1> QED
    BY <1>1, <1>2, <1>4, <1>5, <1>6 DEF Next

LEMMA MachineInvariance == Spec => []MachineInv
  BY MachineInitInv, MachineStepInv, PTL DEF Spec

(* Every value of the machine is a number within its range, the counter is   *)
(* an entry of the action, and the stack never fills to its last place.      *)
THEOREM TypeCorrect == Spec => []TypeOK
  <1>1. MachineInv => TypeOK
    BY DEF MachineInv
  <1> QED
    BY <1>1, MachineInvariance, PTL

(* No assertion of the machine's own ends a program whose code is compiled   *)
(* soundly (vm.cpp:13-40, 314-335, 399-421).                                *)
THEOREM AbortsForCauseHolds == Spec => []AbortsForCause
  <1>1. MachineInv => AbortsForCause
    BY DEF MachineInv
  <1> QED
    BY <1>1, MachineInvariance, PTL

(* What a program leaves on the stack for the next is the calls between a    *)
(* Stop and the rule, but the last (vm.cpp:389-413).                        *)
THEOREM LeftoversComeFromStopHolds == Spec => []LeftoversComeFromStop
  <1>1. MachineInv => LeftoversComeFromStop
    BY DEF MachineInv
  <1> QED
    BY <1>1, MachineInvariance, PTL

(* Whatever is calculated and called on the way, a routine returns to the    *)
(* entry after the call that started it (vm.cpp:346-362, 399-413).          *)
THEOREM ReturnsToItsCallerHolds == Spec => ReturnsToItsCaller
  <1> DEFINE Returned == AtEnd /\ stack' # stack /\ begun.stack = <<>> =>
                            /\ rule' \in Actions /\ pc' \in 2 .. Len(Code[rule'])
                            /\ Code[rule'][pc' - 1] = Op.CallUserProcedure
                            /\ Code[rule'][pc'] = rule
  <1>1. MachineInv /\ [Next]_vars => [Returned]_vars
    <2> SUFFICES ASSUME MachineInv, Next, AtEnd, stack' # stack, begun.stack = <<>>
                 PROVE  /\ rule' \in Actions /\ pc' \in 2 .. Len(Code[rule'])
                        /\ Code[rule'][pc' - 1] = Op.CallUserProcedure
                        /\ Code[rule'][pc'] = rule
      OBVIOUS
    <2>1. Return
      BY DEF Next, ExecuteProgram, AtEnd, Calculate, Push, StoreVariable,
         SetDeviceState, ResetTimeout, Jump, CallUserProcedure, Stop, RefreshDevices, ResynchClock,
         Carry, At, Executing, Finish, Abort, EndAsserts, StartProgram,
         WishChanges, Expire, CheckTimeout, SetClock, machine
    <2>2. PICK n \in Nat : Len(stack) = 2 * n /\ CallsDown(n)
      BY AtItsEnd
    <2>3. rule' = stack[2 * n] /\ pc' = stack[2 * n - 1] /\ n \in 1 .. n
      BY <2>1, <2>2 DEF Return, Top, Next2
    <2>4. IsAddress(pc', rule')
      BY <2>2, <2>3 DEF CallsDown, Frames
    <2>5. Code[rule'][pc'] = RoutineAt(n, n)
      BY <2>2, <2>3 DEF CallsDown, Chain
    <2>6. rule' \in Actions /\ pc' >= 2 /\ pc' \in DOMAIN Height[rule']
      BY <2>4 DEF IsAddress, Meets
    <2>7. pc' \in 0 .. Len(Code[rule']) /\ Code[rule'] \in Seq(Int)
      BY <2>6, CodeFacts DEF ActionIsSound
    <2>8. pc' \in 2 .. Len(Code[rule'])
      BY <2>6, <2>7
    <2> QED
      BY <2>4, <2>5, <2>8 DEF IsAddress, RoutineAt
  <1> HIDE DEF Returned
  <1>2. Spec => [][Returned]_vars
    BY <1>1, MachineInvariance, PTL DEF Spec
  <1> QED
    BY <1>2 DEF ReturnsToItsCaller, Returned

----------------------------------------------------------------------------
(* Rules that no assertion can end                                          *)

EndsWell == status # "aborted" /\ (status = "idle" => stack = <<>>)

(* Every rule begins on the stack the one before left, which is empty.       *)
HarmlessInv == MachineInv /\ begun.stack = <<>> /\ EndsWell

(* The rule that is carried out was called by one of the actions.            *)
LEMMA BegunByAnAction ==
    ASSUME MachineInv, begun.stack = <<>>, status # "idle"
    PROVE  begun.rule \in Actions
  <1>1. PICK n \in 0 .. Len(stack) : CallsDown(n)
    BY DEF MachineInv, Running
  <1> QED
    BY <1>1 DEF CallsDown, Chain

(* An instruction of such a rule does not divide, and wishes what it may.    *)
LEMMA NothingToAbortFor ==
    ASSUME AllHarmless, MachineInv, begun.stack = <<>>, status # "idle"
    PROVE  ~(AssertionFails /\ Executing) /\ StackNeed[begun.rule] < StackSize
           /\ StopDepth[begun.rule] < 0
  <1>1. /\ begun.rule \in Actions
        /\ rule \in Actions /\ pc \in DOMAIN Height[rule] /\ pc \in 0 .. Size
        /\ Size \in Nat
    BY BegunByAnAction, WhereItIs DEF MachineInv, Running
  <1>2. StackNeed[begun.rule] \in Nat /\ StackNeed[begun.rule] < StackSize
        /\ StopDepth[begun.rule] < 0
    BY <1>1, CodeFacts DEF AllHarmless, Actions
  <1>3. ~(AssertionFails /\ Executing)
    <2> SUFFICES ASSUME AssertionFails, Executing PROVE FALSE
      OBVIOUS
    <2>1. pc < Size /\ IsHarmless(rule, pc)
      BY <1>1 DEF AllHarmless, Actions, Executing, Size
    <2>2. /\ Instruction = Code[rule][pc + 1] /\ Parameter(2) = Code[rule][pc + 3]
          /\ Parameter(5) = Code[rule][pc + 6] /\ Parameter(6) = Code[rule][pc + 7]
      BY <1>1 DEF Instruction, Parameter
    <2>3. /\ Instruction \notin {Op.Divide, Op.Modulus}
          /\ Instruction = Op.SetDeviceState =>
                WishIsSound(Parameter(2), Parameter(5), Parameter(6))
      BY <2>1, <2>2 DEF IsHarmless
    <2>4. ~(StackNeed[begun.rule] >= StackSize)
      BY <1>2, StackAssumption
    <2> QED
      BY <2>3, <2>4, AbortedForCause
  <1> QED
    BY <1>2, <1>3

LEMMA HarmlessStep ==
    ASSUME AllHarmless
    PROVE  HarmlessInv /\ [Next]_vars => HarmlessInv'
  <1> SUFFICES ASSUME HarmlessInv, [Next]_vars PROVE HarmlessInv'
    OBVIOUS
  <1>1. MachineInv' /\ MachineInv /\ begun.stack = <<>> /\ EndsWell
    BY MachineStepInv DEF HarmlessInv
  <1>2. CASE UNCHANGED vars
    BY <1>1, <1>2 DEF HarmlessInv, EndsWell, vars, machine
  <1>3. CASE \E r \in Actions : StartProgram(r)
    BY <1>1, <1>3 DEF HarmlessInv, EndsWell, StartProgram
  <1>4. CASE \/ \E d \in Devices : WishChanges(d)
             \/ \E t \in TimeoutNos : Expire(t) \/ CheckTimeout(t)
             \/ SetClock
    BY <1>1, <1>4 DEF HarmlessInv, EndsWell, WishChanges, Expire, CheckTimeout, SetClock,
       machine
  <1>5. CASE ExecuteProgram
    <2>1. begun' = begun /\ status = "running"
      BY <1>5 DEF ExecuteProgram, AtEnd, Calculate, Push, StoreVariable,
         SetDeviceState, ResetTimeout, Jump, CallUserProcedure, Stop, RefreshDevices, ResynchClock,
         Carry, At, Executing, Return, Finish, Abort, EndAsserts
    <2>2. /\ ~(AssertionFails /\ Executing) /\ StackNeed[begun.rule] < StackSize
          /\ StopDepth[begun.rule] < 0 /\ begun.rule \in Actions
      BY <1>1, <2>1, NothingToAbortFor, BegunByAnAction
    <2>3. CASE Abort
      BY <2>2, <2>3 DEF Abort
    <2>4. CASE EndAsserts
      <3>1. /\ status' = "aborted" /\ UNCHANGED <<stop, pc, rule, stack>>
            /\ stop \/ pc \notin 0 .. Size - 1
        BY <2>4 DEF EndAsserts, AtEnd, machine
      <3>2. AbortsForCause' /\ begun'.stack = <<>>
        BY <1>1, <2>1 DEF MachineInv
      <3>3. \/ StackNeed[begun.rule] >= StackSize
            \/ stop /\ StopDepth[begun.rule] >= 0
            \/ ~stop /\ pc < Size
        BY <2>1, <3>1, <3>2 DEF AbortsForCause, Size
      <3>4. pc \in 0 .. Size /\ Size \in Nat
        BY <1>1, <2>1, WhereItIs DEF MachineInv
      <3>5. StackNeed[begun.rule] \in Nat /\ StopDepth[begun.rule] \in Int
        BY <2>2, CodeFacts
      <3> QED
        BY <2>2, <3>1, <3>3, <3>4, <3>5, StackAssumption
    <2>5. CASE Finish
      <3>1. status' = "idle" /\ stack' = stack /\ Len(stack) = 0 /\ stack \in Seq(Int)
        BY <1>1, <2>5 DEF Finish, MachineInv, TypeOK
      <3> QED
        BY <1>1, <2>1, <3>1 DEF HarmlessInv, EndsWell
    <2>6. CASE Return
      <3>1. ~stop
        <4>1. stop => StopDepth[rule] >= 0 /\ rule \in Actions /\ Running
          BY <1>1, <2>1 DEF MachineInv, Running
        <4>2. StopDepth[rule] < 0 \/ rule \notin Actions
          BY DEF AllHarmless, Actions
        <4>3. rule \in Actions => StopDepth[rule] \in Int
          BY CodeFacts
        <4> QED
          BY <4>1, <4>2, <4>3
      <3>2. status' = "running"
        BY <2>6, <3>1 DEF Return
      <3> QED
        BY <1>1, <2>1, <3>2 DEF HarmlessInv, EndsWell
    <2>7. CASE Calculate \/ Push \/ StoreVariable \/ SetDeviceState \/ ResetTimeout
               \/ Jump \/ CallUserProcedure \/ Stop \/ RefreshDevices \/ ResynchClock
      <3>1. status' = status
        BY <2>7 DEF Calculate, Push, StoreVariable, SetDeviceState, ResetTimeout,
           Jump, CallUserProcedure, Stop, RefreshDevices, ResynchClock, Carry
      <3> QED
        BY <1>1, <2>1, <3>1 DEF HarmlessInv, EndsWell
    <2> QED
      BY <1>5, <2>3, <2>4, <2>5, <2>6, <2>7 DEF ExecuteProgram
  <1> QED
    BY <1>2, <1>3, <1>4, <1>5 DEF Next

(* Rules that fit the stack, never Stop, never divide and wish for no        *)
(* impossible duration, as all the shipped ones (MCVm), run to their end,    *)
(* and leave the stack empty for the next: vm.cpp ends none of them.         *)
THEOREM HarmlessRulesEndWell ==
    ASSUME AllHarmless
    PROVE  Spec => []EndsWell
  <1>1. Init => HarmlessInv
    <2>1. Init => begun.stack = <<>> /\ EndsWell
      BY DEF Init, EndsWell
    <2> QED
      BY <2>1, MachineInitInv DEF HarmlessInv
  <1>2. HarmlessInv /\ [Next]_vars => HarmlessInv'
    BY HarmlessStep
  <1>3. HarmlessInv => EndsWell
    BY DEF HarmlessInv
  <1> QED
    BY <1>1, <1>2, <1>3, PTL DEF Spec

=============================================================================
