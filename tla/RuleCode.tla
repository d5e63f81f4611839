------------------------------- MODULE RuleCode -------------------------------
(***************************************************************************)
(* What the machine (Vm) relies on in the code it carries out.  Nothing in *)
(* vm.cpp or readcodefile.cpp looks at the entries of an action before they *)
(* are carried out: that an instruction finds its values on the stack, that *)
(* a jump lands on an instruction and that a rule ends with the stack as it *)
(* began is up to the compiler.  CompiledSoundly says what that comes to;   *)
(* MCVm checks it of its rules and of every rule of the shipped files.     *)
(***************************************************************************)
EXTENDS Vm

CONSTANTS Height,     \* Height[r][p]: values of action r on the stack when it
                      \* gets to its entry p, for those where it may
          StackNeed,  \* entries of the stack a rule uses at most, calls included
          StopDepth   \* calls down from a rule it may Stop at most, -1: never

\* Entries that an instruction takes, its parameters included.
Length(op) ==
    CASE op = Op.SetDeviceState -> 7
      [] op = Op.ResetTimeout -> 3
      [] op \in Pushers \cup {Op.StoreVariable, Op.Jump, Op.JumpIfFalse,
                              Op.CallUserProcedure} -> 2
      [] OTHER -> 1

\* The instructions that are carried out.
Carried == Unaries \cup Binaries \cup Pushers
           \cup {Op.StoreVariable, Op.SetDeviceState, Op.ResetTimeout,
                 Op.Jump, Op.JumpIfFalse, Op.CallUserProcedure, Op.Stop,
                 Op.RefreshDevices, Op.ResynchClock}

\* Action r may be at its entry p, and has h values on the stack then.
Meets(r, p, h) == p \in DOMAIN Height[r] /\ Height[r][p] = h

\* The operand of an instruction is a number of what it is about.
OperandIsSound(op, n) ==
    /\ op \in {Op.PushVariableValue, Op.StoreVariable} => n \in Flags
    /\ op \in {Op.PushDeviceState, Op.SetDeviceState} => n \in Devices
    /\ op \in {Op.PushTimeoutState, Op.ResetTimeout} => n \in TimeoutNos
    /\ op = Op.CallUserProcedure => n \in DOMAIN Code

\* The instruction at entry p of action r finds what it pops, and control goes
\* on to an instruction that finds what this one leaves; calls and stops are
\* statements, not parts of an expression.
InstructionIsSound(r, p) ==
    LET op == Code[r][p + 1]
        operand == Code[r][p + 2]
        left == Height[r][p] - Pops(op)
    IN /\ op \in Carried /\ p + Length(op) <= Len(Code[r])
       /\ left >= 0
       /\ Length(op) > 1 => OperandIsSound(op, operand)
       /\ op \in {Op.Jump, Op.JumpIfFalse} => Meets(r, p + 2 + operand, left)
       /\ op \in {Op.CallUserProcedure, Op.Stop} => left = 0
       /\ op # Op.Jump =>
             Meets(r, p + Length(op),
                   IF op = Op.CallUserProcedure THEN 0 ELSE left + Pushes(op))

\* The three tables agree with the code.
ActionIsSound(r) ==
    /\ Meets(r, 0, 0) /\ Meets(r, Len(Code[r]), 0)
    /\ \A p \in DOMAIN Height[r] :
          /\ p \in 0 .. Len(Code[r])
          /\ Height[r][p] \in 0 .. StackNeed[r]
          /\ p < Len(Code[r]) => InstructionIsSound(r, p)

CallIsCounted(r, p) ==
    LET callee == Code[r][p + 2]
    IN /\ StackNeed[r] >= 2 + StackNeed[callee]
       /\ StopDepth[callee] >= 0 => StopDepth[r] >= 1 + StopDepth[callee]

CallsAreCounted(r) ==
    \A p \in DOMAIN Height[r] \ {Len(Code[r])} :
       /\ Code[r][p + 1] = Op.CallUserProcedure => CallIsCounted(r, p)
       /\ Code[r][p + 1] = Op.Stop => StopDepth[r] >= 0

\* No assertion can end a program at the instruction at entry p of action r,
\* and what it does to the stack is what CompiledSoundly says.
IsHarmless(r, p) ==
    /\ Code[r][p + 1] \notin {Op.Divide, Op.Modulus, Op.Stop}
    /\ Code[r][p + 1] = Op.SetDeviceState =>
          WishIsSound(Code[r][p + 3], Code[r][p + 6], Code[r][p + 7])

AllHarmless ==
    \A r \in DOMAIN Code :
       /\ StackNeed[r] < StackSize /\ StopDepth[r] < 0
       /\ \A p \in DOMAIN Height[r] \ {Len(Code[r])} : IsHarmless(r, p)

CompiledSoundly ==
    /\ DOMAIN Code \subseteq Int
    /\ StackNeed \in [DOMAIN Code -> Nat] /\ StopDepth \in [DOMAIN Code -> Int]
    /\ \A r \in DOMAIN Code : ActionIsSound(r) /\ CallsAreCounted(r)

ASSUME RuleCodeAssumption == CompiledSoundly
ASSUME ValuesAssumption == FlagValues \subseteq Int /\ Wishes \subseteq Int

----------------------------------------------------------------------------
(* Properties of the machine for such code                                 *)

\* The assertion that ends a program is never one of the machine's own: the
\* stack is never popped when it is empty, no jump leaves its action and no
\* routine ends on an odd stack.  It is the rule that is nested too deeply for
\* the stack, divides by zero, asks for an impossible duration
\* (vm.cpp:109-115, device.cpp:206) or stops outside a call (vm.cpp:416), or a
\* rule that began on what such a Stop left.
AbortsForCause ==
    status = "aborted" /\ begun.stack = <<>> =>
       \/ StackNeed[begun.rule] >= StackSize
       \/ stop /\ stack = <<>> /\ StopDepth[begun.rule] >= 0
       \/ /\ ~stop /\ pc < Size
          /\ \/ Instruction \in {Op.Divide, Op.Modulus} /\ Next2 = 0
             \/ /\ Instruction = Op.SetDeviceState
                /\ ~WishIsSound(Parameter(2), Parameter(5), Parameter(6))

\* Only a Stop two or more calls down leaves return addresses on the stack for
\* the program after it, and one for each call but the last (vm.cpp:389-413).
LeftoversComeFromStop ==
    status = "idle" /\ begun.stack = <<>> /\ stack # <<>> =>
       Len(stack) <= 2 * (StopDepth[begun.rule] - 1)

\* A routine that ends goes back to the entry after the call of it, in the
\* action that called it, however many calls and values came in between
\* (vm.cpp:346-362 and 399-413).
ReturnsToItsCaller ==
    [][AtEnd /\ stack' # stack /\ begun.stack = <<>> =>
          /\ rule' \in Actions /\ pc' \in 2 .. Len(Code[rule'])
          /\ Code[rule'][pc' - 1] = Op.CallUserProcedure
          /\ Code[rule'][pc'] = rule]_vars
=============================================================================
