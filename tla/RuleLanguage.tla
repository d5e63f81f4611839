------------------------------ MODULE RuleLanguage ------------------------------
(***************************************************************************)
(* The language rules are written in, as far as the entries the compiler   *)
(* leaves in smart.smt and simpledemo.smt show it: what each statement is  *)
(* compiled to, and what it means for flags, wishes and timeouts.  The     *)
(* compiler is another program (it is not in this repository); MCVm checks *)
(* Compile against rules of those files.                                   *)
(*                                                                         *)
(* Expressions: [e |-> "const", v], [e |-> "flag", v], [e |-> "device", v],*)
(* [e |-> "timeout", v], [e |-> "not", a], [e |-> "op", op, a, b].         *)
(* Statements: [s |-> "set", flag, to], [s |-> "if", c, then, else],       *)
(* [s |-> "call", rule], [s |-> "device", device, state, delay, duration], *)
(* [s |-> "reset", timeout, duration], [s |-> "house", op], [s |-> "stop"].*)
(***************************************************************************)
EXTENDS RuleCode, SequencesExt, FiniteSetsExt

CONSTANT Source   \* Source[r]: the statements of rule r

RECURSIVE CompileExpr(_)
CompileExpr(x) ==
    CASE x.e = "const"   -> <<Op.PushConstant, x.v>>
      [] x.e = "flag"    -> <<Op.PushVariableValue, x.v>>
      [] x.e = "device"  -> <<Op.PushDeviceState, x.v>>
      [] x.e = "timeout" -> <<Op.PushTimeoutState, x.v>>
      [] x.e = "not"     -> CompileExpr(x.a) \o <<Op.Not>>
      [] x.e = "op"      -> CompileExpr(x.a) \o CompileExpr(x.b) \o <<x.op>>

RECURSIVE Compile(_)
Compile(statements) ==
    LET One(x) ==
          CASE x.s = "set"    -> CompileExpr(x.to) \o <<Op.StoreVariable, x.flag>>
            [] x.s = "call"   -> <<Op.CallUserProcedure, x.rule>>
            [] x.s = "device" -> <<Op.SetDeviceState, x.device, x.state, 0, 0,
                                   x.delay, x.duration>>
            [] x.s = "reset"  -> <<Op.ResetTimeout, x.timeout, x.duration>>
            [] x.s = "house"  -> <<x.op>>
            [] x.s = "stop"   -> <<Op.Stop>>
            [] x.s = "if" ->
                 LET yes == Compile(x.then)
                     no  == Compile(x.else)
                     over == IF no = <<>> THEN <<>> ELSE <<Op.Jump, Len(no)>>
                 IN CompileExpr(x.c) \o <<Op.JumpIfFalse, Len(yes \o over)>>
                       \o yes \o over \o no
    IN FlattenSeq([i \in DOMAIN statements |-> One(statements[i])])

----------------------------------------------------------------------------
(* Meaning.  A state has flags, wanted, timers, timeouts and stopped; an   *)
(* expression has a set of values, because a timeout that runs may expire  *)
(* at any moment.                                                          *)
RECURSIVE Values(_, _)
Values(x, st) ==
    CASE x.e = "const"   -> {x.v}
      [] x.e = "flag"    -> {st.flags[x.v]}
      [] x.e = "device"  -> {st.wanted[x.v]}
      [] x.e = "timeout" -> IF st.timeouts[x.v] = "pending" THEN {0, 1} ELSE {1}
      [] x.e = "not"     -> {Truth(a = 0) : a \in Values(x.a, st)}
      [] x.e = "op"      -> {Binary(x.op, b, a) : a \in Values(x.a, st),
                                                  b \in Values(x.b, st)}

\* Once the clock is set, what was due may be pending.
ClockMayGoBack(st) ==
    [st EXCEPT !.timeouts = [t \in TimeoutNos |-> IF @[t] = "ended" THEN "ended" ELSE "pending"]]

RECURSIVE Outcomes(_, _)
Outcomes(statements, st) ==
    LET First(x) ==
          CASE x.s = "set" -> {[st EXCEPT !.flags[x.flag] = v] : v \in Values(x.to, st)}
            [] x.s = "call" -> Outcomes(Source[x.rule], st)
            [] x.s = "device" ->
                 {[st EXCEPT !.wanted[x.device] = Wish(@, x.state, x.delay),
                             !.timers[x.device] = Timers(x.state, x.delay, x.duration)]}
            [] x.s = "reset" -> {[st EXCEPT !.timeouts[x.timeout] = "pending"]}
            [] x.s = "house" -> {IF x.op = Op.ResynchClock THEN ClockMayGoBack(st) ELSE st}
            [] x.s = "stop" -> {[st EXCEPT !.stopped = TRUE]}
            [] x.s = "if" -> UNION {Outcomes(IF v # 0 THEN x.then ELSE x.else, st) :
                                       v \in Values(x.c, st)}
    IN IF statements = <<>> \/ st.stopped THEN {st}
       ELSE UNION {Outcomes(Tail(statements), one) : one \in First(Head(statements))}

----------------------------------------------------------------------------
(* What a rule asks of the machine                                         *)
RECURSIVE ExprNeed(_)
ExprNeed(x) ==
    CASE x.e = "not" -> ExprNeed(x.a)
      [] x.e = "op" -> Max({ExprNeed(x.a), 1 + ExprNeed(x.b)})
      [] OTHER -> 1

\* Entries of the stack a rule uses at most.
RECURSIVE Need(_)
Need(statements) ==
    LET One(x) == CASE x.s = "set" -> ExprNeed(x.to)
                    [] x.s = "if" -> Max({ExprNeed(x.c), Need(x.then), Need(x.else)})
                    [] x.s = "call" -> 2 + Need(Source[x.rule])
                    [] OTHER -> 0
    IN Max({0} \cup {One(statements[i]) : i \in DOMAIN statements})

\* The depths of calls at which a rule may execute a Stop.
RECURSIVE StopDepths(_)
StopDepths(statements) ==
    LET Of(x) == CASE x.s = "stop" -> {0}
                   [] x.s = "if" -> StopDepths(x.then \o x.else)
                   [] x.s = "call" -> {1 + n : n \in StopDepths(Source[x.rule])}
                   [] OTHER -> {}
    IN UNION {Of(statements[i]) : i \in DOMAIN statements}

----------------------------------------------------------------------------
(* Properties of the machine, for code that is Compile of its source       *)

Found == [flags |-> begun.flags, wanted |-> begun.wanted, timers |-> begun.timers,
          timeouts |-> begun.timeouts, stopped |-> FALSE]
Ended == status = "running" /\ status' = "idle"

\* Whatever order its instructions, jumps, calls and returns come in, a rule
\* that begins on an empty stack leaves the flags, wishes and device timers
\* that its source means, for some answers of the timeouts that were pending, or
\* are again since the rule set the clock (vm.cpp:61-421, timeout.cpp:36-46).
RuleMeans ==
    [][Ended /\ begun.stack = <<>> =>
          \E out \in Outcomes(Source[begun.rule], Found) :
             flags' = out.flags /\ wanted' = out.wanted /\ timers' = out.timers]_vars
=============================================================================
