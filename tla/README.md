# Smart8r in TLA+

Smart8r runs compiled house rules on a Raspberry Pi: it listens to X10 messages
on the mains through a TW523 (or XM10), fires rules from what it hears and from
timers, and sends the X10 messages that bring lamps and appliances to the state
the rules want. Philips Hue lamps are driven the same way through a bridge. The
program cannot see its X10 devices: all it has is a *belief* of what each one
shows, updated from the messages on the mains, its own included. Nearly all that
is hard about it follows from that, and from the threads that share its queues
and its clock.

All source paths below are relative to the repository.

## 1. Inventory

| component | state | operations | talks to |
|---|---|---|---|
| X10 devices, `device.cpp` | per address: believed state, wanted state, selection, two timeouts, two rule actions; a flag shared by all (`allX10DevicesInWantedState`) | `mSelect`, `mFunction*`, `mSetWantedState`, `mRefreshDevice`, `mCheckSwitchOn/OffTimeout` | called by the house code; fires rules in the VM |
| House code planner, `housecode.cpp`, `house.cpp` | 16 addresses per house code | `mMessage` (hear), `mUpdateDevices` (plan one message), `mRefreshDevices` | reads devices, fills the outgoing queue |
| Outgoing queue and lock, `queue.cpp` | array, size, head, "contains DIM or BRIGHT", `mQueueMutex` | `addQueue`, `clearQueue`, `restartQueue`, `nextMessage`, `getQueueSize` | rules thread fills, TW523 thread empties; length read by both without the lock |
| Reverse queue, `rqueue.cpp` | messages heard, each marked external or not | push (TW523), pop (rules) | the only way beliefs change |
| Rules thread, `runtime.cpp` | place in `maintainQueues` | listen, plan, timers, timeouts, and over again | all of the above |
| TW523 thread, `tw523.cpp` | last message sent, retry counters | `do_half_cycle`, `mFlushQueue`, both retry loops | queue, reverse queue, link, clock |
| X10 link, `tw523out.cpp`, `tw523in.cpp` | state and counter of both half bit machines | compute the half bit to send, take one in, compare the echo | TW523 thread, the unit on the mains |
| Clock, `clock.cpp` | seconds, half cycles | `tick` (TW523 thread), `setTime` (rules thread) | everything timed |
| Rule VM, `vm.cpp`, `action.cpp`, `flag.cpp` | program counter, stack, flags | 34 instructions, calls, `Stop`, assertions | devices, timeouts, lock |
| Timers, calendar, `scheduler.cpp`, `timer.cpp`, `calendar.cpp` | sorted timers, next sequence and event of each, days with sunrise and sunset | `timerReady`, `fire`, `rescheduleTimer`, `SetUpNextSequenceToFire` | VM, clock |
| Timeouts of rules, `timeout.cpp` | expiry time of each | `reset`, `mCheckSwitchOffTimeout` | VM, clock |
| Hue devices and thread, `huedevice.cpp`, `huehelper/` | lamps, two Hue queues, a second flag | plan, commit over HTTP, reply | rules thread, bridge |
| Loader, start up, ports, logging, keyboard | - | sequential, or pure I/O | - |

What is hard in it:

* **Beliefs lag.** A plan changes no belief; only its echoes do, and they wait in
  the reverse queue until the rules thread listens. In between, the rules thread
  can look at the queue, wait for the lock and plan again.
* **The lock is coarse and the reads are not locked.** A flush holds the lock
  through every retry; both threads decide from a length they read without it.
* **Retries are not idempotent.** A repeated DIM dims twice.
* **People act too**, on the same wires: their addresses select the devices that
  the house's next function will hit, and their functions become wishes.
* **Half bits have no frame.** Sender, echo and receiver are three machines in step
  with the mains; the unit echoes half a cycle earlier or later than the simulated one,
  and anybody else may send on top.
* **Two threads set one clock**, and timers are worked off one per turn, late, from a
  list sorted before the last one fired.
* **Rules are not checked when they are loaded**: depth of the stack, jumps and wishes
  are asserted while they run.
* **Two timeouts per device** must stay in order while rules, people and a clock
  that is set backwards move them.

What each component must do to be correct: devices, every change of a belief or a
wish wakes the planner; planner, a plan moves nothing that is settled, brings the
rest closer and is empty only when nothing is left to send; queue, assertions
hold, nothing queued is lost or left lying; threads, neither starves, and the
house rests only in its wanted state; timeouts, what is lit is switched off; link, what
nobody disturbs is acknowledged and nothing is heard that was not sent; timers, each is
fired, at its time and in order, and none is passed over; VM, a rule means what its source
says and ends; Hue, what the house believes of a lamp is what the lamp shows.

`PROJECT.json` lists the components with what is modelled of each, and the
hazards with the line where each bites.

## 2. Modules

```
X10Device ──< Planner ──< HouseCode    ──< MCHouseCode, HouseCodeProofs
    │            ├──────< X10Pipeline  ──< MCX10Pipeline, X10PipelineProofs
    │            │             │ INSTANCE (refines)
    │            │          X10Queue   ──< RulesProofs
    │            └──────< PlannerProofs ──< HouseCodeProofs, X10PipelineProofs
    ├──< DeviceTimeouts ──< MCDeviceTimeouts, DeviceTimeoutsProofs
    └──< HueLoop ──< MCHueLoop, HueLoopProofs

Scheduler ──< MCScheduler, SchedulerProofs
Vm ──< RuleCode ──< RuleLanguage ──< MCVm
           │        ShippedRules ──┘
           └─────< RulesProofs (with X10Queue)
X10Link ──< MCX10Link, X10LinkProofs
```

**X10Device** (no variables). A device is a record: `state` is `miState`,
`wanted` is `miWantedState`, `selected` is `mSelected`. `device_state_t` keeps its
numbering, with `MaxDim` for 17. The virtual functions are operators with the class
as a parameter `k`: `Select`, `Function` (state, wish and selection after a
function, external or not), `DelayedAction` (which rule action is left to fire) and
`MoveTimer` (what happens to the timeouts).

**Planner** (no variables). `Hear` is a message heard by the 16 addresses; the
seven alternatives of `mUpdateDevices` are seven operators that return the messages
they would queue; `Plan` takes the first that is not empty.

**HouseCode**: one house code *as the program means it to work*, planning only
after the last plan has gone out and been heard back. Actions: `UpdateDevices`,
`Echo`, `SetWantedState`, `RefreshDevices`, people (`ExternalAddress`,
`ExternalFunction`, with the house's and the devices' rule actions in the order the
code fires them), and `FlushFails`. It separates what the planner itself gets right
from what the threads get wrong; it has no thread interleaving and says nothing
about it.

**X10Queue**: the lock protocol alone, with messages counted and not distinguished.
One action per step of each thread between two points where the other can
interfere. `rules` and `tw523` are the places in `maintainQueues`/`vm` and in
`tw523ThreadStart`/`mFlushQueue`. It is the abstract specification of the sharing.

**X10Pipeline**: the same threads with real messages, beliefs, the reverse queue,
both retry loops, and the turn of `maintainQueues` spelled out (listen, look, plan,
listen, work). It takes away HouseCode's idealisation: the look and the plan are
separate steps, a flush may happen between them, and echoes wait to be heard.
`actual` is what the devices at the other end of the mains show; `NotHeard` is an echo
that is lost, whether the device heard the message or not, so that a repeated message may
be obeyed twice. `trusted` remembers that nobody else has sent and no flush was given up.
`Lock` is the refinement mapping to X10Queue. Timers and rules are "a rule is due";
a rule sets one device. Fired house and device actions, refreshes and infra red
commands are left to HouseCode and X10Queue; `waitForQuiet` is a place where
`Overhear` can happen. There is one house code, so `mUpdateX10Devices`'s walk over
house codes is one plan (X10Queue has the walk).

**X10Link**: what X10Pipeline takes as one step, the sending of a message, half bit by
half bit. `out.line` is `Ctw523Out` (state, counter, which copy, message), `in` is
`Ctw523In`, `own` is `x10_sent_message`. `HalfCycle` is all of `do_half_cycle`: `After`
computes the next half bit, `Receive` takes one in, `Noted` compares the echo. The unit is
the environment. It hands the second copy of a message back, with the half bit just sent
(`lag = 1`) or, as the simulated unit of `src/Win` does, one half bit early (`lag = 0`);
`lag` is chosen once. Another transmitter is the same machine and looks at nothing; noise
turns a zero into a one; the unit may miss a message (`lost`). Comparing the two explains
the comment "fiddled down from 6 to 5" at `tw523in.cpp:94-96`: with the unit's lag the
receiver is the later of the two by a half bit. `aired` remembers what was on the wire
since the receiver was last idle, `disturbed` whether anything but our message was.

**DeviceTimeouts**: `mSwitchOnTimeout` and `mSwitchOffTimeout` of every real
device, set by rules (`SetOn`, `SetOff`), moved by people (`ExternalFunction`),
checked by the rules thread (`CheckTimeouts`), against a clock that ticks and is
set (`Resynch`), by at most `MaxBackStep` behind the latest time. `latest` and
`asked` are history variables. The planning and sending is one action, `Delivered`.
`SetOn` takes only `delay < duration`, as the assertions of `vm.cpp` and
`device.cpp` demand of the compiled rules. A rule's action may not land between
`Due` and the check of the same device: both run on the rules thread.

**Scheduler**: `runtime`'s start (`CompleteDefinitions`, the simulated past, the setting
of the clock) and then the turns of `maintainQueues`: `Listen`, at most one timer fired,
every timeout checked. Places of the rules thread between two reads of the clock are
steps of their own (`TimerReady`, `RunAction`, `Fired`; `CheckTimeout`, `OffAction`), so
the clock ticks and is set in between. `order` is the sorted list of timers; `qsort` is
not stable, so `Reschedule` leaves timers that are due together in any order. `NextUp` is
`SetUpNextSequenceToFire`; the several reads of the clock within one call of it are one.
`Rule` is what an action may do here: set a timeout, or set the clock to the host's, which a
tick in progress on the other thread may overwrite. A calendar without a day for a
timer ends the program, as the assertion of `getDayAttribute` does ("aborted"): the shipped
calendar has 734 days. Times are counted in ticks.

**Vm**, **RuleCode** and **RuleLanguage**: `ExecuteProgram` instruction by instruction on the numbers of
an action's entries; `AssertionFails` is every assertion of `vm.cpp` on the way. One action
per kind of instruction, `Return` for the end of a routine and `Finish` for the end of a
program. The stack outlives the program, as `stack` does in the code: a `Stop` in a called
rule leaves addresses on it. While a rule runs timeouts expire (`Expire`); wishes change
only between rules, which hold the lock. A timeout is `pending`, `due`, or `ended` once the
rules thread has checked it (`CheckTimeout`); a rule is told of the last two that they are
over. `ResynchClock`, and the keyboard between rules (`SetClock`), may set the clock either
way: forward, pending timeouts come due; back, those that are due and not yet checked are
pending again, and a rule that asks twice gets two answers (`ClockMidway` in MCVm; a tick
that overwrites the setting does so at once, as in Scheduler). The code of an action is checked by
nobody: neither the loader nor `vm.cpp` looks ahead. RuleCode says what the machine relies on
(`CompiledSoundly`), with a table `Height` of how many values are on the stack at each entry an
action can be at, `StackNeed` and `StopDepth` of what it uses with all it calls: an
instruction finds what it pops, a jump lands where what it leaves is expected, calls and
stops are statements. `AllHarmless` adds that nothing in the code can end a program.
RuleLanguage says what rules mean as statements
(`Outcomes`) and what entries the compiler, which is not in this repository, makes of them
(`Compile`). `CompilesAsShipped` in MCVm ties `Compile` to entries in the shipped files:
actions 0 to 3 are `simpledemo.smt:782-786`, `788-792`, `797-798` and
`smart.smt:1121-1127` with their flags and devices renumbered. **ShippedRules** is data: the
entries of every action of `simpledemo.smt` and `smart.smt`; `ShippedRulesAreSound` in MCVm, which
the `vm` run evaluates, says that all 64 are sound and harmless on the machine's stack of 30.

**HueLoop**: the Hue half of `maintainQueues` and the Hue thread. `shown` and `wanted`
are a lamp's believed and wanted state, colour and colour loop; `CalcBrightness` and
`CalcDeviceState` are the conversions on the way out and back. A message is a set of
at most one brightness, one colour and one colour loop. `mUpdateHueDevices` walks lamp by
lamp (`house`, `next`), and the Hue thread may take a message while the walk goes on:
`UpdateHueDevices` is `StartPlan`, `UpdateLamp`, `NextHouseCode` and `EndPlan`. `PopMessage`
and the outcome of the commit (`Committed`, `Refused`, `CommitFails`) are separate steps,
so the rules thread plans in between. An exception leaves `threadStart` and `Recover` is
`hueThreadStart`'s next try, until `MaxFailCount`. The bridge and the lamps (`actual`) are
external; a lamp does what a commit says. What the bridge's library leaves out of a request
because it takes it for done (`trimRequest`) is not modelled, nor a lamp changed by
somebody else.

**Variants.** Operators commented `Variant:` are not part of any specification.
Each is a mapped definition with a plausible mistake in it (a guard dropped, a reset
forgotten); put in place of the definition they stand before, they make the property
`PROJECT.json` pairs them with fail. They show that each property depends on the
code it is about.

## 3. Runs

| run | instance | question and result |
|---|---|---|
| `housecode` | two lamps, an appliance lamp and a sensor, rules that react to people, 2 DIM levels, 4 disturbances | the planner settles every mix of states, spares what is settled, each plan makes progress, and every path clears the flag. Holds. |
| `queue` | plans of 5, 2 infra red commands, queue of 10, 3 passes, 2 rules due | the assertions of `queue.cpp`, no loss, no starvation of either thread. Holds. |
| `pipeline` | a lamp and an appliance lamp, 2 DIM levels, 2 tries, 2 passes, 2 disturbances | the real control is X10Queue's; a lamp left wrong was *overtaken*; retries leave devices as they are believed to be; the house rests unless it dims past unheard echoes for ever. Holds. |
| `timeouts` | an appliance lamp and a lamp, 12 hours = 2 ticks, delays to 1, durations to 2, the clock set back by 1 | the assertion of `mCheckSwitchOffTimeout`, nothing stays on, the shared flag, dark in the end. Holds. |
| `hue` | three lamps, two of them in the first house code, 17 DIM levels, 2 disturbances, 2 failures of the thread | beliefs follow the lamps, queues stay short, a lamp left wrong was overtaken, rest in the end. Holds. |
| `scheduler` | two timers, one with four sequences (sunset, the evening before), three days of six ticks around the change to summer time, two timeouts | every timer is fired, in order, late ones too; none is passed over; the past is at its time; timeouts set while others expire are kept. Holds. |
| `vm` | rules of the shipped files and rules at the limits, stack of 6 | a rule does what its source says, ends, and aborts only for a cause in the rule; what is left on the stack comes from `Stop`; every rule of the shipped files is sound and harmless. Holds. |
| `link` | messages of 3 bits, both units, one foreign message, one half bit disturbed | `SendMessage`'s assertions, undisturbed messages are acknowledged, what is heard was sent, waits end. Holds. |
| `overtaken` | one lamp, 2 DIM levels | **fails**: the house rests with a lamp one DIM too dark. |
| `hue_refused` | one lamp, 3 disturbances | **fails**: a commit that returned false is taken for done. |
| `m13` | the link with a message of all zeros | **fails**: the address M13 is never sent. |
| `summer` | `refreshdevices` alone around the change to summer time | **fails**: a day's sequence is passed over. |

*Bounds.* `MaxDim = 2` gives an unlit, a full, a middle and a darkest lamp, and a plan
of two DIMs, which is the shortest that can be cut in half or doubled. Three
real devices are the fewest where two lamps share a plan and a third must be left alone.
Disturbances are what a behaviour needs to leave rest, be interrupted in the
middle of a plan and be interrupted again; four suffice for an address by hand, a
function by hand, a wish and a lost flush in one behaviour. In `queue`, 5 + 2·2 < 10
is the tightest queue that `X10QueueAssumption` allows: the proofs cover all others,
33 + 2·10 < 54 among them. Two passes and two tries make a first, a last and a
repeated transmission; the second house code's rule for other transmitters only takes the
first of the two retry loops away and is not a run of its own. For Hue lamps two
disturbances are a new wish while a message is out, a failure of either kind while a wish is
carried out, and two exceptions, which with `MaxFailCount = 2` end the thread; two lamps in a
house code make a plan that is half taken while it is made, and a second house code the walk
past the first. In DeviceTimeouts nobody acts after `Horizon`, and the clock
stops at `MaxClock`, after the last timeout that could have been started; this is a
bound on people and rules, and is what `EventuallyDark` is conditional on. In Scheduler
`Horizon` ends both clocks in the third day, `Drift` keeps them one tick apart, so that the
clock is set forward and back, and `MaxLate` lets a timer be late by two ticks, which is
long enough for a second one to come due and for the first's next event to be past.
In X10Link a message of three bits has a first, a middle and a last bit (the code's nine
differ in nothing else); the two of ours and the foreign ones are a half bit or two apart, one
is the same as ours. Two disturbed half bits pass as well, in some minutes. In Vm a stack of 6
holds two calls and two values, one call from its limit. Rules count no further than small
numbers, so the width of an `int` is not modelled.
`CHECK_DEADLOCK FALSE` is set in the runs with bounded disturbances or a bounded
clock, and in `vm`, which may abort: there a house at rest has nothing left to do.
The `queue` and `link` runs check deadlock.

*Fairness.* Weak fairness of each thread's own steps: `maintainQueues` is called for
ever, the TW523 thread loops for ever, a sending gets its answer or no answer within a
counted number of half cycles (`WaitsEnd` of X10Link shows this), and a lock that is free is
taken. In X10Queue it is per
action, without fairness of `CallRule`, `HalfCycle` or anything that starts work.
`RulesRun` needs no strong fairness although a mutex makes no promise of order: after a
flush the queue is empty, so the TW523 thread cannot ask for the lock again before the
rules thread has had it. In X10Link the mains crosses zero again and again and the thread
goes on; that a flush begins, and that anybody else sends, is not asked. In Scheduler the
rules thread goes on and the clocks need not. In Vm a running program goes on. In HueLoop a
bridge can be found and a commit ends; `EventuallyAtRest` there is for a house whose Hue thread
has not ended and whose lamps are mapped, because neither is certain (section 5). Nothing
makes a person act, a message get lost, or a rule
become due. With no mains at all `waitForZeroCrossing` spins holding the lock; the
fairness of the TW523 thread assumes the mains are there.

*What the failing runs show* (each quotes the line it disagrees with in
`PROJECT.json`):

* `overtaken`. `maintainQueues` listens, reads an empty queue while the last message
  is still being sent, waits for the lock through the end of the flush, and plans from
  beliefs that have not heard that flush. The same DIM is planned and sent twice; when
  the planner then finds nothing to do while the second DIM's echo is unheard, it sets
  the flag, and hearing the echo does not clear it. `WrongRestWasOvertaken` shows
  that this is the *only* way to rest in a wrong state. The same stale plans may also
  alternate DIM and BRIGHT for ever: `EventuallyAtRest` has that, and nothing else, as its
  exception (`DimsUnheard`).
* `hue_refused`. The loop that notes the failure of a commit changes copies.
* `m13`. `x10_sent_message == 0` is "no message", and the code of the address M13 is 0.
* `summer`. `refreshdevices` ends at 23:30 in winter, and in summer its first event of the next
  day, half an hour after midnight, is that same moment. A sequence has to begin *later* than
  now to be taken (`timer.cpp:62`), so the whole first day of summer time is passed over, where
  the comment in `calendar.cpp` speaks of the hours up to two.

*What the passing properties admit.* Some properties have exceptions in their statement, each
of them something the code does:

* `FlagMeansSettled` excepts a lamp that is off and wanted at the last DIM level, which is
  never lit (`OutOfReach`: `iMinimumLevels` starts at 18 and the lamp is 18 steps away,
  `housecode.cpp:340`), and the state a refresh assumes (`AssumedOk`): a lamp wanted at a
  DIM level has `mDimIncrementLevelsWanted` 0 after a refresh, and next to a lamp that is
  wanted off no alternative applies to it.
* `HeardIsTrue` holds with `NoisyLastBit = FALSE`: the last bit of a message is taken even if
  its halves agree, because the end of the message overrides the error (`tw523in.cpp:75`).
  With TRUE it fails.
* `NoneOvertaken` is about sequences that begin on the day they are for. An offset or the hour
  of summer time may move one over midnight, and such a one can be passed over.
* `LeftoversComeFromStop` says where the addresses left on the stack come from, not that
  there are none: they stay for the next rule, and once there are enough of them a rule
  aborts for want of stack. `RuleMeans` and `AbortsForCause` are about rules that begin on an
  empty stack.
* Nothing is claimed of a person's message that equals the one the house sent last in the same
  flush: it is obeyed, passes for the house's own and becomes no wish (`tw523.cpp:199`;
  `Overhear`). `HeardIsTrue` is about the converse, and `RetriesAreSafe` about a house
  that sends alone.
* A delayed DIM of a device lights it fully: the state is not stored and the timeout always
  wants `stateOn` (`device.cpp:175`); DeviceTimeouts has it so.
* Off ends a Hue lamp's colour loop and leaves `mbColourLoop` true, so the next on with a
  colour loop sends none. `BeliefsFollowLamps` is about brightness.

## 4. Proofs

`RulesProofs`, of X10Queue: `QueueTypeCorrect`, `QueueAssertionsHold`, `PlanningLosesNothing`, from
`X10QueueAssumption` (a plan and the infra red commands between two clearings fit with
one message to spare). The properties are not inductive: that nothing has been taken
from the queue when the rules thread adds depends on who holds the lock. `LockInv`
says the lock is held exactly by the thread that is where it needs it; `QueueInv` says
that only a flush moves the head, that the size is within a plan plus the infra red
commands, and that a thread waiting to plan finds the queue empty *unless a flush is
running*. The last is why acting on a stale length is harmless here: after the look,
only a flush can still be at work on the queue, and it ends by clearing it.

`RulesProofs`, of Vm: `TypeCorrect`, `AbortsForCauseHolds`, `LeftoversComeFromStopHolds`,
`ReturnsToItsCallerHolds`, `HarmlessRulesEndWell`, for any rules, flags, devices, timeouts and size of
stack, from `RuleCodeAssumption` (the rules are compiled soundly) and `ValuesAssumption`. The
first is what a compiler promises and the machine does not test; that it is no more than the
compiler keeps is checked on the rules of the `vm` run, the ones made to fail included, and on every
rule of the shipped files. It speaks of one action at a time, so what has to be found is
what a stack of several actions looks like. `MachineInv` says: `n` calls down, the stack is `n` pairs
that are each an entry after a call and the action of that call (`Frames`), and above them as
many values as `Height` has for the entry the program is at (`CallsDown`); and each of those
routines was called by the one below it, with no more stack and no deeper `Stop` than are left
to it of what the rule asked for (`Chain`). Between rules the stack is such pairs too,
left by a `Stop`. Each of the properties is one look at this: the pops find their values because
`Height` says so, an odd stack never ends a routine because at its end `Height` is 0, the
stack overflows only if `StackNeed` of the rule does not fit it (`AbortedForCause`), and the
pair on top when a routine ends is the call of it. `Chain` holds of rules that begin on an
empty stack, as the properties say; `HarmlessRulesEndWell` adds that, if all rules are harmless,
every rule does. With `ShippedRulesAreSound` it comes to this: no assertion of
`vm.cpp`, nor the one on durations in `mSetWantedState` (`device.cpp:206`), ever ends a program of
the shipped rule files.
`ReturnsToItsCaller` is no property of the run, where `RuleMeans` would show a wrong return.

`PlannerProofs` (no variables): `EmptyPlanMissesNobody` and `PeopleLeaveNothingToSend`, the two
facts about devices that the next two modules rest on, for any devices and any number of DIM
levels. What makes them more than case analysis is that the planner counts and orders units: that
`Nth` finds an address for every place (`NthIsMember`) and that a smallest number of steps exists
(`MinimumExists`) are inductions over finite sets. They are argued by a smallest counterexample
(`SmallestSubset`, from the well-founded strict inclusion of finite sets), which needs no operator
as a parameter. `PlanIsPlan` bounds the length of every plan.

A plan carried out message by message (`HearAll`), and a sum over the units, are recursive functions
over `0 .. n`. The prover cannot induct over them with an operator as parameter; `InductionUpTo`
takes the *set* of places where a fact holds, which is enough, and `RecursionUpTo` gives the
equations of such a function. What a plan makes of a unit is then read off its shape: `Heard...`
say what one message does, `OrderHeard` what addresses followed by one function, repeated or not, do
to the units they name and to the others, and `FollowsOrder` that every alternative of the planner
makes such an order. `PlanIsOrderly` is what retrying relies on: addresses first, and one function.

`HouseCodeProofs`: `TypeCorrect` and `FlagMeansSettledHolds`, for any devices and any rule actions
that ask of a class what it can do (`HouseCodeAssumption`). The strengthening adds that the queue is
empty once the flag is set: an echo of the house's own could otherwise move a device unseen.
A function from outside is carried through the three steps it takes, the house's rule,
the devices, their rules, by a lemma for each kind.

`PlanSparesTheSettledHolds` and `PlanMakesProgressHolds` are about the whole of a plan, for every
number of units and of DIM levels. One fact, `Helps`, serves both: after the plan no unit is
further from what is wanted, and one is nearer. It is shown for each alternative of
mUpdateDevices by its own lemma (`PlanHelps` puts them together): the function to all is chosen only
when it brings everybody it reaches nearer, and the groups of levels only name units with that many
left to go. A unit is `Settled` exactly when its distance is 0, which is the first
theorem; the second sums the distances (`TotalDistanceShrinks`).

`X10PipelineProofs`: `TypeCorrect`, `KeepsToX10QueueHolds`, `PlansFitTheQueue`,
`WrongRestWasOvertakenHolds`, `RetriesAreSafeHolds`.

* `KeepsToX10QueueHolds` is the refinement: `Init` maps to X10Queue's, and every step to one of
  X10Queue's or a stutter (an echo, a repeated message and a turn of listening do not show
  there). It needs `LongestPlan` to be what its name says (`LongestPlanType`).
* `PlansFitTheQueue`: the assertions of X10Queue and its `PlanDiscardsNothing`, seen through the
  mapping, hold of the real plans if the longest is under 54; the code's has 33 (the
  pipeline sends no infra red commands). `SharedQueueInv` is X10Queue's argument with messages
  in place of counts.
* `WrongRestWasOvertakenHolds` makes precise why the finding `overtaken` is the only one of its kind.
  `RestInv` says that a flag set without overtaking leaves nothing planned, nothing being sent, no
  echo of the house's own on its way, and nothing to send; what other people send
  afterwards keeps that (`PeopleLeaveNothingToSend`). It is true when the flag is set because the
  planner holds the lock, so no flush is running (`LockInv`).

* `RetriesAreSafeHolds`: the house's belief trails the devices by the echoes it has not heard, and the
  devices trail the plan by the retries. `TrustInv` bridges both. `Hearing` is the chain of what
  the house will believe after each echo that is waiting; `InTouch` relates the end of that chain
  to the real device at each place of an orderly plan: a unit the plan addresses agrees with its device
  or the device is already where ON or OFF takes it, so carrying the function out again changes
  nothing; the others agree all along. Of DIM and BRIGHT no such thing can be said, and it
  is where the code's refusal to repeat them is used
  (`MayResend`; the mutant that resends them is found by the run).

`DeviceTimeoutsProofs`:

* `TypeCorrect`, `NothingStaysOnHolds` and `TimeoutsWakeThePlannerHolds` from
  `DeviceTimeoutsAssumption` alone; the two properties are inductive with the type
  invariant. Lemmas on the operators of X10Device (`TargetInStates`, `FunctionType`,
  `ExternalOutcome`, `FunctionKeepsSettled`) carry the steps of people, where the
  device's class decides.
* `TimeoutAssertionHolds` also assumes `DelaysAreShort`: the longest delay and all the
  setting back of the clock are together no more than twelve hours. That the code
  needs it is real: a hand at a controller starts twelve hours from *now* and leaves a
  pending switch-on alone. The strengthening is `OrderInv` (the switch-on is no later
  than the switch-off) with `ClockInv` (how far ahead of the clock a switch-on can be).

`SchedulerProofs`: `TypeCorrect`, `HeadIsEarliestHolds`, `SettingIsKeptHolds`,
`NoneOvertakenHolds`, `PastOnTimeHolds`, `TimersMoveOnHolds`, for any timers, calendar,
rules and bounds, from the four assumptions of the module. `EventsAssumption`, that the events
of a sequence are listed in order, is what `PastOnTime` and `TimersMoveOn` need, and is true of
the shipped files. The strengthening says that a timer once set up is at an event of one of
its sequences and that its time is that event's (`at` is redundant, but kept by the code in a
variable of its own), that the list is sorted except between the firing and the next sort,
and that in the past the clock is never ahead of the first timer.

`HueLoopProofs`: `TypeCorrect`, `QueuesStayShortHolds`, `WrongRestWasOvertakenHolds`,
`BeliefsFollowLampsHolds`, for any house codes, bridge and bounds, as long as a brightness
can tell the DIM levels apart (`BrightnessAssumption`). `StateSurvives` is the lemma about
the two conversions, an integer division each way. `QueueInv` bounds what waits by one plan and
what the walk has added since, which is why planning with replies outstanding stays
bounded; `RestInv` says what a walk that has added nothing has passed; `BeliefInv` says that
the *last* reply about a lamp that waits to be heard tells what the lamp shows, or, if none
waits, that the house believes it already.

`X10LinkProofs`: `TypeCorrect`, `SendAssertionsAlwaysHold`, `UndisturbedIsAlwaysAcknowledged`,
`OwnIsNeverForeign` and `HeardIsAlwaysTrue`, for messages of any length, any other transmitter, both
units and any bounds. `UndisturbedIsAlwaysAcknowledged` assumes that no queued message is
`NoMessage`, and the run
`m13` shows that it has to. `LinkInv` says that a transmitter is at rest exactly when it has
nothing to send, which is why a wait for quiet that looks at the receiver only is enough for
what `SendMessage` asserts. `LockedInv` says that while nothing disturbs a message the receiver
has had exactly the half bits of the second copy that have been handed on: `Stage` is where it
is after each of them (`ReceiveStage`), and they end, with the fifth silent one, before the
transmitter's six.

`HeardIsAlwaysTrue` assumes that noise spares the last bit of a message (the run's
`NoisyLastBit = FALSE`; the code does not look at the second half of that bit) and that
`MaxNoise <= Length + 1`: a message takes three ones to start and one in every bit but the last, so
with one half bit more noise could make all of it. The run has one half bit of noise and
three bits; the theorem allows ten for the nine bits of the code. `Voices` are the second copies on
the wire that the unit does not miss, each with the place it has come to, and `VoicesMove` is all
that is needed of the transmitters. `WireInv` says of every state of In how voices can stand to it:
idle, they have yet to begin; in start, each was heard from its first half bit; in data, each is
in step and agrees with every whole bit read, or has just come between and makes an error of the
next bit (`Late`), and if none is in step all that was read is noise; in the pause and while
suppressed, none is silent for as long as In waits (`FallsSilent`). `WireStep` shows that one
half bit keeps it, a lemma for each state. `OwnIsNeverForeign`, the other half of
`HeardIsTrue`, needs neither assumption: what was aired since In was idle is what the flush
remembers (`OwnInv`), because `own` is cleared only when In is idle.

Every invariant and every action property of the passing runs but `RuleMeans` is a theorem. Only
model-checked: `RuleMeans`, because the meaning of a rule is a recursive operator
on trees of statements and the provers have no induction over those; and all liveness (`RulesRun`,
`QueueIsFlushed`, `EventuallyAtRest` of three modules, `EventuallyDark`, `NoneStaysDue`,
`EveryRuleEnds`, `WaitsEnd`), which the prover does not do. `CompilesAsShipped` and
`ShippedRulesAreSound` are evaluated, not proved: they are about given tables. For `PlanMakesProgress`
and `TimersMoveOn` the proved step (nearer, later) is what the corresponding liveness rests on.

## 5. Not modelled

What HueLoop assumes away and the code does not: `connectToHub` sets `connectedToHub`
before the lamps are mapped, so an exception in between leaves every lamp unknown for
good (`ConnectFails` reaches this; no property promises more); a lamp the bridge does not
list keeps the planner at its house code for ever, because its reply carries no commands
(`NotKnown`) and only the first house code with a change is served. Finding the bridge and
saving its credentials are HTTP and files.

Left out, and why:

* the rule file loader (`readcodefile.cpp`, `map.cpp`, `message.cpp`): a sequential parser
  that ends the program on any error; the layout of actions it leaves is Vm's `Code`;
* the supervisor and the keyboard (`smart8r.cpp`, parts of `runtime.cpp`, `testthread.cpp`):
  terminal input, joining and restarting threads; a key that sets a wish does so on the rules
  thread without the lock that rules take;
* ports, GPIO and the timing within a half cycle: memory mapped I/O; the link's models of the
  two units say what comes back and when;
* logging: formatting; nothing depends on it;
* the vendored Hue library and `json.hpp` (`src/hueplusplus`): third-party code and three
  quarters of the repository's lines. What the house uses of it is HueLoop's commit.

Further work, in order of use: fired house and device actions in X10Pipeline; the supervisor's
restarts of a failed thread.
