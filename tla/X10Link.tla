-------------------------------- MODULE X10Link --------------------------------
(***************************************************************************)
(* The X10 link, half bit by half bit: Ctw523Out, Ctw523In and the half    *)
(* cycle, the sending of one message and the wait for quiet of Ctw523.     *)
(*                                                                         *)
(* Every zero crossing of the mains carries one half bit.  A message is    *)
(* 1110 and then each bit followed by its complement; it is sent twice,    *)
(* and six silent half bits end it.  The TW523 unit hands the second copy  *)
(* of what is on the mains to the receive port; the half bit sent is read  *)
(* back in the same half cycle (Lag = 1), or, as the simulated unit of     *)
(* src/Win does, one half cycle early, as soon as the first copy is read   *)
(* (Lag = 0).  Another transmitter is the same machine as Ctw523Out and    *)
(* looks at nothing; on the wire a one drowns a zero; the wire also picks  *)
(* up noise, and the unit may miss a message.                              *)
(***************************************************************************)
EXTENDS Integers, Sequences

CONSTANTS Length,      \* X10_MESSAGE_LENGTH, bits of a message
          Messages,    \* what the queue may hold
          Foreign,     \* what the other transmitter may send
          Quiet,       \* half cycles of silence waitForQuiet asks for
          NoisyLastBit,\* may noise hit the last bit of a message?
          MaxForeign, MaxNoise  \* bounds: other messages, half bits disturbed

Message == [1 .. Length -> BOOLEAN]
NoMessage == [i \in 1 .. Length |-> FALSE]   \* x10_sent_message == 0

ASSUME LengthAssumption == Length \in Nat \ {0}
ASSUME MessagesAssumption == Messages \subseteq Message /\ Foreign \subseteq Message
ASSUME BoundsAssumption == Quiet \in Nat /\ MaxForeign \in Nat /\ MaxNoise \in Nat

VARIABLES lag,         \* 0: the simulated unit, 1: the unit
          out,         \* Ctw523Out
          in,          \* Ctw523In
          own,         \* Ctw523::x10_sent_message
          phase,       \* of the flush: "idle", "wait" for quiet, "send"
          other,       \* the other transmitter
          lost,        \* the unit misses the message being sent
          heard,       \* what the last half cycle pushed to the rules: none or one
          foreignLeft, noiseLeft,
          disturbed,   \* history: something else was on the wire since SendMessage
          aired        \* history: <<who, message>> on the wire since In was idle

vars == <<lag, out, in, own, phase, other, lost, heard, foreignLeft, noiseLeft,
          disturbed, aired>>
bounds == <<foreignLeft, noiseLeft>>

Transmitter == [state |-> "none", counter |-> 0, first |-> TRUE, sending |-> NoMessage]

Init ==
    /\ lag \in {0, 1}
    /\ out = [line |-> Transmitter, transmission |-> "not acknowledged"]
    /\ in = [state |-> "none", counter |-> 0, message |-> <<>>, quiet |-> 0]
    /\ own = NoMessage /\ phase = "idle"
    /\ other = Transmitter /\ lost = FALSE
    /\ heard = {}
    /\ foreignLeft = MaxForeign /\ noiseLeft = MaxNoise
    /\ disturbed = FALSE /\ aired = {}

----------------------------------------------------------------------------
(* Sending: calc_Output_HalfBit                                            *)

Begun(t) ==
    IF t.state = "none" /\ t.sending # NoMessage
    THEN [t EXCEPT !.state = "start", !.counter = 3, !.first = TRUE] ELSE t

HalfBit(t) ==
    LET b == Begun(t)
    IN CASE b.state = "start" -> b.counter > 0
         [] b.state = "data" ->
              LET bit == b.sending[Length - ((b.counter - 1) \div 2)]
              IN IF b.counter % 2 = 0 THEN bit ELSE ~bit
         [] OTHER -> FALSE

\* Variant: what comes after the second copy forgets that the next is a first.
AfterForgetful(t) ==
    LET b == Begun(t)
    IN CASE b.state = "start" /\ b.counter > 0 -> [b EXCEPT !.counter = @ - 1]
         [] b.state = "start" /\ b.counter = 0 ->
              [b EXCEPT !.state = "data", !.counter = 2 * Length]
         [] b.state = "data" /\ b.counter > 1 -> [b EXCEPT !.counter = @ - 1]
         [] b.state = "data" /\ b.counter = 1 ->
              IF b.first THEN [b EXCEPT !.state = "start", !.counter = 3, !.first = FALSE]
                         ELSE [b EXCEPT !.state = "pause", !.counter = 6]
         [] b.state = "pause" /\ b.counter > 1 -> [b EXCEPT !.counter = @ - 1]
         [] b.state = "pause" /\ b.counter = 1 ->
              [b EXCEPT !.state = "none", !.counter = 0, !.sending = NoMessage]
         [] OTHER -> b

After(t) ==
    LET b == Begun(t)
    IN CASE b.state = "start" /\ b.counter > 0 -> [b EXCEPT !.counter = @ - 1]
         [] b.state = "start" /\ b.counter = 0 ->
              [b EXCEPT !.state = "data", !.counter = 2 * Length]
         [] b.state = "data" /\ b.counter > 1 -> [b EXCEPT !.counter = @ - 1]
         [] b.state = "data" /\ b.counter = 1 ->
              IF b.first THEN [b EXCEPT !.state = "start", !.counter = 3, !.first = FALSE]
                         ELSE [b EXCEPT !.state = "pause", !.counter = 6]
         [] b.state = "pause" /\ b.counter > 1 -> [b EXCEPT !.counter = @ - 1]
         [] b.state = "pause" /\ b.counter = 1 -> Transmitter
         [] OTHER -> b

ClearToSend == out.line.state = "none" /\ out.line.sending = NoMessage
Sends(t) == t.sending # NoMessage

----------------------------------------------------------------------------
(* The unit                                                                *)
SecondCopy(t) == ~t.first /\ t.state \in {"start", "data"}
Seen(t) == IF lag = 0 THEN After(t) ELSE Begun(t)
OnWire(t) == SecondCopy(Seen(t))
Echo(t) == OnWire(t) /\ HalfBit(Seen(t))

\* The first half of the last bit of what is handed on.
LastBit(t) == OnWire(t) /\ Seen(t).state = "data" /\ Seen(t).counter <= 2

----------------------------------------------------------------------------
(* Receiving: processReceivedHalfBit                                       *)

\* Variant: six silent half bits are waited for.
HeardLate(i, bit) == i.state = "pause" /\ ~bit /\ i.counter + 1 >= 6

\* Five silent half bits end a message, "fiddled down" from six.
Heard(i, bit) == i.state = "pause" /\ ~bit /\ i.counter + 1 >= 5

To(i, state, counter) == [i EXCEPT !.state = state, !.counter = counter]
Count(i) == [i EXCEPT !.counter = @ + 1]

\* Variant: the second half of a bit is not looked at.
DataFirstHalves(i, bit) ==
    LET n == i.counter + 1
        read == IF n % 2 = 1 THEN [i EXCEPT !.message = Append(@, bit)] ELSE i
    IN IF n = 2 * Length THEN To(read, "pause", 0) ELSE To(read, "data", n)

\* Variant: a message is a bit longer.
DataTooLong(i, bit) ==
    LET n == i.counter + 1
        read == IF n % 2 = 1 THEN [i EXCEPT !.message = Append(@, bit)] ELSE i
    IN IF n = 2 * Length + 2 THEN To(read, "pause", 0) ELSE To(read, "data", n)

\* A bit whose halves are equal is an error, unless it is the last one: the end
\* of the message overrides the error.
DataHalfBit(i, bit) ==
    LET n == i.counter + 1
        firstHalf == n % 2 = 1
        read == IF firstHalf THEN [i EXCEPT !.message = Append(@, bit)] ELSE i
    IN IF n = 2 * Length THEN To(read, "pause", 0)
       ELSE IF ~firstHalf /\ i.message[Len(i.message)] = bit THEN To(read, "error", n)
       ELSE To(read, "data", n)

Suppressed(i, bit) ==
    CASE bit -> To(i, "suppress", 0)
      [] ~bit /\ i.counter + 1 = 6 -> To(i, "none", 6)
      [] OTHER -> To(i, "suppress", i.counter + 1)

\* Variant: an error is not followed by the suppression.
FailedForGood(i, bit) == To(i, "error", 0)

\* After an error the counter starts again, and this half bit is suppressed.
Failed(i, bit) == To(i, "suppress", 0)

Receive(i, bit) ==
    CASE i.state = "none" -> To(i, IF bit THEN "start" ELSE "none", 0)
      [] i.state = "start" ->
           IF bit THEN Count(i)
           ELSE IF i.counter + 1 = 3 THEN [To(i, "data", 0) EXCEPT !.message = <<>>]
           ELSE To(i, "error", i.counter + 1)
      [] i.state = "data" -> DataHalfBit(i, bit)
      [] i.state = "pause" ->
           IF bit THEN To(i, "error", i.counter + 1)
           ELSE IF Heard(i, bit) THEN To(i, "none", i.counter + 1)
           ELSE Count(i)
      [] i.state = "error" -> Failed(i, bit)
      [] i.state = "suppress" -> Suppressed(i, bit)

\* centiseconds_since_last_data_received, as far as waitForQuiet looks.
QuietAfter(i, bit) == IF bit THEN 0 ELSE IF i.quiet > Quiet THEN i.quiet ELSE i.quiet + 1

IsReadyToReceive == in.state = "none"
IsQuiet == IsReadyToReceive /\ in.quiet > Quiet

\* noteMessageReceived
Noted(o, message) ==
    CASE message = o.line.sending -> [o EXCEPT !.transmission = "acknowledged"]
      [] message # o.line.sending /\ Sends(o.line) -> [o EXCEPT !.transmission = "different"]
      [] OTHER -> o

----------------------------------------------------------------------------
(* do_half_cycle: the half bit is computed and sent, the wire is sampled,  *)
(* and a message that has been received is noted and pushed.               *)

HalfCycle(noise) ==
    LET onWire == (Echo(out.line) /\ ~lost) \/ Echo(other)
        bit == onWire \/ noise
        sent == [out EXCEPT !.line = After(@)]
        received == [Receive(in, bit) EXCEPT !.quiet = QuietAfter(in, bit)]
    IN /\ noise => noiseLeft > 0
       /\ noise /\ ~NoisyLastBit => ~LastBit(out.line) /\ ~LastBit(other)
       /\ noiseLeft' = IF noise THEN noiseLeft - 1 ELSE noiseLeft
       /\ in' = received
       /\ IF Heard(in, bit)
          THEN /\ out' = Noted(sent, in.message)
               /\ heard' = {[external |-> in.message # own, message |-> in.message]}
          ELSE out' = sent /\ heard' = {}
       /\ other' = After(other)
       /\ disturbed' = (disturbed \/ noise \/ Sends(other))
       /\ aired' = (IF in.state = "none" THEN {} ELSE aired)
                   \cup (IF OnWire(out.line) THEN {<<"own", out.line.sending>>} ELSE {})
                   \cup (IF OnWire(other) THEN {<<"other", other.sending>>} ELSE {})
       /\ UNCHANGED <<lag, own, phase, lost, foreignLeft>>

\* The thread goes from half cycle to half cycle: with nothing to send, while it
\* waits for quiet, and while it sends (mSendMessage's loop).
Sending == phase = "send" /\ ~(ClearToSend /\ IsReadyToReceive)
HalfCycles ==
    /\ phase = "idle" \/ (phase = "wait" /\ ~IsQuiet) \/ Sending
    /\ \E noise \in BOOLEAN : HalfCycle(noise)

----------------------------------------------------------------------------
(* The flush: mFlushQueue and what it calls, with X10Pipeline's choices of *)
(* what to retry left open.                                                *)

\* What SendMessage asserts.
MaySend == out.line.state = "none" /\ out.line.counter = 0 /\ out.line.first

\* Variant: the message is remembered only when the next one is sent.
SendUnremembered(message) ==
    /\ MaySend
    /\ out' = [line |-> [out.line EXCEPT !.sending = message],
               transmission |-> "not acknowledged"]
    /\ phase' = "send"
    /\ lost' \in BOOLEAN
    /\ lost' => noiseLeft > 0
    /\ noiseLeft' = IF lost' THEN noiseLeft - 1 ELSE noiseLeft
    /\ disturbed' = (lost' \/ Sends(other))
    /\ heard' = {}
    /\ UNCHANGED <<lag, in, own, other, foreignLeft, aired>>

SendMessage(message) ==
    /\ MaySend
    /\ out' = [line |-> [out.line EXCEPT !.sending = message],
               transmission |-> "not acknowledged"]
    /\ own' = message /\ phase' = "send"
    /\ lost' \in BOOLEAN
    /\ lost' => noiseLeft > 0
    /\ noiseLeft' = IF lost' THEN noiseLeft - 1 ELSE noiseLeft
    /\ disturbed' = (lost' \/ Sends(other))
    /\ heard' = {}
    /\ UNCHANGED <<lag, in, other, foreignLeft, aired>>

BeginFlush ==
    /\ phase = "idle"
    /\ phase' = "wait" /\ heard' = {}
    /\ UNCHANGED <<lag, out, in, own, other, lost, bounds, disturbed, aired>>

SendWhenQuiet ==
    /\ phase = "wait" /\ IsQuiet
    /\ \E message \in Messages : SendMessage(message)

Sent == phase = "send" /\ ClearToSend /\ IsReadyToReceive
Acknowledged == out.transmission = "acknowledged"

\* The next message of the queue follows at once.
SendNext ==
    /\ Sent /\ Acknowledged
    /\ \E message \in Messages : SendMessage(message)

\* Not acknowledged: the message, or the queue, again after a wait for quiet.
Retry ==
    /\ Sent /\ ~Acknowledged
    /\ phase' = "wait" /\ heard' = {}
    /\ UNCHANGED <<lag, out, in, own, other, lost, bounds, disturbed, aired>>

\* The queue is empty, or it is given up.
EndFlush ==
    /\ Sent
    /\ phase' = "idle" /\ own' = NoMessage /\ heard' = {}
    /\ UNCHANGED <<lag, out, in, other, lost, bounds, disturbed, aired>>

ForeignSends ==
    /\ foreignLeft > 0 /\ ~Sends(other)
    /\ \E message \in Foreign : other' = [other EXCEPT !.sending = message]
    /\ foreignLeft' = foreignLeft - 1
    /\ disturbed' = TRUE /\ heard' = {}
    /\ UNCHANGED <<lag, out, in, own, phase, lost, noiseLeft, aired>>

Next == \/ HalfCycles \/ BeginFlush \/ SendWhenQuiet \/ SendNext \/ Retry \/ EndFlush
        \/ ForeignSends

\* The mains goes on crossing zero and the thread goes on; nothing makes it
\* begin a flush, and nobody else has to send.
Spec == Init /\ [][Next]_vars /\ WF_vars(HalfCycles \/ SendWhenQuiet \/ Retry \/ EndFlush)

----------------------------------------------------------------------------
States == {"none", "start", "data", "pause"}
Line == [state : States, counter : Nat, first : BOOLEAN, sending : Message]
TransmitterOK(t) ==
    /\ t \in Line
    /\ t.state = "none" => t.counter = 0
    /\ t.state = "start" => t.counter <= 3
    /\ t.state = "data" => t.counter \in 1 .. 2 * Length
    /\ t.state = "pause" => t.counter \in 1 .. 6

\* The counters stay in the range of their state, and In holds no more bits
\* than a message has.
TypeOK ==
    /\ lag \in {0, 1}
    /\ out \in [line : Line, transmission : {"not acknowledged", "acknowledged", "different"}]
    /\ TransmitterOK(out.line) /\ TransmitterOK(other)
    /\ in \in [state : States \cup {"error", "suppress"}, counter : Nat,
               message : Seq(BOOLEAN), quiet : 0 .. Quiet + 1]
    /\ Len(in.message) <= Length
    /\ in.state = "data" => /\ in.counter < 2 * Length
                            /\ Len(in.message) = (in.counter + 1) \div 2
    /\ in.state = "pause" => Len(in.message) = Length /\ in.counter < 5
    /\ own \in Message /\ phase \in {"idle", "wait", "send"}
    /\ lost \in BOOLEAN /\ disturbed \in BOOLEAN
    /\ foreignLeft \in 0 .. MaxForeign /\ noiseLeft \in 0 .. MaxNoise

\* SendMessage's assertions hold whenever it is called: after the wait for
\* quiet, which does not look at Ctw523Out, and between the messages of a
\* flush (tw523out.cpp:89-92).
SendAssertionsHold == (phase = "wait" /\ IsQuiet) \/ Sent => MaySend

\* A message that nothing else on the wire disturbs is acknowledged when
\* mSendMessage returns: its echo ends before the sending does, for the unit
\* and for the simulated one (tw523in.cpp:94-97, tw523out.cpp:65-79).
UndisturbedIsAcknowledged == Sent /\ ~disturbed => Acknowledged

\* Everything heard was sent by somebody, and what is heard as somebody else's
\* was sent by somebody else, even if the program sends the same.
WasSent(h) == \E who \in {"own", "other"} : <<who, h.message>> \in aired
IsForeign(h) == <<"own", h.message>> \in aired => <<"other", h.message>> \in aired

\* What is handed to the rules is true, however two transmissions overlap and
\* whichever half bit noise hits, and although own is cleared by the flush and
\* out by the half cycle, each at its own time (tw523in.cpp:63-91,
\* tw523.cpp:194-208, 397).
HeardIsTrue == \A h \in heard : WasSent(h) /\ (h.external => IsForeign(h))

\* The wait for quiet and the sending of a message both end, whatever was on
\* the wire (tw523.cpp:325, 411).
WaitsEnd == /\ phase = "wait" ~> phase # "wait"
            /\ Sending ~> ~Sending
=============================================================================
