---------------------------- MODULE X10LinkProofs ----------------------------
(***************************************************************************)
(* The X10 link, for messages of any length, any other transmitter and any *)
(* number of disturbances.                                                 *)
(***************************************************************************)
EXTENDS X10Link, TLAPS

-----------------------------------------------------------------------------
(* Types                                                                   *)

LEMMA Constants ==
    /\ Length \in Nat /\ Length > 0 /\ NoMessage \in Message
    /\ Messages \subseteq Message /\ Foreign \subseteq Message
    /\ Quiet \in Nat /\ MaxForeign \in Nat /\ MaxNoise \in Nat
  BY LengthAssumption, MessagesAssumption, BoundsAssumption DEF NoMessage, Message

LEMMA TransmitterType == TransmitterOK(Transmitter)
  BY Constants DEF TransmitterOK, Transmitter, Line, States

LEMMA RecordOK ==
    ASSUME NEW s \in States, NEW c \in Nat, NEW f \in BOOLEAN, NEW m \in Message,
           s = "none" => c = 0, s = "start" => c <= 3,
           s = "data" => c \in 1 .. 2 * Length, s = "pause" => c \in 1 .. 6
    PROVE  TransmitterOK([state |-> s, counter |-> c, first |-> f, sending |-> m])
  BY DEF TransmitterOK, Line

LEMMA BegunType ==
    ASSUME NEW t, TransmitterOK(t)
    PROVE  TransmitterOK(Begun(t))
  <1>1. CASE Begun(t) = t
    BY <1>1
  <1>2. CASE Begun(t) # t
    <2>1. Begun(t) = [t EXCEPT !.state = "start", !.counter = 3, !.first = TRUE]
      BY <1>2 DEF Begun
    <2>2. Begun(t) = [state |-> "start", counter |-> 3, first |-> TRUE, sending |-> t.sending]
      BY <2>1 DEF TransmitterOK, Line
    <2> QED
      BY <2>2, RecordOK DEF TransmitterOK, Line, States
  <1> QED
    BY <1>1, <1>2

LEMMA AfterType ==
    ASSUME NEW t, TransmitterOK(t)
    PROVE  TransmitterOK(After(t))
  <1> DEFINE b == Begun(t)
  <1>1. TransmitterOK(b)
    BY BegunType
  <1>2. b \in Line /\ b.state \in States /\ b.counter \in Nat
    BY <1>1 DEF TransmitterOK, Line
  <1> HIDE DEF b
  <1>3. CASE b.state = "none"
    <2>1. After(t) = b
      BY <1>3 DEF After, b
    <2> QED
      BY <1>1, <2>1
  <1>4. CASE b.state = "start" /\ b.counter > 0
    <2>1. After(t) = [b EXCEPT !.counter = b.counter - 1]
      BY <1>4 DEF After, b
    <2> QED
      BY <1>1, <1>2, <1>4, <2>1 DEF TransmitterOK, Line
  <1>5. CASE b.state = "start" /\ b.counter = 0
    <2>1. After(t) = [b EXCEPT !.state = "data", !.counter = 2 * Length]
      BY <1>5 DEF After, b
    <2>2. After(t) = [state |-> "data", counter |-> 2 * Length, first |-> b.first,
                      sending |-> b.sending]
      BY <1>2, <2>1 DEF Line
    <2>3. b.first \in BOOLEAN /\ b.sending \in Message
      BY <1>2 DEF Line
    <2>4. 2 * Length \in Nat /\ 2 * Length \in 1 .. 2 * Length
      BY Constants
    <2>5. "data" \in States
      BY DEF States
    <2>6. \A c \in Nat : c \in 1 .. 2 * Length =>
            TransmitterOK([state |-> "data", counter |-> c, first |-> b.first,
                           sending |-> b.sending])
      BY <2>3, <2>5, RecordOK
    <2> QED
      BY <2>2, <2>4, <2>6
  <1>6. CASE b.state = "data" /\ b.counter > 1
    <2>1. After(t) = [b EXCEPT !.counter = b.counter - 1]
      BY <1>6 DEF After, b
    <2> QED
      BY <1>1, <1>2, <1>6, <2>1, Constants DEF TransmitterOK, Line
  <1>7. CASE b.state = "data" /\ b.counter = 1
    <2>1. After(t) = IF b.first
                     THEN [b EXCEPT !.state = "start", !.counter = 3, !.first = FALSE]
                     ELSE [b EXCEPT !.state = "pause", !.counter = 6]
      BY <1>7 DEF After, b
    <2>2. b.sending \in Message
      BY <1>2 DEF Line
    <2>3. CASE b.first
      <3>1. After(t) = [state |-> "start", counter |-> 3, first |-> FALSE,
                        sending |-> b.sending]
        BY <1>2, <2>1, <2>3 DEF Line
      <3> QED
        BY <2>2, <3>1 DEF TransmitterOK, Line, States
    <2>4. CASE ~b.first
      <3>1. After(t) = [state |-> "pause", counter |-> 6, first |-> b.first,
                        sending |-> b.sending]
        BY <1>2, <2>1, <2>4 DEF Line
      <3>2. b.first \in BOOLEAN
        BY <1>2 DEF Line
      <3> QED
        BY <2>2, <3>1, <3>2, RecordOK DEF States
    <2> QED
      BY <2>3, <2>4
  <1>8. CASE b.state = "pause" /\ b.counter > 1
    <2>1. After(t) = [b EXCEPT !.counter = b.counter - 1]
      BY <1>8 DEF After, b
    <2> QED
      BY <1>1, <1>2, <1>8, <2>1 DEF TransmitterOK, Line
  <1>9. CASE b.state = "pause" /\ b.counter = 1
    <2>1. After(t) = Transmitter
      BY <1>9 DEF After, b
    <2> QED
      BY <2>1, TransmitterType
  <1> QED
    BY <1>1, <1>2, <1>3, <1>4, <1>5, <1>6, <1>7, <1>8, <1>9 DEF TransmitterOK, States

\* What TypeOK says of In.
ReceiverOK(i) ==
    /\ i \in [state : States \cup {"error", "suppress"}, counter : Nat,
              message : Seq(BOOLEAN), quiet : 0 .. Quiet + 1]
    /\ Len(i.message) <= Length
    /\ i.state = "data" => /\ i.counter < 2 * Length
                           /\ Len(i.message) = (i.counter + 1) \div 2
    /\ i.state = "pause" => Len(i.message) = Length /\ i.counter < 5

LEMMA ToType ==
    ASSUME NEW i, ReceiverOK(i), NEW s \in {"none", "start", "error", "suppress"}, NEW c \in Nat
    PROVE  ReceiverOK(To(i, s, c))
  BY DEF ReceiverOK, To, States

LEMMA ReceiveType ==
    ASSUME NEW i, ReceiverOK(i), NEW bit \in BOOLEAN
    PROVE  ReceiverOK(Receive(i, bit))
  <1>0. /\ i.counter \in Nat /\ i.message \in Seq(BOOLEAN) /\ Len(i.message) \in Nat
        /\ i.state \in States \cup {"error", "suppress"}
    BY DEF ReceiverOK
  <1>1. CASE i.state = "none"
    <2>1. Receive(i, bit) = To(i, IF bit THEN "start" ELSE "none", 0)
      BY <1>1 DEF Receive
    <2> QED
      BY <2>1, ToType
  <1>2. CASE i.state = "start"
    <2>1. CASE bit
      <3>1. Receive(i, bit) = Count(i)
        BY <1>2, <2>1 DEF Receive
      <3> QED
        BY <1>0, <1>2, <3>1 DEF ReceiverOK, Count
    <2>2. CASE ~bit /\ i.counter + 1 = 3
      <3>1. Receive(i, bit) = [To(i, "data", 0) EXCEPT !.message = <<>>]
        BY <1>2, <2>2 DEF Receive
      <3>2. Receive(i, bit) = [state |-> "data", counter |-> 0, message |-> <<>>,
                               quiet |-> i.quiet]
        BY <1>0, <3>1 DEF ReceiverOK, To
      <3>3. <<>> \in Seq(BOOLEAN) /\ Len(<<>>) = 0 /\ i.quiet \in 0 .. Quiet + 1
        BY DEF ReceiverOK
      <3>4. 0 < 2 * Length /\ 0 <= Length /\ (0 + 1) \div 2 = 0 /\ 0 \in Nat
        BY Constants
      <3> DEFINE r == Receive(i, bit)
      <3>5. /\ r.state = "data" /\ r.counter = 0 /\ r.message = <<>>
            /\ r \in [state : States \cup {"error", "suppress"}, counter : Nat,
                      message : Seq(BOOLEAN), quiet : 0 .. Quiet + 1]
        BY <3>2, <3>3, <3>4 DEF States
      <3> HIDE DEF r
      <3>6. Len(r.message) = 0 /\ r.state # "pause" /\ (r.counter + 1) \div 2 = 0
        BY <3>3, <3>4, <3>5
      <3>7. Len(r.message) <= Length /\ r.counter < 2 * Length
        BY <3>4, <3>5, <3>6
      <3>8. ReceiverOK(r)
        BY <3>5, <3>6, <3>7 DEF ReceiverOK
      <3> QED
        BY <3>8 DEF r
    <2>3. CASE ~bit /\ i.counter + 1 # 3
      <3>1. Receive(i, bit) = To(i, "error", i.counter + 1)
        BY <1>2, <2>3 DEF Receive
      <3>2. \A c \in Nat : ReceiverOK(To(i, "error", c))
        BY ToType
      <3>3. i.counter + 1 \in Nat
        BY <1>0
      <3> QED
        BY <3>1, <3>2, <3>3, Zenon
    <2> QED
      BY <2>1, <2>2, <2>3
  <1>3. CASE i.state = "data"
    <2> DEFINE n == i.counter + 1
    <2> DEFINE read == IF n % 2 = 1 THEN [i EXCEPT !.message = Append(i.message, bit)] ELSE i
    <2>1. Receive(i, bit) = IF n = 2 * Length THEN To(read, "pause", 0)
                            ELSE IF n % 2 # 1 /\ i.message[Len(i.message)] = bit
                                 THEN To(read, "error", n)
                                 ELSE To(read, "data", n)
      BY <1>3 DEF Receive, DataHalfBit
    <2>2. /\ n \in Nat /\ n <= 2 * Length /\ Len(i.message) = n \div 2
          /\ n % 2 = 1 => n < 2 * Length
      BY <1>0, <1>3, Constants DEF ReceiverOK
    <2>3. /\ read \in [state : States \cup {"error", "suppress"}, counter : Nat,
                       message : Seq(BOOLEAN), quiet : 0 .. Quiet + 1]
          /\ Len(read.message) = (n + 1) \div 2 /\ (n + 1) \div 2 <= Length
      <3>1. CASE n % 2 = 1
        <4>1. Append(i.message, bit) \in Seq(BOOLEAN)
              /\ Len(Append(i.message, bit)) = Len(i.message) + 1
          BY <1>0
        <4>2. (n + 1) \div 2 = n \div 2 + 1 /\ (n + 1) \div 2 <= Length
          <5>1. PICK k \in Nat : n = 2 * k + 1
            BY <2>2, <3>1
          <5> QED
            BY <2>2, <3>1, <5>1, Constants
        <4> QED
          BY <2>2, <3>1, <4>1, <4>2 DEF ReceiverOK
      <3>2. CASE n % 2 # 1
        <4>1. (n + 1) \div 2 = n \div 2 /\ (n + 1) \div 2 <= Length
          BY <2>2, <3>2, Constants
        <4> QED
          BY <2>2, <3>2, <4>1 DEF ReceiverOK
      <3> QED
        BY <3>1, <3>2
    <2> HIDE DEF n, read
    <2>4. CASE n = 2 * Length
      <3>1. (n + 1) \div 2 = Length
        BY <2>4, Constants
      <3>2. Receive(i, bit) = [state |-> "pause", counter |-> 0, message |-> read.message,
                               quiet |-> read.quiet]
        BY <2>1, <2>3, <2>4 DEF To
      <3>3. read.message \in Seq(BOOLEAN) /\ read.quiet \in 0 .. Quiet + 1
        BY <2>3
      <3>4. Len(read.message) = Length
        BY <2>3, <3>1
      <3> QED
        BY <3>2, <3>3, <3>4, Constants DEF ReceiverOK, States
    <2>5. CASE n # 2 * Length
      <3>1. n < 2 * Length
        BY <2>2, <2>5, Constants
      <3>2. Len(read.message) <= Length
        BY <2>3
      <3>3. Receive(i, bit) \in {To(read, "error", n), To(read, "data", n)}
        BY <2>1, <2>5
      <3>4. ReceiverOK(To(read, "error", n))
        BY <2>2, <2>3, <3>2 DEF ReceiverOK, To, States
      <3>5. ReceiverOK(To(read, "data", n))
        BY <2>2, <2>3, <3>1, <3>2 DEF ReceiverOK, To, States
      <3> QED
        BY <3>3, <3>4, <3>5
    <2> QED
      BY <2>4, <2>5
  <1>4. CASE i.state = "pause"
    <2>1. CASE bit
      BY <1>0, <1>4, <2>1, ToType DEF Receive
    <2>2. CASE ~bit /\ i.counter + 1 >= 5
      BY <1>0, <1>4, <2>2, ToType DEF Receive, Heard
    <2>3. CASE ~bit /\ i.counter + 1 < 5
      <3>1. Receive(i, bit) = Count(i)
        BY <1>0, <1>4, <2>3 DEF Receive, Heard
      <3> QED
        BY <1>0, <1>4, <2>3, <3>1 DEF ReceiverOK, Count
    <2> QED
      BY <1>0, <2>1, <2>2, <2>3
  <1>5. CASE i.state = "error"
    BY <1>5, ToType DEF Receive, Failed
  <1>6. CASE i.state = "suppress"
    <2>1. Receive(i, bit) = Suppressed(i, bit)
      BY <1>6 DEF Receive
    <2>2. CASE bit
      BY <2>1, <2>2, ToType DEF Suppressed
    <2>3. CASE ~bit /\ i.counter + 1 = 6
      BY <2>1, <2>3, ToType DEF Suppressed
    <2>4. CASE ~bit /\ i.counter + 1 # 6
      BY <1>0, <2>1, <2>4, ToType DEF Suppressed
    <2> QED
      BY <2>2, <2>3, <2>4
  <1> QED
    BY <1>0, <1>1, <1>2, <1>3, <1>4, <1>5, <1>6 DEF States

LEMMA NotedType ==
    ASSUME NEW o \in [line : Line, transmission : {"not acknowledged", "acknowledged", "different"}],
           NEW m
    PROVE  /\ Noted(o, m) \in
                 [line : Line, transmission : {"not acknowledged", "acknowledged", "different"}]
           /\ Noted(o, m).line = o.line
  BY DEF Noted

LEMMA TypeInit == Init => TypeOK
  <1> SUFFICES ASSUME Init PROVE TypeOK
    OBVIOUS
  <1>1. out \in [line : Line, transmission : {"not acknowledged", "acknowledged", "different"}]
    BY TransmitterType DEF Init, TransmitterOK
  <1>2. TransmitterOK(out.line) /\ TransmitterOK(other)
    BY TransmitterType DEF Init
  <1>3. in \in [state : States \cup {"error", "suppress"}, counter : Nat,
                message : Seq(BOOLEAN), quiet : 0 .. Quiet + 1]
    <2>1. <<>> \in Seq(BOOLEAN) /\ 0 \in Nat /\ 0 \in 0 .. Quiet + 1
      BY Constants
    <2>2. in = [state |-> "none", counter |-> 0, message |-> <<>>, quiet |-> 0]
      BY DEF Init
    <2> QED
      BY <2>1, <2>2 DEF States
  <1>4. Len(in.message) <= Length /\ in.state = "none"
    <2>1. in.message = <<>> /\ in.state = "none"
      BY DEF Init
    <2> QED
      BY <2>1, Constants
  <1>5. foreignLeft \in 0 .. MaxForeign /\ noiseLeft \in 0 .. MaxNoise
    <2>1. foreignLeft = MaxForeign /\ noiseLeft = MaxNoise
      BY DEF Init
    <2> QED
      BY <2>1, Constants
  <1>6. /\ lag \in {0, 1} /\ own \in Message /\ phase \in {"idle", "wait", "send"}
        /\ lost \in BOOLEAN /\ disturbed \in BOOLEAN
    BY Constants DEF Init
  <1> QED
    BY <1>1, <1>2, <1>3, <1>4, <1>5, <1>6 DEF TypeOK

LEMMA HalfCycleType ==
    ASSUME TypeOK, NEW noise \in BOOLEAN, HalfCycle(noise)
    PROVE  TypeOK'
  <1> DEFINE bit == ((Echo(out.line) /\ ~lost) \/ Echo(other)) \/ noise
  <1>1. bit \in BOOLEAN
    OBVIOUS
  <1>2. ReceiverOK(in) /\ in.quiet \in 0 .. Quiet + 1
    BY DEF TypeOK, ReceiverOK
  <1>3. in' = [Receive(in, bit) EXCEPT !.quiet = QuietAfter(in, bit)]
    BY DEF HalfCycle
  <1>4. ReceiverOK(Receive(in, bit))
    BY <1>1, <1>2, ReceiveType
  <1>5. QuietAfter(in, bit) \in 0 .. Quiet + 1
    BY <1>2, Constants DEF QuietAfter
  <1>6. ReceiverOK(in')
    <2> HIDE DEF bit
    <2> QED
      BY <1>3, <1>4, <1>5 DEF ReceiverOK
  <1> DEFINE sent == [out EXCEPT !.line = After(out.line)]
  <1>7. /\ sent \in [line : Line, transmission : {"not acknowledged", "acknowledged", "different"}]
        /\ sent.line = After(out.line) /\ TransmitterOK(sent.line)
    <2>1. TransmitterOK(After(out.line))
      BY AfterType DEF TypeOK
    <2> QED
      BY <2>1 DEF TypeOK, TransmitterOK
  <1>8. out' \in {sent, Noted(sent, in.message)}
    BY DEF HalfCycle
  <1>9. /\ out' \in [line : Line, transmission : {"not acknowledged", "acknowledged", "different"}]
        /\ TransmitterOK(out'.line)
    <2> HIDE DEF sent
    <2>1. /\ Noted(sent, in.message) \in [line : Line,
                 transmission : {"not acknowledged", "acknowledged", "different"}]
          /\ Noted(sent, in.message).line = sent.line
      BY <1>7, NotedType
    <2>2. CASE out' = sent
      BY <1>7, <2>2
    <2>3. CASE out' = Noted(sent, in.message)
      BY <1>7, <2>1, <2>3
    <2> QED
      BY <1>8, <2>2, <2>3
  <1>10. TransmitterOK(other')
    BY AfterType DEF TypeOK, HalfCycle
  <1>11. disturbed' \in BOOLEAN
    BY Zenon DEF HalfCycle
  <1>12. noiseLeft' \in 0 .. MaxNoise
    <2>1. noiseLeft \in 0 .. MaxNoise
      BY DEF TypeOK
    <2>2. /\ noise => noiseLeft > 0
          /\ noiseLeft' = IF noise THEN noiseLeft - 1 ELSE noiseLeft
      BY DEF HalfCycle
    <2> QED
      BY <2>1, <2>2, Constants
  <1>13. UNCHANGED <<lag, own, phase, lost, foreignLeft>>
    BY DEF HalfCycle
  <1> QED
    BY <1>6, <1>9, <1>10, <1>11, <1>12, <1>13 DEF TypeOK, ReceiverOK

LEMMA SendMessageType ==
    ASSUME TypeOK, NEW m \in Messages, SendMessage(m)
    PROVE  TypeOK'
  <1>1. m \in Message
    BY Constants
  <1>2. /\ out' = [line |-> [out.line EXCEPT !.sending = m], transmission |-> "not acknowledged"]
        /\ own' = m /\ phase' = "send" /\ lost' \in BOOLEAN
        /\ lost' => noiseLeft > 0
        /\ noiseLeft' = IF lost' THEN noiseLeft - 1 ELSE noiseLeft
        /\ UNCHANGED <<lag, in, other, foreignLeft>>
    BY DEF SendMessage
  <1>3. TransmitterOK([out.line EXCEPT !.sending = m])
    BY <1>1 DEF TypeOK, TransmitterOK, Line
  <1>4. /\ out' \in [line : Line, transmission : {"not acknowledged", "acknowledged", "different"}]
        /\ TransmitterOK(out'.line)
    BY <1>2, <1>3 DEF TransmitterOK
  <1>5. noiseLeft' \in 0 .. MaxNoise
    <2>1. noiseLeft \in 0 .. MaxNoise
      BY DEF TypeOK
    <2>2. CASE lost'
      <3>1. noiseLeft > 0 /\ noiseLeft' = noiseLeft - 1
        BY <1>2, <2>2, Zenon
      <3> QED
        BY <2>1, <3>1, Constants
    <2>3. CASE ~lost'
      <3>0. noiseLeft' = IF lost' THEN noiseLeft - 1 ELSE noiseLeft
        BY <1>2
      <3>1. noiseLeft' = noiseLeft
        BY <3>0, <2>3
      <3> QED
        BY <2>1, <3>1
    <2> QED
      BY <2>2, <2>3
  <1>6. disturbed' \in BOOLEAN
    BY Zenon DEF SendMessage
  <1> QED
    BY <1>1, <1>2, <1>4, <1>5, <1>6 DEF TypeOK

LEMMA TypeStep == TypeOK /\ [Next]_vars => TypeOK'
  <1> SUFFICES ASSUME TypeOK, [Next]_vars PROVE TypeOK'
    OBVIOUS
  <1>1. CASE HalfCycles
    BY <1>1, HalfCycleType DEF HalfCycles
  <1>2. CASE BeginFlush \/ Retry
    BY <1>2 DEF BeginFlush, Retry, bounds, TypeOK
  <1>3. CASE SendWhenQuiet \/ SendNext
    BY <1>3, SendMessageType DEF SendWhenQuiet, SendNext
  <1>4. CASE EndFlush
    BY <1>4, Constants DEF EndFlush, bounds, TypeOK
  <1>5. CASE ForeignSends
    <2>1. PICK m \in Foreign : other' = [other EXCEPT !.sending = m]
      BY <1>5 DEF ForeignSends
    <2>2. m \in Message
      BY Constants
    <2>3. TransmitterOK(other')
      BY <2>1, <2>2 DEF TypeOK, TransmitterOK, Line
    <2>4. foreignLeft' \in 0 .. MaxForeign
      <3>1. foreignLeft \in 0 .. MaxForeign
        BY DEF TypeOK
      <3>2. foreignLeft > 0 /\ foreignLeft' = foreignLeft - 1
        BY <1>5 DEF ForeignSends
      <3> QED
        BY <3>1, <3>2, Constants
    <2> QED
      BY <1>5, <2>3, <2>4 DEF ForeignSends, TypeOK
  <1>6. CASE UNCHANGED vars
    BY <1>6 DEF vars, bounds, TypeOK
  <1> QED
    BY <1>1, <1>2, <1>3, <1>4, <1>5, <1>6 DEF Next

-----------------------------------------------------------------------------
(* The transmitters                                                        *)

(* A transmitter is at rest exactly when it has nothing to send, and what   *)
(* it sends next will be a first copy; ours has something to send only      *)
(* while mSendMessage runs.                                                *)
LineInv(t) == /\ t.state = "none" => t.first
              /\ t.state # "none" => Sends(t)
              /\ t.state = "pause" => ~t.first
LinkInv == /\ LineInv(out.line) /\ LineInv(other)
           /\ phase # "send" => ~Sends(out.line)

LEMMA LineAfter ==
    ASSUME NEW t, TransmitterOK(t), LineInv(t)
    PROVE  /\ LineInv(After(t))
           /\ After(t).sending \in {t.sending, NoMessage}
           /\ ~Sends(t) => After(t) = t /\ Begun(t) = t
  <1> DEFINE b == Begun(t)
  <1>1. TransmitterOK(b)
    BY BegunType
  <1>2. b.sending = t.sending /\ (b.state # "none" => Sends(b)) /\ (b.state = "none" => b = t)
    BY DEF Begun, TransmitterOK, Line, LineInv, Sends
  <1> HIDE DEF b
  <1>3. CASE b.state = "none"
    <2>1. After(t) = t
      BY <1>2, <1>3 DEF After, b
    <2> QED
      BY <1>2, <1>3, <2>1 DEF b
  <1>4. CASE b.state = "pause" /\ b.counter = 1
    <2>1. After(t) = Transmitter
      BY <1>4 DEF After, b
    <2> QED
      BY <1>2, <1>4, <2>1 DEF Transmitter, LineInv, Sends
  <1>5. CASE b.state # "none" /\ ~(b.state = "pause" /\ b.counter = 1)
    <2>1. After(t).sending = b.sending /\ After(t).state # "none"
      BY <1>1, <1>5 DEF After, b, TransmitterOK, Line, States
    <2>2. b.state = "pause" => ~b.first
      BY DEF b, Begun, TransmitterOK, Line, LineInv
    <2>3. After(t).state = "pause" => ~After(t).first
      BY <1>1, <1>5, <2>2 DEF After, b, TransmitterOK, Line, States
    <2> QED
      BY <1>2, <1>5, <2>1, <2>3 DEF LineInv, Sends
  <1> QED
    BY <1>3, <1>4, <1>5

LEMMA LinkInit == Init => LinkInv
  <1> SUFFICES ASSUME Init PROVE LinkInv
    OBVIOUS
  <1>1. out.line = Transmitter /\ other = Transmitter
    BY DEF Init
  <1>2. Transmitter.state = "none" /\ Transmitter.first /\ Transmitter.sending = NoMessage
    BY DEF Transmitter
  <1> QED
    BY <1>1, <1>2 DEF LinkInv, LineInv, Sends

LEMMA OutAfter ==
    ASSUME TypeOK, NEW noise, HalfCycle(noise)
    PROVE  out'.line = After(out.line)
  <1> DEFINE sent == [out EXCEPT !.line = After(out.line)]
  <1>1. /\ sent \in [line : Line, transmission : {"not acknowledged", "acknowledged", "different"}]
        /\ sent.line = After(out.line)
    <2>1. TransmitterOK(After(out.line))
      BY AfterType DEF TypeOK
    <2> QED
      BY <2>1 DEF TypeOK, TransmitterOK
  <1>2. out' \in {sent, Noted(sent, in.message)}
    BY DEF HalfCycle
  <1> HIDE DEF sent
  <1> QED
    BY <1>1, <1>2, NotedType

LEMMA LinkStep == TypeOK /\ LinkInv /\ [Next]_vars => LinkInv'
  <1> SUFFICES ASSUME TypeOK, LinkInv, [Next]_vars PROVE LinkInv'
    OBVIOUS
  <1>1. CASE HalfCycles
    <2>1. PICK noise \in BOOLEAN : HalfCycle(noise)
      BY <1>1 DEF HalfCycles
    <2>2. out'.line = After(out.line) /\ other' = After(other) /\ phase' = phase
      BY <2>1, OutAfter DEF HalfCycle
    <2>3. /\ LineInv(After(out.line)) /\ LineInv(After(other))
          /\ ~Sends(out.line) => After(out.line) = out.line
      BY LineAfter DEF TypeOK, LinkInv
    <2>4. LineInv(out.line)' /\ LineInv(other)'
      BY <2>2, <2>3 DEF LineInv, Sends
    <2>5. ~Sends(out.line) => ~Sends(out.line)'
      BY <2>2, <2>3 DEF Sends
    <2> QED
      BY <2>2, <2>4, <2>5 DEF LinkInv
  <1>2. CASE BeginFlush \/ Retry \/ EndFlush
    BY <1>2 DEF BeginFlush, Retry, EndFlush, Sent, ClearToSend, LinkInv, LineInv, Sends
  <1>3. CASE SendWhenQuiet \/ SendNext
    <2>1. PICK m \in Messages : SendMessage(m)
      BY <1>3 DEF SendWhenQuiet, SendNext
    <2>2. out'.line = [out.line EXCEPT !.sending = m] /\ other' = other /\ phase' = "send"
      BY <2>1 DEF SendMessage
    <2>3. out.line.state = "none" /\ out.line.first
      BY <2>1 DEF SendMessage, MaySend
    <2>4. out'.line.state = "none" /\ out'.line.first
      BY <2>2, <2>3 DEF TypeOK, Line
    <2> QED
      BY <2>2, <2>4 DEF LinkInv, LineInv, Sends
  <1>4. CASE ForeignSends
    <2>1. PICK m \in Foreign : other' = [other EXCEPT !.sending = m]
      BY <1>4 DEF ForeignSends
    <2>2. other.state = "none" /\ other.first
      BY <1>4 DEF ForeignSends, LinkInv, LineInv
    <2>3. other'.state = "none" /\ other'.first
      BY <2>1, <2>2 DEF TypeOK, TransmitterOK, Line
    <2>4. UNCHANGED <<out, phase>>
      BY <1>4 DEF ForeignSends
    <2> QED
      BY <2>3, <2>4 DEF LinkInv, LineInv, Sends
  <1>5. CASE UNCHANGED vars
    BY <1>5 DEF vars, LinkInv, LineInv, Sends
  <1> QED
    BY <1>1, <1>2, <1>3, <1>4, <1>5 DEF Next

-----------------------------------------------------------------------------
(* The receiver in step with the transmitter                               *)

(* The half bits of a second copy and of the silence after it, counted.    *)
Second(t) == ~t.first /\ t.state # "none"
Position(t) == IF t.state = "start" THEN 3 - t.counter
               ELSE IF t.state = "data" THEN 4 + 2 * Length - t.counter
               ELSE 10 + 2 * Length - t.counter
BitAt(m, p) == \/ p < 3
               \/ /\ 4 <= p /\ p < 4 + 2 * Length
                  /\ m[(p - 4) \div 2 + 1] = (p % 2 = 0)

(* Where In is when it has had p of them.                                  *)
Stage(i, m, p) ==
    /\ p = 0 \/ p >= 9 + 2 * Length => i.state = "none"
    /\ p \in 1 .. 3 => i.state = "start" /\ i.counter = p - 1
    /\ p \in 4 .. 3 + 2 * Length =>
          /\ i.state = "data" /\ i.counter = p - 4
          /\ Len(i.message) = (p - 3) \div 2
          /\ \A j \in 1 .. Len(i.message) : i.message[j] = m[j]
    /\ p \in 4 + 2 * Length .. 8 + 2 * Length =>
          i.state = "pause" /\ i.counter = p - 4 - 2 * Length /\ i.message = m

(* While nothing disturbs what we send, In has had all that has been sent  *)
(* of the second copy (lag 1), or the next half bit of it as well (lag 0);  *)
(* it has the message, and has acknowledged it, before the sending ends.   *)
Received(t) == Position(t) + 1 - lag
LockedInv ==
    phase = "send" /\ ~disturbed =>
        /\ ~lost /\ ~Sends(other)
        /\ Second(out.line) =>
              /\ Stage(in, out.line.sending, Received(out.line))
              /\ Received(out.line) >= 9 + 2 * Length => Acknowledged
        /\ ~Second(out.line) => in.state = "none" /\ (~Sends(out.line) => Acknowledged)

LEMMA PositionType ==
    ASSUME NEW t, TransmitterOK(t), Second(t)
    PROVE  /\ Position(t) \in 0 .. 9 + 2 * Length
           /\ t.state = "start" <=> Position(t) <= 3
           /\ t.state = "data" <=> Position(t) \in 4 .. 3 + 2 * Length
           /\ t.state = "pause" <=> Position(t) >= 4 + 2 * Length
  BY Constants DEF TransmitterOK, Line, States, Second, Position

\* What the unit hands on of a second copy.
LEMMA HandedOn ==
    ASSUME NEW t, TransmitterOK(t), Second(t)
    PROVE  SecondCopy(t) /\ HalfBit(t) <=> BitAt(t.sending, Position(t))
  <1>1. Begun(t) = t
    BY DEF Begun, Second
  <1>2. /\ t.state \in States /\ t.counter \in Nat /\ t.sending \in [1 .. Length -> BOOLEAN]
        /\ ~t.first
    BY DEF TransmitterOK, Line, Message, Second
  <1>3. CASE t.state = "start"
    <2>1. HalfBit(t) <=> t.counter > 0
      BY <1>1, <1>3 DEF HalfBit
    <2>2. Position(t) = 3 - t.counter /\ t.counter <= 3
      BY <1>3 DEF Position, TransmitterOK
    <2>3. BitAt(t.sending, Position(t)) <=> t.counter > 0
      BY <1>2, <2>2 DEF BitAt
    <2> QED
      BY <1>2, <1>3, <2>1, <2>3 DEF SecondCopy
  <1>4. CASE t.state = "data"
    <2>1. t.counter \in 1 .. 2 * Length /\ Position(t) = 4 + 2 * Length - t.counter
      BY <1>4 DEF Position, TransmitterOK
    <2> DEFINE k == Length - ((t.counter - 1) \div 2)
    <2>2. /\ k \in 1 .. Length /\ (Position(t) - 4) \div 2 + 1 = k
          /\ 4 <= Position(t) /\ Position(t) < 4 + 2 * Length
          /\ Position(t) % 2 = t.counter % 2
      <3>1. CASE t.counter % 2 = 0
        <4>1. PICK j \in Nat : t.counter = 2 * j /\ 1 <= j /\ j <= Length
          <5>1. t.counter \div 2 \in Nat /\ t.counter = 2 * (t.counter \div 2)
            BY <2>1, <3>1, Constants
          <5> QED
            BY <2>1, <5>1, Constants
        <4>2. (t.counter - 1) \div 2 = j - 1 /\ (Position(t) - 4) \div 2 = Length - j
          BY <2>1, <4>1, Constants
        <4> QED
          BY <2>1, <4>1, <4>2, Constants
      <3>2. CASE t.counter % 2 # 0
        <4>1. PICK j \in Nat : t.counter = 2 * j + 1 /\ j < Length
          <5>1. t.counter \div 2 \in Nat /\ t.counter = 2 * (t.counter \div 2) + 1
            BY <2>1, <3>2, Constants
          <5> QED
            BY <2>1, <5>1, Constants
        <4>2. (t.counter - 1) \div 2 = j /\ (Position(t) - 4) \div 2 = Length - j - 1
          BY <2>1, <4>1, Constants
        <4> QED
          BY <2>1, <4>1, <4>2, Constants
      <3> QED
        BY <3>1, <3>2
    <2>3. HalfBit(t) = IF t.counter % 2 = 0 THEN t.sending[k] ELSE ~t.sending[k]
      BY <1>1, <1>4 DEF HalfBit
    <2> HIDE DEF k
    <2>4. t.sending[k] \in BOOLEAN
      BY <1>2, <2>2
    <2>5. ~(Position(t) < 3)
      BY <2>1, <2>2, Constants
    <2>6. BitAt(t.sending, Position(t)) <=> t.sending[k] = (t.counter % 2 = 0)
      BY <2>2, <2>5 DEF BitAt
    <2>7. HalfBit(t) <=> t.sending[k] = (t.counter % 2 = 0)
      <3>1. CASE t.counter % 2 = 0
        BY <2>3, <2>4, <3>1
      <3>2. CASE t.counter % 2 # 0
        BY <2>3, <2>4, <3>2
      <3> QED
        BY <3>1, <3>2
    <2>8. SecondCopy(t)
      BY <1>2, <1>4 DEF SecondCopy
    <2> QED
      BY <2>6, <2>7, <2>8
  <1>5. CASE t.state = "pause"
    <2>1. t.counter \in 1 .. 6 /\ Position(t) = 10 + 2 * Length - t.counter
      BY <1>5 DEF Position, TransmitterOK
    <2>2. ~BitAt(t.sending, Position(t))
      BY <2>1, Constants DEF BitAt
    <2> QED
      BY <1>5, <2>2 DEF SecondCopy
  <1> QED
    BY <1>2, <1>3, <1>4, <1>5 DEF States, Second

\* The transmitter takes the positions one by one, and is then at rest.
LEMMA SecondAfter ==
    ASSUME NEW t, TransmitterOK(t), Second(t)
    PROVE  \/ Position(t) = 9 + 2 * Length /\ After(t) = Transmitter
           \/ /\ Second(After(t)) /\ After(t).sending = t.sending
              /\ Position(After(t)) = Position(t) + 1
  <1>1. Begun(t) = t
    BY DEF Begun, Second
  <1>2. t \in Line /\ t.counter \in Nat /\ ~t.first /\ t.state \in {"start", "data", "pause"}
    BY DEF TransmitterOK, Line, Second, States
  <1>3. CASE t.state = "start" /\ t.counter = 0
    <2>1. After(t) = [t EXCEPT !.state = "data", !.counter = 2 * Length]
      BY <1>1, <1>3 DEF After
    <2>2. /\ After(t).state = "data" /\ After(t).counter = 2 * Length
          /\ After(t).first = t.first /\ After(t).sending = t.sending
      BY <1>2, <2>1 DEF Line
    <2> QED
      BY <1>2, <1>3, <2>2, Constants DEF Second, Position
  <1>4. CASE t.state = "data" /\ t.counter = 1
    <2>1. After(t) = [t EXCEPT !.state = "pause", !.counter = 6]
      BY <1>1, <1>2, <1>4 DEF After
    <2>2. /\ After(t).state = "pause" /\ After(t).counter = 6
          /\ After(t).first = t.first /\ After(t).sending = t.sending
      BY <1>2, <2>1 DEF Line
    <2> QED
      BY <1>2, <1>4, <2>2, Constants DEF Second, Position
  <1>5. CASE t.state = "pause" /\ t.counter = 1
    BY <1>1, <1>5, Constants DEF After, Position
  <1>6. CASE \/ t.state = "start" /\ t.counter > 0
             \/ t.state \in {"data", "pause"} /\ t.counter > 1
    <2>1. After(t) = [t EXCEPT !.counter = t.counter - 1]
      BY <1>1, <1>6 DEF After
    <2>2. /\ After(t).state = t.state /\ After(t).counter = t.counter - 1
          /\ After(t).first = t.first /\ After(t).sending = t.sending
      BY <1>2, <2>1 DEF Line
    <2> QED
      BY <1>2, <2>2, Constants DEF Second, Position
  <1> QED
    BY <1>2, <1>3, <1>4, <1>5, <1>6 DEF TransmitterOK

\* Before the second copy nothing is handed on, and nothing is given up.
LEMMA FirstAfter ==
    ASSUME NEW t, TransmitterOK(t), LineInv(t), Sends(t), ~Second(t)
    PROVE  /\ ~SecondCopy(Begun(t))
           /\ After(t).sending = t.sending
           /\ Second(After(t)) => Position(After(t)) = 0
  <1> DEFINE b == Begun(t)
  <1>1. TransmitterOK(b)
    BY BegunType
  <1>2. b.first /\ b.state \in {"start", "data"} /\ b.sending = t.sending
    BY DEF Begun, TransmitterOK, Line, LineInv, Sends, Second, States
  <1>3. b \in Line /\ b.counter \in Nat
    BY <1>1 DEF TransmitterOK, Line
  <1> HIDE DEF b
  <1>4. CASE b.state = "data" /\ b.counter = 1
    <2>1. After(t) = [b EXCEPT !.state = "start", !.counter = 3, !.first = FALSE]
      BY <1>2, <1>4 DEF After, b
    <2>2. After(t).state = "start" /\ After(t).counter = 3 /\ After(t).sending = b.sending
      BY <1>3, <2>1 DEF Line
    <2> QED
      BY <1>2, <2>2 DEF Position, SecondCopy, b
  <1>5. CASE ~(b.state = "data" /\ b.counter = 1)
    <2>1. After(t).first = b.first /\ After(t).sending = b.sending
      BY <1>1, <1>2, <1>3, <1>5 DEF After, b, TransmitterOK, Line
    <2> QED
      BY <1>2, <2>1 DEF Second, SecondCopy, b
  <1> QED
    BY <1>4, <1>5

\* In takes the positions one by one, and hears the message at the last but
\* one of the silent half bits that it waits for.
LEMMA ReceiveStage ==
    ASSUME NEW i, ReceiverOK(i), NEW m \in Message, NEW p \in Nat, Stage(i, m, p),
           NEW bit \in BOOLEAN, bit <=> BitAt(m, p)
    PROVE  /\ Stage(Receive(i, bit), m, p + 1)
           /\ Heard(i, bit) <=> p = 8 + 2 * Length
           /\ Heard(i, bit) => i.message = m
  <1>0. /\ i.counter \in Nat /\ i.message \in Seq(BOOLEAN) /\ Len(i.message) \in Nat
        /\ m \in [1 .. Length -> BOOLEAN] /\ Length \in Nat /\ Length > 0
    BY Constants DEF ReceiverOK, Message
  <1>1. CASE p = 0
    <2>1. bit /\ i.state = "none"
      BY <1>1 DEF BitAt, Stage
    <2>2. Receive(i, bit) = To(i, "start", 0)
      BY <2>1 DEF Receive
    <2>3. Receive(i, bit).state = "start" /\ Receive(i, bit).counter = 0
      BY <2>2 DEF To, ReceiverOK
    <2>4. ~Heard(i, bit)
      BY <2>1 DEF Heard
    <2>5. Stage(Receive(i, bit), m, p + 1)
      BY <1>0, <1>1, <2>3 DEF Stage
    <2> QED
      BY <1>0, <1>1, <2>4, <2>5
  <1>2. CASE 1 <= p /\ p <= 2
    <2>1. bit /\ i.state = "start" /\ i.counter = p - 1
      BY <1>2 DEF BitAt, Stage
    <2>2. Receive(i, bit) = Count(i)
      BY <2>1 DEF Receive
    <2>3. /\ Receive(i, bit).state = i.state
          /\ Receive(i, bit).counter = i.counter + 1
      BY <2>2 DEF Count, ReceiverOK
    <2>4. ~Heard(i, bit)
      BY <2>1 DEF Heard
    <2>5. Receive(i, bit).state = "start" /\ Receive(i, bit).counter = (p + 1) - 1
      <3>1. i.counter + 1 = (p + 1) - 1
        BY <2>1
      <3> QED
        BY <2>1, <2>3, <3>1
    <2>6. Stage(Receive(i, bit), m, p + 1)
      BY <1>0, <1>2, <2>5 DEF Stage
    <2> QED
      BY <1>0, <1>2, <2>4, <2>6
  <1>3. CASE p = 3
    <2>1. ~bit /\ i.state = "start" /\ i.counter = 2
      BY <1>3 DEF BitAt, Stage
    <2>2. Receive(i, bit) = [To(i, "data", 0) EXCEPT !.message = <<>>]
      BY <2>1 DEF Receive
    <2>3. /\ Receive(i, bit).state = "data" /\ Receive(i, bit).counter = 0
          /\ Receive(i, bit).message = <<>>
      BY <2>2 DEF To, ReceiverOK
    <2> QED
      BY <1>0, <1>3, <2>1, <2>3 DEF Stage, Heard
  <1>4. CASE p \in 4 .. 3 + 2 * Length
    <2>1. /\ i.state = "data" /\ i.counter = p - 4 /\ Len(i.message) = (p - 3) \div 2
          /\ \A j \in 1 .. Len(i.message) : i.message[j] = m[j]
      BY <1>4 DEF Stage
    <2>2. ~Heard(i, bit) /\ p # 8 + 2 * Length
      BY <1>0, <1>4, <2>1 DEF Heard
    <2>3. Receive(i, bit) = DataHalfBit(i, bit)
      BY <2>1 DEF Receive
    <2>4. bit <=> m[(p - 4) \div 2 + 1] = (p % 2 = 0)
      BY <1>0, <1>4 DEF BitAt
    <2>5. CASE p % 2 = 0
      <3>1. PICK k \in Nat : p = 2 * k + 4 /\ k < Length
        <4>1. (p - 4) \div 2 \in Nat /\ p = 2 * ((p - 4) \div 2) + 4
          BY <1>4, <2>5, <1>0
        <4> QED
          BY <1>0, <1>4, <4>1
      <3>2. /\ Len(i.message) = k /\ (p - 4) \div 2 + 1 = k + 1 /\ k + 1 \in 1 .. Length
            /\ (i.counter + 1) % 2 = 1 /\ i.counter + 1 # 2 * Length
        BY <1>0, <2>1, <3>1
      <3>3. bit = m[k + 1]
        <4>1. m[k + 1] \in BOOLEAN
          BY <1>0, <3>2
        <4> QED
          BY <2>4, <2>5, <3>2, <4>1
      <3> DEFINE w == Append(i.message, bit)
      <3>4. Receive(i, bit) = To([i EXCEPT !.message = w], "data", i.counter + 1)
        BY <2>3, <3>2 DEF DataHalfBit
      <3>5. w \in Seq(BOOLEAN) /\ Len(w) = k + 1 /\ \A j \in 1 .. Len(w) : w[j] = m[j]
        BY <1>0, <2>1, <3>2, <3>3
      <3> HIDE DEF w
      <3>6. /\ Receive(i, bit).state = "data" /\ Receive(i, bit).counter = p - 3
            /\ Receive(i, bit).message = w
        BY <2>1, <3>4, <3>1 DEF To, ReceiverOK
      <3>7. (p + 1) - 3 = 2 * (k + 1) /\ p + 1 \in 4 .. 3 + 2 * Length
        BY <1>0, <3>1
      <3> QED
        BY <1>0, <2>2, <3>5, <3>6, <3>7 DEF Stage
    <2>6. CASE p % 2 # 0
      <3>1. PICK k \in Nat : p = 2 * k + 5 /\ k < Length
        <4>1. (p - 5) \div 2 \in Nat /\ p = 2 * ((p - 5) \div 2) + 5
          BY <1>4, <2>6, <1>0
        <4> QED
          BY <1>0, <1>4, <4>1
      <3>2. /\ Len(i.message) = k + 1 /\ (p - 4) \div 2 + 1 = k + 1 /\ k + 1 \in 1 .. Length
            /\ (i.counter + 1) % 2 = 0 /\ i.counter + 1 = 2 * (k + 1)
        BY <1>0, <2>1, <3>1
      <3>3. i.message[k + 1] # bit
        <4>1. m[k + 1] \in BOOLEAN /\ i.message[k + 1] = m[k + 1]
          BY <1>0, <2>1, <3>2
        <4> QED
          BY <2>4, <2>6, <3>2, <4>1
      <3>4. CASE k + 1 = Length
        <4>1. Receive(i, bit) = To(i, "pause", 0)
          BY <2>3, <3>2, <3>4 DEF DataHalfBit
        <4>2. i.message = m
          BY <1>0, <2>1, <3>2, <3>4
        <4>3. /\ Receive(i, bit).state = "pause" /\ Receive(i, bit).counter = 0
              /\ Receive(i, bit).message = m
          BY <4>1, <4>2 DEF To, ReceiverOK
        <4>4. p + 1 = 4 + 2 * Length
          BY <1>0, <3>1, <3>4
        <4> QED
          BY <1>0, <2>2, <4>3, <4>4 DEF Stage
      <3>5. CASE k + 1 # Length
        <4>1. i.counter + 1 # 2 * Length
          BY <1>0, <3>2, <3>5
        <4>2. Receive(i, bit) = To(i, "data", i.counter + 1)
          BY <2>3, <3>2, <3>3, <4>1 DEF DataHalfBit
        <4>3. /\ Receive(i, bit).state = "data" /\ Receive(i, bit).counter = p - 3
              /\ Receive(i, bit).message = i.message
          BY <2>1, <3>1, <4>2 DEF To, ReceiverOK
        <4>4. (p + 1 - 3) \div 2 = k + 1 /\ p + 1 \in 4 .. 3 + 2 * Length
          BY <1>0, <3>1, <3>5
        <4> QED
          BY <1>0, <2>1, <2>2, <3>2, <4>3, <4>4 DEF Stage
      <3> QED
        BY <3>4, <3>5
    <2> QED
      BY <2>5, <2>6
  <1>5. CASE p \in 4 + 2 * Length .. 8 + 2 * Length
    <2>1. ~bit
      BY <1>0, <1>5 DEF BitAt
    <2>2. i.state = "pause" /\ i.counter = p - 4 - 2 * Length /\ i.message = m
      BY <1>5 DEF Stage
    <2>3. Heard(i, bit) <=> p = 8 + 2 * Length
      BY <1>0, <1>5, <2>1, <2>2 DEF Heard
    <2>4. CASE p = 8 + 2 * Length
      <3>1. Receive(i, bit) = To(i, "none", i.counter + 1)
        BY <2>1, <2>2, <2>3, <2>4 DEF Receive
      <3>2. Receive(i, bit).state = "none"
        BY <3>1 DEF To, ReceiverOK
      <3> QED
        BY <1>0, <2>2, <2>3, <2>4, <3>2 DEF Stage
    <2>5. CASE p # 8 + 2 * Length
      <3>1. Receive(i, bit) = Count(i)
        BY <2>1, <2>2, <2>3, <2>5 DEF Receive
      <3>2. /\ Receive(i, bit).state = "pause" /\ Receive(i, bit).counter = i.counter + 1
            /\ Receive(i, bit).message = m
        BY <2>2, <3>1 DEF Count, ReceiverOK
      <3> QED
        BY <1>0, <1>5, <2>2, <2>3, <2>5, <3>2 DEF Stage
    <2> QED
      BY <2>4, <2>5
  <1>6. CASE p >= 9 + 2 * Length
    <2>1. ~bit /\ i.state = "none"
      BY <1>0, <1>6 DEF BitAt, Stage
    <2>2. Receive(i, bit) = To(i, "none", 0)
      BY <2>1 DEF Receive
    <2>3. Receive(i, bit).state = "none"
      BY <2>2 DEF To, ReceiverOK
    <2> QED
      BY <1>0, <1>6, <2>1, <2>3 DEF Stage, Heard
  <1> QED
    BY <1>0, <1>1, <1>2, <1>3, <1>4, <1>5, <1>6

LEMMA EchoAt ==
    ASSUME TypeOK, NEW t, TransmitterOK(t), Second(t), Second(After(t)),
           After(t).sending = t.sending, Position(After(t)) = Position(t) + 1
    PROVE  Echo(t) <=> BitAt(t.sending, Received(t))
  <1>1. Position(t) \in Nat
    BY PositionType, Constants
  <1>2. CASE lag = 0
    <2>1. Received(t) = Position(After(t))
      BY <1>1, <1>2 DEF Received
    <2>2. SecondCopy(After(t)) /\ HalfBit(After(t)) <=> BitAt(t.sending, Position(After(t)))
      BY AfterType, HandedOn
    <2> QED
      BY <1>2, <2>1, <2>2 DEF Echo, OnWire, Seen
  <1>3. CASE lag = 1
    <2>1. Received(t) = Position(t)
      BY <1>1, <1>3 DEF Received
    <2>2. Begun(t) = t
      BY DEF Begun, Second
    <2> QED
      BY <1>3, <2>1, <2>2, HandedOn DEF Echo, OnWire, Seen
  <1> QED
    BY <1>2, <1>3 DEF TypeOK

LEMMA LockedCycle ==
    ASSUME TypeOK, LinkInv, LockedInv, NEW noise \in BOOLEAN, HalfCycle(noise),
           Sending, ~disturbed'
    PROVE  LockedInv'
  <1> DEFINE t == out.line
             c == ((Echo(out.line) /\ ~lost) \/ Echo(other)) \/ noise
             r == Receive(in, c)
             sent == [out EXCEPT !.line = After(out.line)]
  <1>1. ~noise /\ ~Sends(other) /\ ~disturbed /\ phase = "send"
    BY Zenon DEF HalfCycle, Sending
  <1>2. /\ ~lost
        /\ Second(t) => /\ Stage(in, t.sending, Received(t))
                        /\ Received(t) >= 9 + 2 * Length => Acknowledged
        /\ ~Second(t) => in.state = "none" /\ (~Sends(t) => Acknowledged)
    BY <1>1 DEF LockedInv
  <1>3. /\ TransmitterOK(t) /\ TransmitterOK(other) /\ LineInv(t) /\ LineInv(other)
        /\ TransmitterOK(After(t)) /\ ReceiverOK(in) /\ t.sending \in Message /\ lag \in {0, 1}
    BY AfterType DEF TypeOK, LinkInv, ReceiverOK, TransmitterOK, Line
  <1>4. After(other) = other /\ ~Echo(other)
    <2>1. After(other) = other /\ Begun(other) = other
      BY <1>1, <1>3, LineAfter
    <2>2. other.state = "none"
      BY <1>1, <1>3 DEF LineInv
    <2> QED
      BY <2>1, <2>2 DEF Echo, OnWire, Seen, SecondCopy
  <1>5. c \in BOOLEAN /\ (c <=> Echo(t))
    BY <1>1, <1>2, <1>4, Zenon
  <1>6. /\ in' = [r EXCEPT !.quiet = QuietAfter(in, c)]
        /\ out' = IF Heard(in, c) THEN Noted(sent, in.message) ELSE sent
        /\ other' = After(other) /\ lost' = lost /\ lag' = lag
    BY DEF HalfCycle
  <1>7. /\ out'.line = After(t) /\ sent.line = After(t) /\ sent.transmission = out.transmission
        /\ [sent EXCEPT !.transmission = "acknowledged"].transmission = "acknowledged"
    BY OutAfter DEF TypeOK
  <1> HIDE DEF c, sent
  <1>8. ReceiverOK(r)
    BY <1>3, <1>5, ReceiveType
  <1> HIDE DEF r
  <1>9. in'.state = r.state /\ in'.counter = r.counter /\ in'.message = r.message
    BY <1>6, <1>8 DEF ReceiverOK
  <1>10. ~Heard(in, c) => Acknowledged' = Acknowledged
    BY <1>6, <1>7 DEF Acknowledged
  <1>11. Heard(in, c) /\ in.message = After(t).sending => Acknowledged'
    <2> SUFFICES ASSUME Heard(in, c), in.message = sent.line.sending PROVE Acknowledged'
      BY <1>7
    <2>1. out' = [sent EXCEPT !.transmission = "acknowledged"]
      BY <1>6 DEF Noted
    <2>2. out'.transmission = "acknowledged"
      BY <1>7, <2>1, Zenon
    <2> QED
      BY <2>2 DEF Acknowledged
  <1>12. in.state = "none" /\ ~c => in'.state = "none" /\ ~Heard(in, c)
    <2> SUFFICES ASSUME in.state = "none", ~c PROVE in'.state = "none" /\ ~Heard(in, c)
      OBVIOUS
    <2>1. r = To(in, "none", 0)
      BY DEF r, Receive
    <2> QED
      BY <1>3, <1>9, <2>1 DEF To, ReceiverOK, Heard
  <1> SUFFICES /\ Second(After(t)) =>
                    /\ Stage(r, After(t).sending, Position(After(t)) + 1 - lag)
                    /\ Position(After(t)) + 1 - lag >= 9 + 2 * Length => Acknowledged'
               /\ ~Second(After(t)) =>
                    r.state = "none" /\ (~Sends(After(t)) => Acknowledged')
    <2>1. ~lost' /\ ~Sends(other)'
      BY <1>1, <1>2, <1>4, <1>6 DEF Sends
    <2>2. Second(out.line)' <=> Second(After(t))
      BY <1>7 DEF Second
    <2>3. Received(out.line)' = Position(After(t)) + 1 - lag
      BY <1>6, <1>7 DEF Received, Position
    <2>4. out'.line.sending = After(t).sending /\ (Sends(out.line)' <=> Sends(After(t)))
      BY <1>7 DEF Sends
    <2>5. ASSUME NEW m, NEW p, Stage(r, m, p) PROVE Stage(in', m, p)
      BY <1>9, <2>5 DEF Stage
    <2>6. Stage(r, After(t).sending, Position(After(t)) + 1 - lag) =>
          Stage(in, out.line.sending, Received(out.line))'
      <3> SUFFICES ASSUME Stage(r, After(t).sending, Position(After(t)) + 1 - lag)
                   PROVE  Stage(in', out'.line.sending, Received(out.line)')
        BY DEF Stage
      <3> QED
        BY <2>3, <2>4, <2>5
    <2> QED
      BY <1>9, <2>1, <2>2, <2>3, <2>4, <2>6 DEF LockedInv
  <1>13. CASE ~Second(t)
    <2>1. in.state = "none"
      BY <1>2, <1>13
    <2>2. Sends(t)
      <3>1. ~Sends(t) => t.state = "none"
        BY <1>3 DEF LineInv
      <3> QED
        BY <2>1, <3>1 DEF Sending, ClearToSend, IsReadyToReceive, Sends
    <2>3. /\ ~SecondCopy(Begun(t)) /\ After(t).sending = t.sending
          /\ Second(After(t)) => Position(After(t)) = 0
      BY <1>3, <1>13, <2>2, FirstAfter
    <2>4. Sends(After(t))
      BY <2>2, <2>3 DEF Sends
    <2>5. CASE lag = 0 /\ Second(After(t))
      <3>1. c <=> BitAt(t.sending, 0)
        BY <1>3, <1>5, <2>3, <2>5, HandedOn DEF Echo, OnWire, Seen
      <3>2. Stage(in, t.sending, 0)
        BY <2>1, Constants DEF Stage
      <3>3. Stage(r, t.sending, 0 + 1)
        BY <1>3, <1>5, <3>1, <3>2, ReceiveStage DEF r
      <3>4. Position(After(t)) + 1 - lag = 1 /\ ~(1 >= 9 + 2 * Length)
        BY <2>3, <2>5, Constants
      <3> QED
        BY <2>3, <2>5, <3>3, <3>4
    <2>6. CASE ~(lag = 0 /\ Second(After(t)))
      <3>1. ~c
        BY <1>3, <1>5, <2>3, <2>6 DEF Echo, OnWire, Seen, SecondCopy, Second
      <3>2. r.state = "none"
        BY <1>9, <1>12, <2>1, <3>1
      <3>3. CASE Second(After(t))
        <4>1. Position(After(t)) + 1 - lag = 0 /\ ~(0 >= 9 + 2 * Length)
          BY <1>3, <2>3, <2>6, <3>3, Constants
        <4>2. Stage(r, After(t).sending, 0)
          BY <3>2, Constants DEF Stage
        <4> QED
          BY <3>3, <4>1, <4>2
      <3> QED
        BY <2>4, <3>2, <3>3
    <2> QED
      BY <2>5, <2>6
  <1>14. CASE Second(t) /\ Position(t) = 9 + 2 * Length /\ After(t) = Transmitter
    <2>1. Received(t) >= 9 + 2 * Length /\ Position(t) \in Nat
      BY <1>3, <1>14, Constants DEF Received
    <2>2. Acknowledged /\ in.state = "none"
      BY <1>2, <1>14, <2>1 DEF Stage
    <2>3. ~c
      <3>1. CASE lag = 0
        BY <1>5, <1>14, <3>1 DEF Echo, OnWire, Seen, SecondCopy, Transmitter
      <3>2. CASE lag = 1
        <4>1. Begun(t) = t
          BY <1>14 DEF Begun, Second
        <4>2. ~BitAt(t.sending, 9 + 2 * Length)
          BY Constants DEF BitAt
        <4> QED
          BY <1>3, <1>5, <1>14, <3>2, <4>1, <4>2, HandedOn DEF Echo, OnWire, Seen
      <3> QED
        BY <1>3, <3>1, <3>2
    <2>4. r.state = "none" /\ Acknowledged'
      BY <1>9, <1>10, <1>12, <2>2, <2>3
    <2> QED
      BY <1>14, <2>4 DEF Transmitter, Second
  <1>15. CASE /\ Second(t) /\ Second(After(t)) /\ After(t).sending = t.sending
              /\ Position(After(t)) = Position(t) + 1
    <2> DEFINE p == Received(t)
    <2>1. p \in Nat /\ Position(After(t)) + 1 - lag = p + 1
      <3>1. Position(t) \in Nat
        BY <1>3, <1>15, PositionType, Constants
      <3> QED
        BY <1>3, <1>15, <3>1 DEF Received
    <2>2. Stage(in, t.sending, p) /\ (p >= 9 + 2 * Length => Acknowledged)
      BY <1>2, <1>15
    <2>3. c <=> BitAt(t.sending, p)
      BY <1>3, <1>5, <1>15, EchoAt
    <2> HIDE DEF p
    <2>4. /\ Stage(r, t.sending, p + 1)
          /\ Heard(in, c) <=> p = 8 + 2 * Length
          /\ Heard(in, c) => in.message = t.sending
      BY <1>3, <1>5, <2>1, <2>2, <2>3, ReceiveStage DEF r
    <2>5. p + 1 >= 9 + 2 * Length => Acknowledged'
      <3>1. CASE p = 8 + 2 * Length
        BY <1>11, <1>15, <2>4, <3>1
      <3>2. CASE p # 8 + 2 * Length
        <4>1. p + 1 >= 9 + 2 * Length => p >= 9 + 2 * Length
          BY <2>1, <3>2, Constants
        <4> QED
          BY <1>10, <2>2, <2>4, <3>2, <4>1
      <3> QED
        BY <3>1, <3>2
    <2> QED
      BY <1>15, <2>1, <2>4, <2>5
  <1> QED
    BY <1>3, <1>13, <1>14, <1>15, SecondAfter

LEMMA LockedStep ==
    ASSUME NoMessage \notin Messages, TypeOK, LinkInv, LockedInv, [Next]_vars
    PROVE  LockedInv'
  <1>1. CASE HalfCycles
    <2>1. PICK noise \in BOOLEAN : HalfCycle(noise)
      BY <1>1 DEF HalfCycles
    <2>2. phase' = phase
      BY <2>1 DEF HalfCycle
    <2>3. CASE phase = "send" /\ ~disturbed'
      <3>1. Sending
        BY <1>1, <2>3 DEF HalfCycles
      <3> QED
        BY <2>1, <2>3, <3>1, LockedCycle
    <2>4. CASE ~(phase = "send" /\ ~disturbed')
      BY <2>2, <2>4 DEF LockedInv
    <2> QED
      BY <2>3, <2>4
  <1>2. CASE BeginFlush \/ Retry \/ EndFlush
    BY <1>2 DEF BeginFlush, Retry, EndFlush, LockedInv
  <1>3. CASE SendWhenQuiet \/ SendNext
    <2>1. PICK m \in Messages : SendMessage(m)
      BY <1>3 DEF SendWhenQuiet, SendNext
    <2>2. /\ out'.line = [out.line EXCEPT !.sending = m] /\ other' = other /\ in' = in
          /\ out.line.state = "none" /\ (lost' \in BOOLEAN)
      BY <2>1 DEF SendMessage, MaySend
    <2>3. in.state = "none"
      BY <1>3 DEF SendWhenQuiet, SendNext, IsQuiet, IsReadyToReceive, Sent
    <2>4. out'.line.state = "none" /\ out'.line.sending = m /\ m # NoMessage
      BY <2>2 DEF TypeOK, Line
    <2>5. ~disturbed' => ~lost' /\ ~Sends(other)
      BY <2>1, Zenon DEF SendMessage
    <2>6. ~Second(out.line)' /\ Sends(out.line)' /\ (Sends(other)' <=> Sends(other))
      BY <2>2, <2>4 DEF Second, Sends
    <2>7. in'.state = "none"
      BY <2>2, <2>3
    <2> QED
      BY <2>5, <2>6, <2>7, Zenon DEF LockedInv
  <1>4. CASE ForeignSends
    BY <1>4 DEF ForeignSends, LockedInv
  <1>5. CASE UNCHANGED vars
    BY <1>5 DEF vars, LockedInv, Sends, Second, Received, Position, Stage, Acknowledged
  <1> QED
    BY <1>1, <1>2, <1>3, <1>4, <1>5 DEF Next

-----------------------------------------------------------------------------
(* What the receiver makes of the wire                                     *)

(* What the wire carries that the unit does not miss: whose message, and    *)
(* which half bit of its second copy comes next.                            *)
Voice(who, s) == [who |-> who, message |-> s.sending, at |-> Position(s)]
VoicesOf(s, missed, r) == (IF SecondCopy(s) /\ ~missed THEN {Voice("own", s)} ELSE {})
                          \cup (IF SecondCopy(r) THEN {Voice("other", r)} ELSE {})
Voices == VoicesOf(Seen(out.line), lost, Seen(other))
VoiceSet == [who : {"own", "other"}, message : Message, at : 0 .. 3 + 2 * Length]
Speaks(v) == BitAt(v.message, v.at)

\* From one half cycle to the next voices begin, go on and end.
Moves(V, W) ==
    /\ \A w \in W : w.at = 0 \/ \E v \in V : w.message = v.message /\ w.at = v.at + 1
    /\ \A v \in V : v.at < 3 + 2 * Length =>
           \E w \in W : w.message = v.message /\ w.at = v.at + 1

\* A one is somebody's, or noise that spares the last bit of everybody's.
IsZero(V) == \A v \in V : ~Speaks(v)
IsOne(V, left, rest) == \/ \E v \in V : Speaks(v)
                        \/ rest + 1 = left /\ \A v \in V : v.at < 2 + 2 * Length

\* After c silent half bits v has not begun, or c are no more than its message has.
FallsSilent(c, v) ==
    \/ v.at = 0
    \/ v.at <= 3 /\ c = 0
    \/ v.at >= 4 /\ v.at % 2 = 0 /\ c <= 1
    \/ v.at >= 5 /\ v.at % 2 = 1 /\ c <= 2 /\ (c > 0 => Speaks(v))

(* In start: every voice has been heard from its first half bit, and without *)
(* one the ones that were counted are noise.                                 *)
StartInv(i, V, left) ==
    /\ \A v \in V : v.at <= i.counter + 1
    /\ \/ \E v \in V : v.at >= 1
       \/ i.counter >= 3
       \/ left + i.counter + 1 <= MaxNoise

(* In data: after n half bits a voice is read (InStep), or it has just come  *)
(* between and the next whole bit is an error (Late).                        *)
InStep(i, v) == v.at = i.counter + 4
Late(i, v) == \/ v.at = 0
              \/ v.at = 1 /\ i.counter % 2 = 0
              \/ v.at \in 1 .. 2 /\ i.counter % 2 = 1 /\ i.message[Len(i.message)]

\* Whole bits are those of every voice in step; of half a bit, a one is heard.
Agrees(i, v) == /\ \A j \in 1 .. i.counter \div 2 : i.message[j] = v.message[j]
                /\ i.counter % 2 = 1 /\ v.message[Len(i.message)] => i.message[Len(i.message)]

\* Who is read, the last bit included, the end of which is not looked at.
Leads(i, v) == InStep(i, v) /\ (i.counter = 2 * Length - 1 => i.message[Length] = v.message[Length])

\* Nobody is: every one that was read is noise.
IsNoise(i, left) ==
    /\ left + 3 + i.counter \div 2 <= MaxNoise
    /\ i.counter % 2 = 1 /\ i.message[Len(i.message)] => left + 4 + i.counter \div 2 <= MaxNoise

DataInv(i, V, left) ==
    /\ \A v \in V : (InStep(i, v) /\ Agrees(i, v)) \/ Late(i, v)
    /\ \/ \E v \in V : Leads(i, v)
       \/ \E v \in V : v.at \in 1 .. 2
       \/ IsNoise(i, left)

(* In pause: the message is somebody's, or somebody will be heard before it  *)
(* is believed.                                                              *)
IsSomebodys(m, air) == \E who \in {"own", "other"} : <<who, m>> \in air
PauseInv(i, V, air) ==
    /\ \A v \in V : FallsSilent(i.counter, v) /\ v.at <= i.counter + 3
    /\ (\E v \in V : v.at >= 1) \/ IsSomebodys(i.message, air)

WireInv(i, V, left, air) ==
    /\ i.state = "none" => \A v \in V : v.at = 0
    /\ i.state = "start" => StartInv(i, V, left)
    /\ i.state = "data" => DataInv(i, V, left)
    /\ i.state = "pause" => PauseInv(i, V, air)
    /\ i.state = "suppress" => \A v \in V : FallsSilent(i.counter, v)

\* A bit is sent as it is, and then its complement.
LEMMA HalvesOf ==
    ASSUME NEW v \in VoiceSet, NEW k \in Nat
    PROVE  /\ v.at = 2 * k + 4 => k + 1 \in 1 .. Length /\ (Speaks(v) <=> v.message[k + 1] = TRUE)
           /\ v.at = 2 * k + 5 => k + 1 \in 1 .. Length /\ (Speaks(v) <=> v.message[k + 1] = FALSE)
  <1>1. /\ v.at \in Nat /\ v.at < 4 + 2 * Length /\ Length \in Nat
        /\ v.message \in [1 .. Length -> BOOLEAN]
    BY Constants DEF VoiceSet, Message
  <1>2. ASSUME v.at \in {2 * k + 4, 2 * k + 5}
        PROVE  /\ (v.at - 4) \div 2 + 1 = k + 1 /\ k + 1 \in 1 .. Length
               /\ 4 <= v.at /\ ~(v.at < 3) /\ v.message[k + 1] \in BOOLEAN
    <2>0. v.at \in Nat /\ v.at < 4 + 2 * Length /\ Length \in Nat
      BY <1>1
    <2>1. (v.at - 4) \div 2 = k /\ k + 1 \in 1 .. Length
      <3>1. CASE v.at = 2 * k + 4
        BY <2>0, <3>1
      <3>2. CASE v.at = 2 * k + 5
        BY <2>0, <3>2
      <3> QED
        BY <1>2, <3>1, <3>2
    <2>2. v.message[k + 1] \in BOOLEAN
      BY <1>1, <2>1
    <2> QED
      BY <1>2, <2>1, <2>2
  <1>3. ASSUME v.at \in {2 * k + 4, 2 * k + 5}
        PROVE  Speaks(v) <=> v.message[k + 1] = (v.at % 2 = 0)
    BY <1>1, <1>2, <1>3 DEF Speaks, BitAt
  <1>4. CASE v.at = 2 * k + 4
    <2>1. v.at % 2 = 0 /\ v.at # 2 * k + 5
      BY <1>1, <1>4
    <2>2. Speaks(v) <=> v.message[k + 1] = (v.at % 2 = 0)
      BY <1>3, <1>4
    <2>3. v.message[k + 1] \in BOOLEAN /\ k + 1 \in 1 .. Length
      BY <1>2, <1>4
    <2> QED
      BY <2>1, <2>2, <2>3
  <1>5. CASE v.at = 2 * k + 5
    <2>1. v.at % 2 # 0 /\ v.at # 2 * k + 4
      BY <1>1, <1>5
    <2>2. Speaks(v) <=> v.message[k + 1] = (v.at % 2 = 0)
      BY <1>3, <1>5
    <2>3. v.message[k + 1] \in BOOLEAN /\ k + 1 \in 1 .. Length
      BY <1>2, <1>5
    <2> QED
      BY <2>1, <2>2, <2>3
  <1> QED
    BY <1>4, <1>5

\* What a voice says is not silent for long: three ones, and one in every bit.
LEMMA SilentNow ==
    ASSUME NEW v \in VoiceSet
    PROVE  FallsSilent(0, v)
  <1>1. v.at \in Nat
    BY Constants DEF VoiceSet
  <1>2. v.at <= 3 \/ (v.at >= 4 /\ v.at % 2 = 0) \/ (v.at >= 5 /\ v.at % 2 = 1)
    BY <1>1
  <1> QED
    BY <1>1, <1>2 DEF FallsSilent

LEMMA SilentLonger ==
    ASSUME NEW v \in VoiceSet, NEW w \in VoiceSet, w.message = v.message, w.at = v.at + 1,
           NEW c \in Nat, FallsSilent(c, v), ~Speaks(v)
    PROVE  FallsSilent(c + 1, w) /\ v.at >= 3
  <1>1. /\ v.at \in Nat /\ w.at \in Nat /\ w.at < 4 + 2 * Length /\ Length \in Nat
        /\ v.message \in [1 .. Length -> BOOLEAN]
    BY Constants DEF VoiceSet, Message
  <1>2. v.at >= 3
    BY <1>1 DEF Speaks, BitAt
  <1>3. CASE v.at = 3
    BY <1>1, <1>3 DEF FallsSilent
  <1>4. CASE v.at >= 4 /\ v.at % 2 = 0
    <2>1. PICK k \in Nat : v.at = 2 * k + 4
      <3>1. v.at \in Nat /\ v.at >= 4 /\ v.at % 2 = 0
        BY <1>1, <1>4
      <3> DEFINE h == (v.at - 4) \div 2
      <3>2. h \in Nat
        BY <3>1
      <3>3. v.at = 2 * h + 4
        BY <3>1
      <3> QED
        BY <3>2, <3>3
    <2>2. w.at = 2 * k + 5 /\ w.at % 2 = 1 /\ w.at >= 5 /\ v.at # 0 /\ ~(v.at <= 3)
      BY <1>1, <2>1
    <2>3. ~(v.message[k + 1] = TRUE) /\ k + 1 \in 1 .. Length
      BY <2>1, HalvesOf
    <2>4. v.message[k + 1] = FALSE
      BY <1>1, <2>3
    <2>5. Speaks(w)
      BY <2>2, <2>4, HalvesOf
    <2>6. ~(v.at % 2 = 1)
      BY <1>4
    <2>7. c <= 1
      BY <2>2, <2>6 DEF FallsSilent
    <2> QED
      BY <1>2, <2>2, <2>5, <2>7 DEF FallsSilent
  <1>5. CASE v.at >= 5 /\ v.at % 2 = 1
    <2>1. v.at # 0 /\ ~(v.at <= 3) /\ ~(v.at % 2 = 0)
      BY <1>1, <1>5
    <2>2. c = 0
      BY <2>1 DEF FallsSilent
    <2>3. w.at >= 4 /\ w.at % 2 = 0
      <3>1. PICK k \in Nat : v.at = 2 * k + 5
        <4>1. v.at \in Nat /\ v.at >= 5 /\ v.at % 2 = 1
          BY <1>1, <1>5
        <4> DEFINE h == (v.at - 5) \div 2
        <4>2. h \in Nat
          BY <4>1
        <4>3. v.at = 2 * h + 5
          BY <4>1
        <4> QED
          BY <4>2, <4>3
      <3>2. w.at = 2 * (k + 3)
        BY <1>1, <3>1
      <3> QED
        BY <3>2
    <2> QED
      BY <1>2, <2>2, <2>3 DEF FallsSilent
  <1> QED
    BY <1>1, <1>2, <1>3, <1>4, <1>5

\* Six silent half bits, or five after a message, are silence: nobody is speaking.
LEMMA NobodyLeft ==
    ASSUME NEW V \in SUBSET VoiceSet, NEW W \in SUBSET VoiceSet, Moves(V, W), IsZero(V),
           NEW c \in Nat, c >= 3, \A v \in V : FallsSilent(c, v)
    PROVE  V = {} /\ \A w \in W : w.at = 0
  <1>1. ASSUME NEW v \in V PROVE FALSE
    <2>1. v.at \in Nat /\ ~Speaks(v) /\ FallsSilent(c, v)
      BY <1>1, Constants DEF VoiceSet, IsZero
    <2>2. v.at >= 3
      BY <2>1 DEF Speaks, BitAt
    <2> QED
      BY <2>1, <2>2 DEF FallsSilent
  <1> QED
    BY <1>1 DEF Moves

\* The steps of In, one state at a time.
LEMMA WireNone ==
    ASSUME NEW i, ReceiverOK(i), NEW V \in SUBSET VoiceSet, NEW W \in SUBSET VoiceSet, Moves(V, W),
           NEW left \in 0 .. MaxNoise, NEW rest \in Nat, NEW air, NEW bit \in BOOLEAN,
           bit => IsOne(V, left, rest), ~bit => IsZero(V),
           i.state = "none", \A v \in V : v.at = 0
    PROVE  WireInv(Receive(i, bit), W, rest, air)
  <1> DEFINE r == Receive(i, bit)
  <1>1. CASE bit
    <2>1. r.state = "start" /\ r.counter = 0
      BY <1>1 DEF Receive, To, ReceiverOK
    <2>2. \A w \in W : w.at <= 0 + 1
      BY DEF Moves
    <2>3. CASE \E v \in V : Speaks(v)
      <3>1. \E w \in W : w.at >= 1
        BY <2>3, Constants DEF Moves
      <3> QED
        BY <2>1, <2>2, <3>1 DEF WireInv, StartInv
    <2>4. CASE rest + 1 = left
      <3>1. rest + 0 + 1 <= MaxNoise
        BY <2>4, Constants
      <3> QED
        BY <2>1, <2>2, <3>1 DEF WireInv, StartInv
    <2> QED
      BY <1>1, <2>3, <2>4 DEF IsOne
  <1>2. CASE ~bit
    <2>1. r.state = "none"
      BY <1>2 DEF Receive, To, ReceiverOK
    <2>2. V = {}
      BY <1>2 DEF IsZero, Speaks, BitAt
    <2> QED
      BY <2>1, <2>2 DEF WireInv, Moves
  <1> QED
    BY <1>1, <1>2

LEMMA WireStart ==
    ASSUME NEW i, ReceiverOK(i), NEW V \in SUBSET VoiceSet, NEW W \in SUBSET VoiceSet, Moves(V, W),
           NEW left \in 0 .. MaxNoise, NEW rest \in Nat, NEW air, NEW bit \in BOOLEAN,
           rest <= left, bit => IsOne(V, left, rest), ~bit => IsZero(V),
           i.state = "start", StartInv(i, V, left)
    PROVE  WireInv(Receive(i, bit), W, rest, air)
  <1> DEFINE r == Receive(i, bit)
             c == i.counter
  <1>0. /\ c \in Nat /\ Length \in Nat /\ Length > 0 /\ MaxNoise \in Nat
        /\ \A v \in V \cup W : v.at \in 0 .. 3 + 2 * Length
    BY Constants DEF ReceiverOK, VoiceSet
  <1>1. CASE bit
    <2>1. r.state = "start" /\ r.counter = c + 1
      BY <1>1 DEF Receive, Count, ReceiverOK
    <2>2. \A w \in W : w.at <= r.counter + 1
      BY <1>0, <2>1 DEF Moves, StartInv
    <2>3. CASE c >= 3
      BY <1>0, <2>1, <2>2, <2>3 DEF WireInv, StartInv
    <2>4. CASE ~(c >= 3) /\ \E v \in V : v.at >= 1 \/ Speaks(v)
      <3>1. PICK v \in V : v.at >= 1 \/ Speaks(v)
        BY <2>4
      <3>2. v.at < 3 + 2 * Length /\ v.at >= 0
        BY <1>0, <2>4 DEF StartInv
      <3>3. \E w \in W : w.at >= 1
        BY <1>0, <3>2 DEF Moves
      <3> QED
        BY <2>1, <2>2, <3>3 DEF WireInv, StartInv
    <2>5. CASE left + c + 1 <= MaxNoise /\ rest + 1 = left
      <3>1. rest + r.counter + 1 <= MaxNoise
        BY <1>0, <2>1, <2>5
      <3> QED
        BY <2>1, <2>2, <3>1 DEF WireInv, StartInv
    <2> QED
      BY <1>1, <2>3, <2>4, <2>5 DEF IsOne, StartInv
  <1>2. CASE ~bit /\ c + 1 = 3
    <2>1. r.state = "data" /\ r.counter = 0
      BY <1>2 DEF Receive, To, ReceiverOK
    <2>2. \A v \in V : v.at = 3
      <3> SUFFICES ASSUME NEW v \in V PROVE v.at = 3
        OBVIOUS
      <3>1. v.at <= 3 /\ ~(v.at < 3)
        BY <1>2 DEF StartInv, IsZero, Speaks, BitAt
      <3> QED
        BY <1>0, <3>1
    <2>3. \A w \in W : w.at = 0 \/ w.at = 4
      BY <2>2 DEF Moves
    <2>4. 0 \div 2 = 0 /\ 0 % 2 = 0 /\ 0 # 2 * Length - 1
      BY <1>0
    <2>5. \A w \in W : w.at = 4 => InStep(r, w) /\ Agrees(r, w) /\ Leads(r, w)
      BY <2>1, <2>4 DEF InStep, Agrees, Leads
    <2>6. \A w \in W : w.at = 0 => Late(r, w)
      BY DEF Late
    <2>7. CASE \E v \in V : v.at >= 1
      <3>1. \E w \in W : w.at = 4
        BY <1>0, <2>2, <2>7 DEF Moves
      <3> QED
        BY <2>1, <2>3, <2>5, <2>6, <3>1 DEF WireInv, DataInv
    <2>8. CASE left + c + 1 <= MaxNoise
      <3>1. rest + 3 + 0 <= MaxNoise
        BY <1>0, <1>2, <2>8
      <3>2. IsNoise(r, rest)
        BY <2>1, <2>4, <3>1 DEF IsNoise
      <3> QED
        BY <2>1, <2>3, <2>5, <2>6, <3>2 DEF WireInv, DataInv
    <2> QED
      BY <1>0, <1>2, <2>7, <2>8 DEF StartInv
  <1>3. CASE ~bit /\ c + 1 # 3
    <2>1. r.state = "error"
      BY <1>3 DEF Receive, To, ReceiverOK
    <2> QED
      BY <2>1 DEF WireInv
  <1> QED
    BY <1>1, <1>2, <1>3

LEMMA WirePause ==
    ASSUME NEW i, ReceiverOK(i), NEW V \in SUBSET VoiceSet, NEW W \in SUBSET VoiceSet, Moves(V, W),
           NEW rest, NEW air, NEW next, air \subseteq next,
           NEW bit \in BOOLEAN, ~bit => IsZero(V),
           i.state = "pause", PauseInv(i, V, air)
    PROVE  /\ WireInv(Receive(i, bit), W, rest, next)
           /\ Heard(i, bit) => IsSomebodys(i.message, next)
  <1> DEFINE r == Receive(i, bit)
             c == i.counter
  <1>0. /\ c \in Nat /\ Length \in Nat /\ Length > 0
        /\ \A v \in V \cup W : v.at \in 0 .. 3 + 2 * Length
    BY Constants DEF ReceiverOK, VoiceSet
  <1>1. CASE bit
    <2>1. r.state = "error" /\ ~Heard(i, bit)
      BY <1>1 DEF Receive, To, ReceiverOK, Heard
    <2> QED
      BY <2>1 DEF WireInv
  <1>2. CASE ~bit /\ c + 1 >= 5
    <2>1. r.state = "none"
      BY <1>2 DEF Receive, To, ReceiverOK, Heard
    <2>2. V = {} /\ \A w \in W : w.at = 0
      BY <1>0, <1>2, NobodyLeft DEF PauseInv
    <2> QED
      BY <2>1, <2>2 DEF WireInv, PauseInv, IsSomebodys
  <1>3. CASE ~bit /\ ~(c + 1 >= 5)
    <2>1. r.state = "pause" /\ r.counter = c + 1 /\ r.message = i.message /\ ~Heard(i, bit)
      BY <1>3 DEF Receive, Count, ReceiverOK, Heard
    <2>2. ASSUME NEW w \in W PROVE FallsSilent(c + 1, w) /\ w.at <= c + 1 + 3
      <3>1. CASE w.at = 0
        BY <1>0, <3>1 DEF FallsSilent
      <3>2. CASE w.at # 0
        <4>1. PICK v \in V : w.message = v.message /\ w.at = v.at + 1
          BY <3>2 DEF Moves
        <4>2. FallsSilent(c, v) /\ v.at <= c + 3 /\ ~Speaks(v)
          BY <1>3 DEF PauseInv, IsZero
        <4>3. FallsSilent(c + 1, w)
          BY <1>0, <4>1, <4>2, SilentLonger
        <4> QED
          BY <1>0, <4>1, <4>2, <4>3
      <3> QED
        BY <3>1, <3>2
    <2>3. ASSUME NEW v \in V, v.at >= 1 PROVE \E w \in W : w.at >= 1
      <3>1. FallsSilent(c, v) /\ v.at <= c + 3 /\ ~Speaks(v) /\ v.at \in 0 .. 3 + 2 * Length
        BY <1>0, <1>3 DEF PauseInv, IsZero
      <3>2. v.at < 3 + 2 * Length
        <4> SUFFICES ASSUME v.at = 3 + 2 * Length PROVE FALSE
          BY <1>0, <3>1
        <4>1. v.at >= 5 /\ ~(v.at % 2 = 0) /\ c >= 2
          BY <1>0, <3>1
        <4> QED
          BY <1>0, <3>1, <4>1 DEF FallsSilent
      <3> QED
        BY <1>0, <2>3, <3>2 DEF Moves
    <2>4. (\E w \in W : w.at >= 1) \/ IsSomebodys(i.message, next)
      BY <2>3 DEF PauseInv, IsSomebodys
    <2> QED
      BY <2>1, <2>2, <2>4 DEF WireInv, PauseInv
  <1> QED
    BY <1>1, <1>2, <1>3

LEMMA WireSuppress ==
    ASSUME NEW i, ReceiverOK(i), NEW V \in SUBSET VoiceSet, NEW W \in SUBSET VoiceSet, Moves(V, W),
           NEW rest, NEW air, NEW bit \in BOOLEAN, ~bit => IsZero(V),
           i.state = "suppress", \A v \in V : FallsSilent(i.counter, v)
    PROVE  WireInv(Receive(i, bit), W, rest, air)
  <1> DEFINE r == Receive(i, bit)
             c == i.counter
  <1>0. c \in Nat
    BY DEF ReceiverOK
  <1>1. CASE bit
    <2>1. r.state = "suppress" /\ r.counter = 0
      BY <1>1 DEF Receive, Suppressed, To, ReceiverOK
    <2> QED
      BY <2>1, SilentNow DEF WireInv
  <1>2. CASE ~bit /\ c + 1 = 6
    <2>1. r.state = "none"
      BY <1>2 DEF Receive, Suppressed, To, ReceiverOK
    <2>2. \A w \in W : w.at = 0
      BY <1>0, <1>2, NobodyLeft
    <2> QED
      BY <2>1, <2>2 DEF WireInv
  <1>3. CASE ~bit /\ c + 1 # 6
    <2>1. r.state = "suppress" /\ r.counter = c + 1
      BY <1>3 DEF Receive, Suppressed, To, ReceiverOK
    <2>2. ASSUME NEW w \in W PROVE FallsSilent(c + 1, w)
      <3>1. CASE w.at = 0
        BY <3>1 DEF FallsSilent
      <3>2. CASE w.at # 0
        <4>1. PICK v \in V : w.message = v.message /\ w.at = v.at + 1
          BY <3>2 DEF Moves
        <4>2. FallsSilent(c, v) /\ ~Speaks(v)
          BY <1>3 DEF IsZero
        <4> QED
          BY <1>0, <4>1, <4>2, SilentLonger
      <3> QED
        BY <3>1, <3>2
    <2> QED
      BY <2>1, <2>2 DEF WireInv
  <1> QED
    BY <1>1, <1>2, <1>3

\* In data a voice that has just come between speaks, and makes an error of the bit.
LEMMA WireFirstHalf ==
    ASSUME NEW i, ReceiverOK(i), NEW V \in SUBSET VoiceSet, NEW W \in SUBSET VoiceSet, Moves(V, W),
           NEW left \in 0 .. MaxNoise, NEW rest \in Nat, NEW air, NEW bit \in BOOLEAN,
           rest <= left, bit => IsOne(V, left, rest), ~bit => IsZero(V),
           i.state = "data", NEW k \in Nat, i.counter = 2 * k, DataInv(i, V, left)
    PROVE  WireInv(Receive(i, bit), W, rest, air)
  <1> DEFINE r == Receive(i, bit)
             n == i.counter
  <1>0. /\ n \in Nat /\ n < 2 * Length /\ Length \in Nat /\ MaxNoise \in Nat
        /\ \A v \in V \cup W : v.at \in 0 .. 3 + 2 * Length
        /\ i.message \in Seq(BOOLEAN) /\ Len(i.message) = (n + 1) \div 2
    BY Constants DEF ReceiverOK, VoiceSet
  <1>1. /\ n % 2 = 0 /\ n \div 2 = k /\ Len(i.message) = k /\ (n + 1) % 2 = 1
        /\ (n + 1) \div 2 = k /\ n + 1 # 2 * Length /\ k + 1 \in 1 .. Length
    BY <1>0
  <1> DEFINE m == Append(i.message, bit)
  <1>2. /\ m \in Seq(BOOLEAN) /\ Len(m) = k + 1 /\ m[k + 1] = bit
        /\ \A j \in 1 .. k : m[j] = i.message[j]
    BY <1>0, <1>1
  <1> HIDE DEF m
  <1>3. r.state = "data" /\ r.counter = n + 1 /\ r.message = m
    <2>1. Receive(i, bit) = To([i EXCEPT !.message = m], "data", n + 1)
      BY <1>1 DEF Receive, DataHalfBit, m
    <2> QED
      BY <2>1 DEF To, ReceiverOK
  <1>4. r.counter \div 2 = k /\ r.counter % 2 = 1 /\ r.message[Len(r.message)] = bit
    BY <1>1, <1>2, <1>3
  <1> HIDE DEF r
  <1>5. ASSUME NEW v \in V
        PROVE  /\ InStep(i, v) => (Speaks(v) <=> v.message[k + 1] = TRUE)
               /\ ~InStep(i, v) => v.at \in 0 .. 1 /\ Speaks(v)
               /\ v.message[k + 1] \in BOOLEAN /\ v.at < 3 + 2 * Length
    <2>1. InStep(i, v) => v.at = 2 * k + 4
      BY <1>0 DEF InStep
    <2>2. InStep(i, v) => (Speaks(v) <=> v.message[k + 1] = TRUE)
      BY <2>1, HalvesOf
    <2>3. ~InStep(i, v) => v.at \in 0 .. 1
      BY <1>0, <1>1 DEF DataInv, Late
    <2>4. ~InStep(i, v) => Speaks(v)
      BY <2>3 DEF Speaks, BitAt
    <2>5. v.message \in [1 .. Length -> BOOLEAN]
      BY DEF VoiceSet, Message
    <2>6. v.message[k + 1] \in BOOLEAN
      BY <1>1, <2>5
    <2>7. v.at < 3 + 2 * Length
      BY <1>0, <1>1, <2>1, <2>3
    <2> QED
      BY <2>2, <2>3, <2>4, <2>6, <2>7
  <1>6. ASSUME NEW w \in W PROVE (InStep(r, w) /\ Agrees(r, w)) \/ Late(r, w)
    <2>1. CASE w.at = 0
      BY <2>1 DEF Late
    <2>2. CASE w.at # 0
      <3>1. PICK v \in V : w.message = v.message /\ w.at = v.at + 1
        BY <2>2 DEF Moves
      <3>2. CASE InStep(i, v)
        <4>1. ~(1 = 4) /\ Agrees(i, v)
          BY <1>0, <1>1, <3>2 DEF DataInv, Late, InStep
        <4>2. \A j \in 1 .. k : r.message[j] = w.message[j]
          BY <1>1, <1>2, <1>3, <3>1, <4>1 DEF Agrees
        <4>3. w.message[k + 1] => bit
          BY <1>5, <3>1, <3>2 DEF IsZero
        <4>4. Agrees(r, w)
          BY <1>2, <1>3, <1>4, <4>2, <4>3 DEF Agrees
        <4>5. InStep(r, w)
          BY <1>0, <1>3, <3>1, <3>2 DEF InStep
        <4> QED
          BY <4>4, <4>5
      <3>3. CASE ~InStep(i, v)
        <4>1. bit
          BY <1>5, <3>3 DEF IsZero
        <4>2. v.at \in 0 .. 1
          BY <1>5, <3>3
        <4>3. w.at \in 1 .. 2
          BY <3>1, <4>2
        <4> QED
          BY <1>4, <4>1, <4>3 DEF Late
      <3> QED
        BY <3>2, <3>3
    <2> QED
      BY <2>1, <2>2
  <1> DEFINE Told == (\E w \in W : Leads(r, w)) \/ (\E w \in W : w.at \in 1 .. 2)
  <1>7. ASSUME NEW v \in V, InStep(i, v), n + 1 = 2 * Length - 1 => bit = v.message[k + 1]
        PROVE  Told
    <2>1. PICK w \in W : w.message = v.message /\ w.at = v.at + 1
      BY <1>5 DEF Moves
    <2>2. InStep(r, w)
      BY <1>0, <1>3, <1>7, <2>1 DEF InStep
    <2>3. n + 1 = 2 * Length - 1 => k + 1 = Length
      BY <1>0
    <2>4. Leads(r, w)
      BY <1>2, <1>3, <1>7, <2>1, <2>2, <2>3 DEF Leads
    <2> QED
      BY <2>4
  <1>8. ASSUME NEW v \in V, Speaks(v), bit
        PROVE  Told
    <2>1. CASE InStep(i, v)
      <3>1. bit = v.message[k + 1]
        BY <1>5, <1>8, <2>1
      <3> QED
        BY <1>7, <2>1, <3>1
    <2>2. CASE ~InStep(i, v)
      <3>1. PICK w \in W : w.message = v.message /\ w.at = v.at + 1
        BY <1>5 DEF Moves
      <3>2. v.at \in 0 .. 1
        BY <1>5, <2>2
      <3>3. w.at \in 1 .. 2
        BY <3>1, <3>2
      <3> QED
        BY <3>3
    <2> QED
      BY <2>1, <2>2
  <1>9. ASSUME NEW v \in V, Leads(i, v) PROVE Told
    <2>1. CASE ~bit
      <3>1. ~(v.message[k + 1] = TRUE)
        BY <1>5, <1>9, <2>1 DEF Leads, IsZero
      <3>2. bit = v.message[k + 1]
        BY <1>5, <2>1, <3>1
      <3> QED
        BY <1>7, <1>9, <3>2 DEF Leads
    <2>2. CASE bit /\ \E u \in V : Speaks(u)
      BY <1>8, <2>2
    <2>3. CASE bit /\ \A u \in V : u.at < 2 + 2 * Length
      <3>1. n + 1 # 2 * Length - 1
        BY <1>0, <1>9, <2>3 DEF Leads, InStep
      <3> QED
        BY <1>7, <1>9, <3>1 DEF Leads
    <2> QED
      BY <2>1, <2>2, <2>3 DEF IsOne
  <1>10. ASSUME NEW v \in V, v.at \in 1 .. 2 PROVE Told
    <2>1. ~InStep(i, v)
      BY <1>0, <1>10 DEF InStep
    <2>2. Speaks(v) /\ bit
      BY <1>5, <2>1 DEF IsZero
    <2> QED
      BY <1>8, <2>2
  <1>11. ASSUME IsNoise(i, left) PROVE Told \/ IsNoise(r, rest)
    <2>1. left + 3 + k <= MaxNoise
      BY <1>1, <1>11 DEF IsNoise
    <2>2. CASE ~bit
      <3>1. rest + 3 + k <= MaxNoise
        BY <1>0, <2>1
      <3> QED
        BY <1>4, <2>2, <3>1 DEF IsNoise
    <2>3. CASE bit /\ \E u \in V : Speaks(u)
      BY <1>8, <2>3
    <2>4. CASE bit /\ rest + 1 = left
      <3>1. rest + 3 + k <= MaxNoise /\ rest + 4 + k <= MaxNoise
        BY <1>0, <2>1, <2>4
      <3> QED
        BY <1>4, <3>1 DEF IsNoise
    <2> QED
      BY <2>2, <2>3, <2>4 DEF IsOne
  <1>12. Told \/ IsNoise(r, rest)
    BY <1>9, <1>10, <1>11 DEF DataInv
  <1>13. DataInv(r, W, rest)
    BY <1>6, <1>12 DEF DataInv
  <1> QED
    BY <1>3, <1>13 DEF WireInv, r

LEMMA WireSecondHalf ==
    ASSUME NEW i, ReceiverOK(i), NEW V \in SUBSET VoiceSet, NEW W \in SUBSET VoiceSet, Moves(V, W),
           NEW left \in 0 .. MaxNoise, NEW rest \in Nat, NEW air, NEW bit \in BOOLEAN,
           rest <= left, bit => IsOne(V, left, rest), ~bit => IsZero(V),
           i.state = "data", NEW k \in Nat, i.counter = 2 * k + 1, k + 1 # Length,
           DataInv(i, V, left)
    PROVE  WireInv(Receive(i, bit), W, rest, air)
  <1> DEFINE r == Receive(i, bit)
             n == i.counter
             last == i.message[k + 1]
  <1>0. /\ n \in Nat /\ n < 2 * Length /\ Length \in Nat /\ MaxNoise \in Nat
        /\ \A v \in V \cup W : v.at \in 0 .. 3 + 2 * Length
        /\ i.message \in Seq(BOOLEAN) /\ Len(i.message) = (n + 1) \div 2
    BY Constants DEF ReceiverOK, VoiceSet
  <1>1. /\ n % 2 = 1 /\ n \div 2 = k /\ Len(i.message) = k + 1 /\ (n + 1) % 2 = 0
        /\ (n + 1) \div 2 = k + 1 /\ n + 1 # 2 * Length /\ k + 1 \in 1 .. Length
        /\ n + 1 # 2 * Length - 1 /\ n + 4 = 2 * k + 5
    BY <1>0
  <1>2. last \in BOOLEAN
    BY <1>0, <1>1
  <1>3. CASE last = bit
    <2>1. Receive(i, bit) = To(i, "error", n + 1)
      <3>1. ~((n + 1) % 2 = 1) /\ i.message[Len(i.message)] = last
        BY <1>1
      <3> QED
        BY <1>1, <1>3, <3>1 DEF Receive, DataHalfBit
    <2>2. r.state = "error"
      BY <2>1 DEF To, ReceiverOK
    <2> QED
      BY <2>2 DEF WireInv
  <1>4. CASE last # bit
    <2>1. Receive(i, bit) = To(i, "data", n + 1)
      <3>1. ~((n + 1) % 2 = 1) /\ i.message[Len(i.message)] = last
        BY <1>1
      <3> QED
        BY <1>1, <1>4, <3>1 DEF Receive, DataHalfBit
    <2>2. r.state = "data" /\ r.counter = n + 1 /\ r.message = i.message
      BY <2>1 DEF To, ReceiverOK
    <2> HIDE DEF r
    <2>3. ASSUME NEW v \in V, InStep(i, v)
          PROVE  /\ Speaks(v) <=> v.message[k + 1] = FALSE
                 /\ v.message[k + 1] \in BOOLEAN
                 /\ v.message[k + 1] => last
                 /\ \A j \in 1 .. k : i.message[j] = v.message[j]
                 /\ v.at < 3 + 2 * Length
      <3>1. v.at = 2 * k + 5
        BY <1>1, <2>3 DEF InStep
      <3>2. Speaks(v) <=> v.message[k + 1] = FALSE
        BY <3>1, HalvesOf
      <3>3. v.message \in [1 .. Length -> BOOLEAN]
        BY DEF VoiceSet, Message
      <3>4. v.message[k + 1] \in BOOLEAN
        BY <1>1, <3>3
      <3>5. ~Late(i, v)
        BY <1>0, <3>1 DEF Late
      <3>6. Agrees(i, v)
        BY <3>5 DEF DataInv
      <3> QED
        BY <1>0, <1>1, <3>1, <3>2, <3>4, <3>6 DEF Agrees
    <2>4. ASSUME NEW v \in V, ~InStep(i, v) PROVE v.at = 0
      <3>1. v.at = 0 \/ (v.at \in 1 .. 2 /\ last)
        BY <1>1, <2>4 DEF DataInv, Late
      <3>2. CASE v.at \in 1 .. 2 /\ last
        <4>1. Speaks(v)
          BY <3>2 DEF Speaks, BitAt
        <4> QED
          BY <1>2, <1>4, <3>2, <4>1 DEF IsZero
      <3> QED
        BY <3>1, <3>2
    <2>5. ASSUME NEW w \in W PROVE (InStep(r, w) /\ Agrees(r, w)) \/ Late(r, w)
      <3>1. CASE w.at = 0
        BY <3>1 DEF Late
      <3>2. CASE w.at # 0
        <4>1. PICK v \in V : w.message = v.message /\ w.at = v.at + 1
          BY <3>2 DEF Moves
        <4>2. CASE InStep(i, v)
          <5>1. v.message[k + 1] = last
            <6>1. last => ~Speaks(v)
              BY <1>2, <1>4 DEF IsZero
            <6> DEFINE mine == v.message[k + 1]
            <6>2. mine \in BOOLEAN /\ (mine => last) /\ (last => mine # FALSE)
              BY <2>3, <4>2, <6>1
            <6> HIDE DEF last, mine
            <6>3. mine = last
              <7>1. CASE last = TRUE
                BY <6>2, <7>1, Zenon
              <7>2. CASE last = FALSE
                BY <6>2, <7>2, Zenon
              <7>3. last = TRUE \/ last = FALSE
                BY <1>2, Zenon
              <7> QED
                BY <7>1, <7>2, <7>3
            <6> QED
              BY <6>3 DEF mine, last
          <5>2. \A j \in 1 .. k + 1 : r.message[j] = w.message[j]
            <6> SUFFICES ASSUME NEW j \in 1 .. k + 1 PROVE r.message[j] = w.message[j]
              OBVIOUS
            <6>1. j \in 1 .. k \/ j = k + 1
              OBVIOUS
            <6> QED
              BY <2>2, <2>3, <4>1, <4>2, <5>1, <6>1
          <5>3. Agrees(r, w)
            BY <1>1, <2>2, <5>2 DEF Agrees
          <5>4. InStep(r, w)
            BY <1>0, <2>2, <4>1, <4>2 DEF InStep
          <5> QED
            BY <5>3, <5>4
        <4>3. CASE ~InStep(i, v)
          <5>1. w.at = 1
            BY <2>4, <4>1, <4>3
          <5> QED
            BY <1>1, <2>2, <5>1 DEF Late
        <4> QED
          BY <4>2, <4>3
      <3> QED
        BY <3>1, <3>2
    <2> DEFINE Told == (\E w \in W : Leads(r, w)) \/ (\E w \in W : w.at \in 1 .. 2)
    <2>6. ASSUME NEW v \in V PROVE Told
      <3>1. v.at < 3 + 2 * Length
        <4>1. CASE InStep(i, v)
          BY <2>3, <4>1
        <4>2. CASE ~InStep(i, v)
          BY <1>0, <2>4, <4>2
        <4> QED
          BY <4>1, <4>2
      <3>2. PICK w \in W : w.message = v.message /\ w.at = v.at + 1
        BY <3>1 DEF Moves
      <3>3. CASE InStep(i, v)
        <4>1. InStep(r, w)
          BY <1>0, <2>2, <3>2, <3>3 DEF InStep
        <4>2. Leads(r, w)
          BY <1>1, <2>2, <4>1 DEF Leads
        <4> QED
          BY <4>2
      <3>4. CASE ~InStep(i, v)
        BY <2>4, <3>2, <3>4
      <3> QED
        BY <3>3, <3>4
    <2>7. ASSUME V = {}, IsNoise(i, left) PROVE IsNoise(r, rest)
      <3>1. left + 3 + k <= MaxNoise /\ (last => left + 4 + k <= MaxNoise)
        BY <1>1, <2>7 DEF IsNoise
      <3>2. rest + 3 + (k + 1) <= MaxNoise
        <4>1. CASE last
          BY <1>0, <3>1, <4>1
        <4>2. CASE ~last
          <5>1. rest + 1 = left
            BY <1>2, <1>4, <2>7, <4>2 DEF IsOne
          <5> QED
            BY <1>0, <3>1, <5>1
        <4> QED
          BY <4>1, <4>2
      <3> QED
        BY <1>1, <2>2, <3>2 DEF IsNoise
    <2>8. Told \/ IsNoise(r, rest)
      BY <2>6, <2>7 DEF DataInv
    <2>9. DataInv(r, W, rest)
      BY <2>5, <2>8 DEF DataInv
    <2> QED
      BY <2>2, <2>9 DEF WireInv, r
  <1> QED
    BY <1>3, <1>4

\* The end of a message: somebody's, unless noise could have made all of it.
LEMMA WireLast ==
    ASSUME MaxNoise <= Length + 1,
           NEW i, ReceiverOK(i), NEW V \in SUBSET VoiceSet, NEW W \in SUBSET VoiceSet, Moves(V, W),
           NEW left \in 0 .. MaxNoise, NEW rest, NEW air, NEW bit \in BOOLEAN,
           \A v \in V : <<v.who, v.message>> \in air,
           i.state = "data", i.counter = 2 * Length - 1, DataInv(i, V, left)
    PROVE  WireInv(Receive(i, bit), W, rest, air)
  <1> DEFINE r == Receive(i, bit)
             k == Length - 1
  <1>0. /\ Length \in Nat /\ Length > 0 /\ MaxNoise \in Nat
        /\ \A v \in V \cup W : v.at \in 0 .. 3 + 2 * Length
        /\ i.message \in Seq(BOOLEAN) /\ Len(i.message) = (i.counter + 1) \div 2
    BY Constants DEF ReceiverOK, VoiceSet
  <1>1. /\ i.counter % 2 = 1 /\ i.counter \div 2 = k /\ i.counter + 1 = 2 * Length
        /\ Len(i.message) = Length /\ (i.counter + 1) % 2 # 1
    BY <1>0
  <1>2. Receive(i, bit) = To(i, "pause", 0)
    BY <1>1 DEF Receive, DataHalfBit
  <1>3. r.state = "pause" /\ r.counter = 0 /\ r.message = i.message
    BY <1>2 DEF To, ReceiverOK
  <1> HIDE DEF r
  <1>4. \A v \in V : v.at <= 2 \/ (InStep(i, v) /\ Agrees(i, v))
    BY <1>0 DEF DataInv, Late
  <1>5. ASSUME NEW w \in W PROVE FallsSilent(0, w) /\ w.at <= 0 + 3
    <2>1. FallsSilent(0, w)
      BY SilentNow
    <2>2. CASE w.at # 0
      <3>1. PICK v \in V : w.at = v.at + 1
        BY <2>2 DEF Moves
      <3>2. ~InStep(i, v)
        BY <1>0, <3>1 DEF InStep
      <3> QED
        BY <1>0, <1>4, <2>1, <3>1, <3>2
    <2> QED
      BY <2>1, <2>2
  <1>6. ASSUME NEW v \in V, Leads(i, v) PROVE IsSomebodys(i.message, air)
    <2>1. InStep(i, v) /\ i.message[Length] = v.message[Length]
      BY <1>6 DEF Leads
    <2>2. ~(v.at <= 2)
      BY <1>0, <2>1 DEF InStep
    <2>3. \A j \in 1 .. k : i.message[j] = v.message[j]
      BY <1>1, <1>4, <2>2 DEF Agrees
    <2>4. \A j \in 1 .. Length : i.message[j] = v.message[j]
      <3> SUFFICES ASSUME NEW j \in 1 .. Length PROVE i.message[j] = v.message[j]
        OBVIOUS
      <3>1. j \in 1 .. k \/ j = Length
        BY <1>0
      <3> QED
        BY <2>1, <2>3, <3>1
    <2>5. v.message \in [1 .. Length -> BOOLEAN] /\ v.who \in {"own", "other"}
      BY DEF VoiceSet, Message
    <2>6. i.message \in [1 .. Length -> BOOLEAN]
      BY <1>0, <1>1
    <2>7. i.message = v.message
      <3> DEFINE a == i.message
                 b == v.message
      <3>1. a \in [1 .. Length -> BOOLEAN] /\ b \in [1 .. Length -> BOOLEAN]
        BY <2>5, <2>6
      <3>2. \A j \in 1 .. Length : a[j] = b[j]
        BY <2>4
      <3> HIDE DEF a, b
      <3>3. a = [j \in 1 .. Length |-> a[j]] /\ b = [j \in 1 .. Length |-> b[j]]
        BY <3>1, Zenon
      <3>4. [j \in 1 .. Length |-> a[j]] = [j \in 1 .. Length |-> b[j]]
        BY <3>2, Zenon
      <3>5. a = b
        BY <3>3, <3>4, Zenon
      <3> QED
        BY <3>5 DEF a, b
    <2> QED
      BY <2>5, <2>7 DEF IsSomebodys
  <1>7. ASSUME NEW v \in V, v.at \in 1 .. 2 PROVE \E w \in W : w.at >= 1
    BY <1>0, <1>7 DEF Moves
  <1>8. ~IsNoise(i, left)
    BY <1>0, <1>1 DEF IsNoise
  <1>9. (\E w \in W : w.at >= 1) \/ IsSomebodys(i.message, air)
    BY <1>6, <1>7, <1>8 DEF DataInv
  <1>10. PauseInv(r, W, air)
    BY <1>3, <1>5, <1>9 DEF PauseInv
  <1> QED
    BY <1>3, <1>10 DEF WireInv, r

\* One half bit: In hears what somebody says, and the same is true of the next.
LEMMA WireStep ==
    ASSUME MaxNoise <= Length + 1,
           NEW i, ReceiverOK(i), NEW V \in SUBSET VoiceSet, NEW W \in SUBSET VoiceSet, Moves(V, W),
           NEW left \in 0 .. MaxNoise, NEW rest \in Nat, rest <= left,
           NEW air, NEW next, i.state # "none" => air \subseteq next,
           \A v \in V : <<v.who, v.message>> \in next,
           NEW bit \in BOOLEAN, bit => IsOne(V, left, rest), ~bit => IsZero(V),
           WireInv(i, V, left, air)
    PROVE  /\ WireInv(Receive(i, bit), W, rest, next)
           /\ Heard(i, bit) => IsSomebodys(i.message, next)
  <1>0. i.counter \in Nat /\ i.state \in States \cup {"error", "suppress"}
    BY DEF ReceiverOK
  <1>1. i.state # "pause" => ~Heard(i, bit)
    BY DEF Heard
  <1>2. CASE i.state = "none"
    BY <1>1, <1>2, WireNone DEF WireInv
  <1>3. CASE i.state = "start"
    BY <1>1, <1>3, WireStart DEF WireInv
  <1>4. CASE i.state = "data"
    <2>1. DataInv(i, V, left) /\ i.counter < 2 * Length
      BY <1>4 DEF WireInv, ReceiverOK
    <2>2. PICK k \in Nat : i.counter = 2 * k \/ i.counter = 2 * k + 1
      <3>1. i.counter \div 2 \in Nat
        BY <1>0
      <3>2. i.counter = 2 * (i.counter \div 2) \/ i.counter = 2 * (i.counter \div 2) + 1
        BY <1>0
      <3> QED
        BY <3>1, <3>2
    <2>3. CASE i.counter = 2 * k
      BY <1>1, <1>4, <2>1, <2>3, WireFirstHalf
    <2>4. CASE i.counter = 2 * k + 1 /\ k + 1 # Length
      BY <1>1, <1>4, <2>1, <2>4, WireSecondHalf
    <2>5. CASE i.counter = 2 * k + 1 /\ k + 1 = Length
      <3>1. i.counter = 2 * Length - 1
        BY <2>5
      <3> QED
        BY <1>1, <1>4, <2>1, <3>1, WireLast
    <2> QED
      BY <2>2, <2>3, <2>4, <2>5
  <1>5. CASE i.state = "pause"
    BY <1>5, WirePause DEF WireInv
  <1>6. CASE i.state = "error"
    <2>1. Receive(i, bit) = To(i, "suppress", 0)
      BY <1>6 DEF Receive, Failed
    <2>2. Receive(i, bit).state = "suppress" /\ Receive(i, bit).counter = 0
      BY <2>1 DEF To, ReceiverOK
    <2> QED
      BY <1>1, <1>6, <2>2, SilentNow DEF WireInv
  <1>7. CASE i.state = "suppress"
    BY <1>1, <1>7, WireSuppress DEF WireInv
  <1> QED
    BY <1>0, <1>2, <1>3, <1>4, <1>5, <1>6, <1>7 DEF States

-----------------------------------------------------------------------------
(* What the transmitters put on the wire                                   *)

LEMMA BegunTwice ==
    ASSUME NEW t, TransmitterOK(t)
    PROVE  Begun(Begun(t)) = Begun(t)
  <1>1. CASE t.state = "none" /\ t.sending # NoMessage
    <2>1. Begun(t) = [t EXCEPT !.state = "start", !.counter = 3, !.first = TRUE]
      BY <1>1 DEF Begun
    <2>2. Begun(t).state = "start"
      BY <2>1 DEF TransmitterOK, Line
    <2> QED
      BY <2>2 DEF Begun
  <1>2. CASE ~(t.state = "none" /\ t.sending # NoMessage)
    BY <1>2 DEF Begun
  <1> QED
    BY <1>1, <1>2

LEMMA AfterHasBegun ==
    ASSUME NEW t, TransmitterOK(t), LineInv(t)
    PROVE  Begun(After(t)) = After(t)
  <1> DEFINE b == Begun(t)
  <1>1. TransmitterOK(b)
    BY BegunType
  <1>2. b.state = "none" => ~Sends(b)
    BY DEF Begun, TransmitterOK, Line, Sends
  <1> HIDE DEF b
  <1>3. After(t).state = "none" => After(t) = b \/ After(t) = Transmitter
    <2>1. CASE b.state = "none"
      BY <2>1 DEF After, b
    <2>2. CASE b.state = "pause" /\ b.counter = 1
      BY <2>2 DEF After, b
    <2>3. CASE b.state # "none" /\ ~(b.state = "pause" /\ b.counter = 1)
      BY <1>1, <2>3 DEF After, b, TransmitterOK, Line, States
    <2> QED
      BY <2>1, <2>2, <2>3
  <1>4. After(t).state = "none" => ~Sends(After(t))
    BY <1>2, <1>3 DEF Transmitter, Sends
  <1> QED
    BY <1>4 DEF Begun, Sends

\* What is seen of a transmitter is a transmitter, half a cycle early or not.
LEMMA SeenNext ==
    ASSUME TypeOK, NEW t, TransmitterOK(t), LineInv(t)
    PROVE  /\ TransmitterOK(Seen(t)) /\ LineInv(Seen(t))
           /\ Seen(After(t)) = After(Seen(t))
           /\ SecondCopy(Seen(t)) => Sends(t) /\ Seen(t).sending = t.sending
  <1>1. TransmitterOK(Begun(t)) /\ TransmitterOK(After(t)) /\ LineInv(After(t))
    BY BegunType, AfterType, LineAfter
  <1>2. LineInv(Begun(t)) /\ Begun(t).sending = t.sending
    BY DEF Begun, TransmitterOK, Line, LineInv, Sends
  <1>3. After(t).sending \in {t.sending, NoMessage}
    BY LineAfter
  <1>4. Seen(t) \in {After(t), Begun(t)} /\ LineInv(Seen(t)) /\ TransmitterOK(Seen(t))
    BY <1>1, <1>2 DEF Seen
  <1>5. Seen(After(t)) = After(Seen(t))
    <2>1. CASE lag = 0
      BY <2>1 DEF Seen
    <2>2. CASE lag = 1
      <3>1. After(Begun(t)) = After(t)
        <4>1. Begun(Begun(t)) = Begun(t)
          BY BegunTwice
        <4> QED
          BY <4>1, Zenon DEF After
      <3> QED
        BY <2>2, <3>1, AfterHasBegun DEF Seen
    <2> QED
      BY <2>1, <2>2 DEF TypeOK
  <1>6. SecondCopy(Seen(t)) => Sends(Seen(t))
    BY <1>4 DEF SecondCopy, LineInv
  <1>7. SecondCopy(Seen(t)) => Sends(t) /\ Seen(t).sending = t.sending
    BY <1>2, <1>3, <1>4, <1>6 DEF Sends
  <1> QED
    BY <1>4, <1>5, <1>7

\* Nothing is seen on the wire of a transmitter at rest.
LEMMA SilentAtRest ==
    ASSUME NEW t, TransmitterOK(t), t.state = "none", t.first
    PROVE  ~SecondCopy(Seen(t))
  <1>1. CASE t.sending = NoMessage
    <2>1. Begun(t) = t
      BY <1>1 DEF Begun
    <2>2. After(t) = t
      BY <2>1 DEF After
    <2> QED
      BY <2>1, <2>2 DEF Seen, SecondCopy
  <1>2. CASE t.sending # NoMessage
    <2> DEFINE b == Begun(t)
    <2>1. b = [t EXCEPT !.state = "start", !.counter = 3, !.first = TRUE]
      BY <1>2 DEF Begun
    <2>2. b \in Line /\ b.state = "start" /\ b.counter = 3 /\ b.first
      <3>1. b \in Line
        BY BegunType DEF TransmitterOK
      <3> QED
        BY <2>1, <3>1 DEF TransmitterOK, Line
    <2> HIDE DEF b
    <2>3. After(t) = [b EXCEPT !.counter = b.counter - 1]
      BY <2>2 DEF After, b
    <2>4. After(t).first
      BY <2>2, <2>3 DEF Line
    <2> QED
      BY <2>2, <2>4 DEF Seen, SecondCopy, b
  <1> QED
    BY <1>1, <1>2

\* A voice begins with the first half bit of a second copy, and goes on to the last.
LEMMA VoiceNext ==
    ASSUME NEW s, TransmitterOK(s), LineInv(s)
    PROVE  /\ SecondCopy(s) => /\ Position(s) \in 0 .. 3 + 2 * Length
                               /\ s.sending \in Message
                               /\ HalfBit(s) <=> BitAt(s.sending, Position(s))
                               /\ \/ Position(s) < 2 + 2 * Length
                                  \/ s.state = "data" /\ s.counter <= 2
           /\ SecondCopy(After(s)) => \/ Position(After(s)) = 0
                                      \/ /\ SecondCopy(s) /\ After(s).sending = s.sending
                                         /\ Position(After(s)) = Position(s) + 1
           /\ SecondCopy(s) /\ Position(s) < 3 + 2 * Length =>
                  /\ SecondCopy(After(s)) /\ After(s).sending = s.sending
                  /\ Position(After(s)) = Position(s) + 1
  <1>0. /\ Length \in Nat /\ Length > 0 /\ s.sending \in Message
        /\ TransmitterOK(After(s)) /\ LineInv(After(s))
    BY Constants, AfterType, LineAfter DEF TransmitterOK, Line
  <1>1. ASSUME NEW t, TransmitterOK(t)
        PROVE  SecondCopy(t) <=> Second(t) /\ Position(t) \in 0 .. 3 + 2 * Length
    <2>1. SecondCopy(t) => Second(t)
      BY DEF SecondCopy, Second
    <2>2. SecondCopy(t) => t.state \in {"start", "data"}
      BY DEF SecondCopy
    <2>3. Second(t) /\ t.state # "pause" => SecondCopy(t)
      BY <1>1 DEF SecondCopy, Second, TransmitterOK, Line, States
    <2>4. Second(t) => /\ Position(t) \in 0 .. 9 + 2 * Length
                       /\ t.state = "pause" <=> Position(t) >= 4 + 2 * Length
      BY <1>1, PositionType
    <2> QED
      BY <1>0, <2>1, <2>2, <2>3, <2>4
  <1>2. CASE Second(s)
    <2>1. \/ Position(s) = 9 + 2 * Length /\ After(s) = Transmitter
          \/ /\ Second(After(s)) /\ After(s).sending = s.sending
             /\ Position(After(s)) = Position(s) + 1
      BY <1>2, SecondAfter
    <2>2. SecondCopy(s) /\ HalfBit(s) <=> BitAt(s.sending, Position(s))
      BY <1>2, HandedOn
    <2>3. SecondCopy(s) => Position(s) < 2 + 2 * Length \/ (s.state = "data" /\ s.counter <= 2)
      BY <1>0 DEF Position, TransmitterOK, SecondCopy, Line
    <2>4. ~SecondCopy(Transmitter)
      BY DEF SecondCopy, Transmitter
    <2>5. Position(s) \in 0 .. 9 + 2 * Length
      BY <1>2, PositionType
    <2>6. SecondCopy(s) <=> Position(s) \in 0 .. 3 + 2 * Length
      BY <1>1, <1>2
    <2>7. Second(After(s)) => (SecondCopy(After(s)) <=> Position(After(s)) \in 0 .. 3 + 2 * Length)
      BY <1>0, <1>1
    <2>8. CASE Position(s) = 9 + 2 * Length /\ After(s) = Transmitter
      BY <1>0, <2>4, <2>6, <2>8
    <2>9. CASE /\ Second(After(s)) /\ After(s).sending = s.sending
               /\ Position(After(s)) = Position(s) + 1
      <3>1. SecondCopy(After(s)) <=> Position(s) \in 0 .. 2 + 2 * Length
        BY <1>0, <2>5, <2>7, <2>9
      <3> QED
        BY <1>0, <2>2, <2>3, <2>5, <2>6, <2>9, <3>1
    <2> QED
      BY <2>1, <2>8, <2>9
  <1>3. CASE ~Second(s)
    <2>1. ~SecondCopy(s)
      BY <1>3 DEF SecondCopy, Second
    <2>2. SecondCopy(After(s)) => Position(After(s)) = 0
      <3>1. CASE Sends(s)
        BY <1>0, <1>1, <1>3, <3>1, FirstAfter
      <3>2. CASE ~Sends(s)
        BY <2>1, <3>2, LineAfter
      <3> QED
        BY <3>1, <3>2
    <2> QED
      BY <2>1, <2>2
  <1> QED
    BY <1>2, <1>3

LEMMA VoicesMove ==
    ASSUME NEW s, TransmitterOK(s), LineInv(s), NEW r, TransmitterOK(r), LineInv(r), NEW missed
    PROVE  /\ VoicesOf(s, missed, r) \in SUBSET VoiceSet
           /\ Moves(VoicesOf(s, missed, r), VoicesOf(After(s), missed, After(r)))
  <1> DEFINE V == VoicesOf(s, missed, r)
             W == VoicesOf(After(s), missed, After(r))
  <1>1. ASSUME NEW t, TransmitterOK(t), LineInv(t), NEW who \in {"own", "other"}
        PROVE  /\ SecondCopy(t) => Voice(who, t) \in VoiceSet
               /\ SecondCopy(After(t)) =>
                      \/ Voice(who, After(t)).at = 0
                      \/ /\ SecondCopy(t)
                         /\ Voice(who, After(t)).message = Voice(who, t).message
                         /\ Voice(who, After(t)).at = Voice(who, t).at + 1
               /\ SecondCopy(t) /\ Voice(who, t).at < 3 + 2 * Length =>
                      /\ SecondCopy(After(t))
                      /\ Voice(who, After(t)).message = Voice(who, t).message
                      /\ Voice(who, After(t)).at = Voice(who, t).at + 1
    BY <1>1, VoiceNext DEF Voice, VoiceSet
  <1>2. V \in SUBSET VoiceSet
    BY <1>1 DEF VoicesOf
  <1>3. ASSUME NEW w \in W
        PROVE  w.at = 0 \/ \E v \in V : w.message = v.message /\ w.at = v.at + 1
    <2>1. CASE w = Voice("own", After(s)) /\ SecondCopy(After(s)) /\ ~missed
      <3>1. SecondCopy(s) => Voice("own", s) \in V
        BY <2>1 DEF VoicesOf
      <3> QED
        BY <1>1, <2>1, <3>1
    <2>2. CASE w = Voice("other", After(r)) /\ SecondCopy(After(r))
      <3>1. SecondCopy(r) => Voice("other", r) \in V
        BY DEF VoicesOf
      <3> QED
        BY <1>1, <2>2, <3>1
    <2> QED
      BY <2>1, <2>2 DEF VoicesOf
  <1>4. ASSUME NEW v \in V, v.at < 3 + 2 * Length
        PROVE  \E w \in W : w.message = v.message /\ w.at = v.at + 1
    <2>1. CASE v = Voice("own", s) /\ SecondCopy(s) /\ ~missed
      <3>1. SecondCopy(After(s)) => Voice("own", After(s)) \in W
        BY <2>1 DEF VoicesOf
      <3> QED
        BY <1>1, <1>4, <2>1, <3>1
    <2>2. CASE v = Voice("other", r) /\ SecondCopy(r)
      <3>1. SecondCopy(After(r)) => Voice("other", After(r)) \in W
        BY DEF VoicesOf
      <3> QED
        BY <1>1, <1>4, <2>2, <3>1
    <2> QED
      BY <2>1, <2>2 DEF VoicesOf
  <1> QED
    BY <1>2, <1>3, <1>4 DEF Moves

-----------------------------------------------------------------------------
(* What is heard                                                           *)

WireOK == WireInv(in, Voices, noiseLeft, aired)

(* What we put on the wire since In was idle is what the flush remembers.    *)
OwnInv == /\ Sends(out.line) => own = out.line.sending
          /\ in.state # "none" => \A m : <<"own", m>> \in aired => m = own

\* The two halves of HeardIsTrue.
AllWereSent == \A h \in heard : WasSent(h)
NoneIsOurs == \A h \in heard : h.external => IsForeign(h)

\* What the house takes for somebody else's is never its own alone, whatever the noise.
LEMMA HalfCycleOwn ==
    ASSUME TypeOK, LinkInv, OwnInv, NEW noise \in BOOLEAN, HalfCycle(noise)
    PROVE  OwnInv' /\ NoneIsOurs'
  <1> DEFINE bit == ((Echo(out.line) /\ ~lost) \/ Echo(other)) \/ noise
  <1>1. TransmitterOK(out.line) /\ LineInv(out.line)
    BY DEF TypeOK, LinkInv
  <1>2. OnWire(out.line) => Sends(out.line)
    BY <1>1, SeenNext DEF OnWire
  <1>3. /\ out'.line = After(out.line) /\ own' = own
        /\ aired' = (IF in.state = "none" THEN {} ELSE aired)
                    \cup (IF OnWire(out.line) THEN {<<"own", out.line.sending>>} ELSE {})
                    \cup (IF OnWire(other) THEN {<<"other", other.sending>>} ELSE {})
        /\ heard' = IF Heard(in, bit)
                    THEN {[external |-> in.message # own, message |-> in.message]} ELSE {}
    BY OutAfter DEF HalfCycle
  <1> HIDE DEF bit
  <1>4. \A m : <<"own", m>> \in aired' => m = own
    <2> SUFFICES ASSUME NEW m, <<"own", m>> \in aired' PROVE m = own
      OBVIOUS
    <2>1. \/ in.state # "none" /\ <<"own", m>> \in aired
          \/ OnWire(out.line) /\ m = out.line.sending
      BY <1>3
    <2> QED
      BY <1>2, <2>1 DEF OwnInv
  <1>5. OwnInv'
    <2>1. Sends(After(out.line)) => own = After(out.line).sending
      BY <1>1, LineAfter DEF OwnInv, Sends
    <2>2. Sends(out.line)' => own' = out'.line.sending
      BY <1>3, <2>1 DEF Sends
    <2> QED
      BY <1>3, <1>4, <2>2 DEF OwnInv
  <1>6. NoneIsOurs'
    <2> SUFFICES ASSUME NEW h \in heard' PROVE h.external => IsForeign(h)'
      BY DEF NoneIsOurs
    <2>1. h = [external |-> in.message # own, message |-> in.message]
      BY <1>3
    <2>2. h.message = in.message
      BY <2>1
    <2>3. h.external = (in.message # own)
      BY <2>1, Zenon
    <2>4. h.external => h.message # own
      BY <2>2, <2>3, Zenon
    <2> QED
      BY <1>4, <2>4 DEF IsForeign
  <1> QED
    BY <1>5, <1>6

LEMMA OwnStep == TypeOK /\ LinkInv /\ OwnInv /\ NoneIsOurs /\ [Next]_vars => OwnInv' /\ NoneIsOurs'
  <1> SUFFICES ASSUME TypeOK, LinkInv, OwnInv, NoneIsOurs, [Next]_vars
               PROVE  OwnInv' /\ NoneIsOurs'
    OBVIOUS
  <1>1. CASE HalfCycles
    BY <1>1, HalfCycleOwn DEF HalfCycles
  <1>2. CASE BeginFlush \/ Retry \/ EndFlush
    <2>1. /\ UNCHANGED <<out, in, aired>> /\ heard' = {}
          /\ own' = own \/ (in.state = "none" /\ ~Sends(out.line))
      BY <1>2 DEF BeginFlush, Retry, EndFlush, Sent, ClearToSend, IsReadyToReceive, bounds, Sends
    <2> QED
      BY <2>1 DEF OwnInv, NoneIsOurs, Sends
  <1>3. CASE SendWhenQuiet \/ SendNext
    <2>1. PICK m \in Messages : SendMessage(m)
      BY <1>3 DEF SendWhenQuiet, SendNext
    <2>2. /\ out'.line = [out.line EXCEPT !.sending = m] /\ in' = in
          /\ own' = m /\ heard' = {} /\ aired' = aired
      BY <2>1 DEF SendMessage
    <2>3. in.state = "none"
      BY <1>3 DEF SendWhenQuiet, SendNext, IsQuiet, IsReadyToReceive, Sent
    <2>4. out'.line.sending = m
      BY <2>2 DEF TypeOK, Line
    <2> QED
      BY <2>2, <2>3, <2>4 DEF OwnInv, NoneIsOurs
  <1>4. CASE ForeignSends
    <2>1. UNCHANGED <<out, in, own, aired>> /\ heard' = {}
      BY <1>4 DEF ForeignSends
    <2> QED
      BY <2>1 DEF OwnInv, NoneIsOurs, Sends
  <1>5. CASE UNCHANGED vars
    BY <1>5 DEF vars, OwnInv, NoneIsOurs, IsForeign, Sends
  <1> QED
    BY <1>1, <1>2, <1>3, <1>4, <1>5 DEF Next

LEMMA WireSame ==
    ASSUME NEW i, NEW j, j.state = i.state, j.counter = i.counter, j.message = i.message,
           NEW V, NEW left, NEW air, WireInv(i, V, left, air)
    PROVE  WireInv(j, V, left, air)
  <1>1. StartInv(i, V, left) => StartInv(j, V, left)
    BY DEF StartInv
  <1>2. DataInv(i, V, left) => DataInv(j, V, left)
    BY DEF DataInv, InStep, Agrees, Late, Leads, IsNoise
  <1>3. PauseInv(i, V, air) => PauseInv(j, V, air)
    BY DEF PauseInv
  <1> QED
    BY <1>1, <1>2, <1>3 DEF WireInv

LEMMA HalfCycleHears ==
    ASSUME NoisyLastBit = FALSE, MaxNoise <= Length + 1, TypeOK, LinkInv, WireOK,
           NEW noise \in BOOLEAN, HalfCycle(noise)
    PROVE  WireOK' /\ AllWereSent'
  <1> DEFINE s == Seen(out.line)
             r == Seen(other)
             bit == ((Echo(out.line) /\ ~lost) \/ Echo(other)) \/ noise
             V == Voices
             W == VoicesOf(After(s), lost, After(r))
  <1>1. /\ TransmitterOK(out.line) /\ TransmitterOK(other) /\ LineInv(out.line) /\ LineInv(other)
        /\ ReceiverOK(in) /\ lost \in BOOLEAN /\ noiseLeft \in 0 .. MaxNoise
    BY DEF TypeOK, LinkInv, ReceiverOK
  <1>2. /\ TransmitterOK(s) /\ LineInv(s) /\ TransmitterOK(r) /\ LineInv(r)
        /\ Seen(After(out.line)) = After(s) /\ Seen(After(other)) = After(r)
        /\ SecondCopy(s) => Sends(out.line) /\ s.sending = out.line.sending
        /\ SecondCopy(r) => Sends(other) /\ r.sending = other.sending
    BY <1>1, SeenNext
  <1>3. V \in SUBSET VoiceSet /\ W \in SUBSET VoiceSet /\ Moves(V, W)
    <2>1. V \in SUBSET VoiceSet /\ Moves(V, W)
      BY <1>2, VoicesMove DEF Voices
    <2>2. /\ TransmitterOK(After(s)) /\ LineInv(After(s))
          /\ TransmitterOK(After(r)) /\ LineInv(After(r))
      BY <1>2, AfterType, LineAfter
    <2>3. W \in SUBSET VoiceSet
      BY <2>2, VoicesMove
    <2> QED
      BY <2>1, <2>3
  <1>4. /\ lag' = lag /\ lost' = lost /\ own' = own
        /\ out'.line = After(out.line) /\ other' = After(other)
        /\ in' = [Receive(in, bit) EXCEPT !.quiet = QuietAfter(in, bit)]
        /\ noiseLeft' = IF noise THEN noiseLeft - 1 ELSE noiseLeft
        /\ noise => noiseLeft > 0
        /\ noise => ~LastBit(out.line) /\ ~LastBit(other)
    BY OutAfter DEF HalfCycle
  <1>5. Voices' = W
    <2>1. Seen(out.line)' = Seen(After(out.line)) /\ Seen(other)' = Seen(After(other))
      BY <1>4 DEF Seen
    <2> QED
      BY <1>2, <1>4, <2>1 DEF Voices
  <1>6. bit \in BOOLEAN /\ noiseLeft' \in Nat /\ noiseLeft' <= noiseLeft
    BY <1>1, <1>4
  <1>7. /\ OnWire(out.line) <=> SecondCopy(s)
        /\ OnWire(other) <=> SecondCopy(r)
    BY DEF OnWire
  <1>8. /\ SecondCopy(s) /\ ~lost => Voice("own", s) \in V
        /\ SecondCopy(r) => Voice("other", r) \in V
        /\ \A v \in V : \/ v = Voice("own", s) /\ SecondCopy(s) /\ ~lost
                        \/ v = Voice("other", r) /\ SecondCopy(r)
    BY DEF Voices, VoicesOf
  <1>9. /\ SecondCopy(s) => (HalfBit(s) <=> Speaks(Voice("own", s)))
        /\ SecondCopy(r) => (HalfBit(r) <=> Speaks(Voice("other", r)))
        /\ SecondCopy(s) /\ ~LastBit(out.line) => Voice("own", s).at < 2 + 2 * Length
        /\ SecondCopy(r) /\ ~LastBit(other) => Voice("other", r).at < 2 + 2 * Length
    BY <1>2, <1>7, VoiceNext DEF Voice, Speaks, LastBit
  <1>10. (\E v \in V : Speaks(v)) <=> (Echo(out.line) /\ ~lost) \/ Echo(other)
    <2>1. /\ Echo(out.line) <=> SecondCopy(s) /\ HalfBit(s)
          /\ Echo(other) <=> SecondCopy(r) /\ HalfBit(r)
      BY DEF Echo, OnWire
    <2> HIDE DEF s, r, V
    <2> QED
      BY <1>8, <1>9, <2>1
  <1>11. noise => noiseLeft' + 1 = noiseLeft /\ \A v \in V : v.at < 2 + 2 * Length
    <2>1. noise => noiseLeft' + 1 = noiseLeft
      BY <1>1, <1>4
    <2>2. noise => \A v \in V : v.at < 2 + 2 * Length
      BY <1>4, <1>8, <1>9
    <2> QED
      BY <2>1, <2>2
  <1>12. (bit => IsOne(V, noiseLeft, noiseLeft')) /\ (~bit => IsZero(V))
    BY <1>10, <1>11 DEF IsOne, IsZero
  <1>13. aired' = (IF in.state = "none" THEN {} ELSE aired)
                  \cup (IF SecondCopy(s) THEN {<<"own", out.line.sending>>} ELSE {})
                  \cup (IF SecondCopy(r) THEN {<<"other", other.sending>>} ELSE {})
    BY <1>7 DEF HalfCycle
  <1>14. \A v \in V : <<v.who, v.message>> \in aired'
    BY <1>2, <1>8, <1>13 DEF Voice
  <1>15. in.state # "none" => aired \subseteq aired'
    BY <1>13
  <1>16. WireInv(in, V, noiseLeft, aired)
    BY DEF WireOK
  <1>17. /\ heard' = IF Heard(in, bit)
                     THEN {[external |-> in.message # own, message |-> in.message]} ELSE {}
    BY DEF HalfCycle
  <1> HIDE DEF s, r, V, W, bit
  <1> DEFINE i == Receive(in, bit)
  <1>19. /\ WireInv(i, W, noiseLeft', aired')
         /\ Heard(in, bit) => IsSomebodys(in.message, aired')
    BY <1>1, <1>3, <1>6, <1>12, <1>14, <1>15, <1>16, WireStep
  <1>20. WireOK'
    <2>1. ReceiverOK(i)
      BY <1>1, <1>6, ReceiveType
    <2> HIDE DEF i
    <2>2. in'.state = i.state /\ in'.counter = i.counter /\ in'.message = i.message
      BY <1>4, <2>1 DEF ReceiverOK, i
    <2>3. WireInv(in', W, noiseLeft', aired')
      BY <1>19, <2>2, WireSame
    <2> QED
      BY <1>5, <2>3 DEF WireOK
  <1>21. AllWereSent'
    <2> SUFFICES ASSUME NEW h \in heard' PROVE WasSent(h)'
      BY DEF AllWereSent
    <2>1. Heard(in, bit) /\ h = [external |-> in.message # own, message |-> in.message]
      BY <1>17
    <2>2. h.message = in.message
      BY <2>1
    <2> QED
      BY <1>19, <2>1, <2>2 DEF WasSent, IsSomebodys
  <1> QED
    BY <1>20, <1>21

LEMMA HearsInit == Init => WireOK /\ OwnInv /\ AllWereSent /\ NoneIsOurs
  <1> SUFFICES ASSUME Init PROVE WireOK /\ OwnInv /\ AllWereSent /\ NoneIsOurs
    OBVIOUS
  <1>1. /\ out.line = Transmitter /\ other = Transmitter
        /\ in = [state |-> "none", counter |-> 0, message |-> <<>>, quiet |-> 0] /\ heard = {}
    BY DEF Init
  <1>2. in.state = "none"
    BY <1>1
  <1>3. ~SecondCopy(Seen(Transmitter)) /\ ~Sends(Transmitter)
    BY TransmitterType, SilentAtRest DEF Transmitter, Sends
  <1>4. Voices = {}
    BY <1>1, <1>3 DEF Voices, VoicesOf
  <1>5. WireOK
    BY <1>2, <1>4 DEF WireOK, WireInv
  <1> QED
    BY <1>1, <1>2, <1>3, <1>5 DEF OwnInv, AllWereSent, NoneIsOurs

LEMMA HearsStep ==
    ASSUME NoisyLastBit = FALSE, MaxNoise <= Length + 1,
           TypeOK, LinkInv, WireOK, AllWereSent, [Next]_vars
    PROVE  WireOK' /\ AllWereSent'
  <1>0. /\ TransmitterOK(out.line) /\ TransmitterOK(other) /\ LineInv(out.line) /\ LineInv(other)
    BY DEF TypeOK, LinkInv
  <1>1. CASE HalfCycles
    BY <1>1, HalfCycleHears DEF HalfCycles
  <1>2. CASE BeginFlush \/ Retry \/ EndFlush
    <2>1. UNCHANGED <<lag, out, in, other, lost, noiseLeft, aired>> /\ heard' = {}
      BY <1>2 DEF BeginFlush, Retry, EndFlush, bounds
    <2>2. Voices' = Voices
      BY <2>1 DEF Voices, Seen
    <2> QED
      BY <2>1, <2>2 DEF WireOK, AllWereSent
  <1>3. CASE SendWhenQuiet \/ SendNext
    <2>1. PICK m \in Messages : SendMessage(m)
      BY <1>3 DEF SendWhenQuiet, SendNext
    <2>2. /\ out'.line = [out.line EXCEPT !.sending = m] /\ other' = other /\ in' = in
          /\ lag' = lag /\ heard' = {}
          /\ out.line.state = "none" /\ out.line.first
      BY <2>1 DEF SendMessage, MaySend
    <2>3. in.state = "none"
      BY <1>3 DEF SendWhenQuiet, SendNext, IsQuiet, IsReadyToReceive, Sent
    <2>4. /\ out'.line.state = "none" /\ out'.line.sending = m /\ out'.line.first
          /\ TransmitterOK(out'.line)
      BY <1>0, <2>1, <2>2, Constants DEF TransmitterOK, Line
    <2>5. ~SecondCopy(Seen(out.line)) /\ ~SecondCopy(Seen(out'.line))
      BY <1>0, <2>2, <2>4, SilentAtRest
    <2>6. Seen(out.line)' = Seen(out'.line) /\ Seen(other)' = Seen(other)
      BY <2>2 DEF Seen
    <2>7. Voices' = Voices
      BY <2>5, <2>6 DEF Voices, VoicesOf
    <2> QED
      BY <2>2, <2>3, <2>7 DEF WireOK, WireInv, AllWereSent
  <1>4. CASE ForeignSends
    <2>1. PICK m \in Foreign : other' = [other EXCEPT !.sending = m]
      BY <1>4 DEF ForeignSends
    <2>2. /\ UNCHANGED <<lag, out, in, lost, noiseLeft, aired>> /\ heard' = {}
          /\ other.state = "none" /\ other.first
      BY <1>0, <1>4 DEF ForeignSends, LineInv
    <2>3. other'.state = "none" /\ other'.first /\ TransmitterOK(other')
      BY <1>0, <2>1, <2>2, Constants DEF TransmitterOK, Line
    <2>4. ~SecondCopy(Seen(other)) /\ ~SecondCopy(Seen(other'))
      BY <1>0, <2>2, <2>3, SilentAtRest
    <2>5. Seen(out.line)' = Seen(out.line) /\ Seen(other)' = Seen(other')
      BY <2>2 DEF Seen
    <2>6. Voices' = Voices
      BY <2>2, <2>4, <2>5 DEF Voices, VoicesOf
    <2> QED
      BY <2>2, <2>6 DEF WireOK, AllWereSent
  <1>5. CASE UNCHANGED vars
    BY <1>5 DEF vars, WireOK, Voices, Seen, AllWereSent, WasSent
  <1> QED
    BY <1>1, <1>2, <1>3, <1>4, <1>5 DEF Next

-----------------------------------------------------------------------------
(* The theorems                                                            *)

\* Every counter stays in the range of its state, and In's message never grows
\* beyond the length of a message: the index of calc_Output_HalfBit and the
\* shift of processReceivedHalfBit are in range (tw523out.cpp, tw523in.cpp).
THEOREM TypeCorrect == Spec => []TypeOK
  BY TypeInit, TypeStep, PTL DEF Spec

\* What SendMessage asserts holds whenever mFlushQueue calls mSendMessage, after
\* a wait for quiet that looks at the receiver only as well as between two
\* messages (tw523out.cpp:89-92).
THEOREM SendAssertionsAlwaysHold == Spec => []SendAssertionsHold
  <1>1. TypeOK /\ LinkInv => SendAssertionsHold
    <2> SUFFICES ASSUME TypeOK, LinkInv, (phase = "wait" /\ IsQuiet) \/ Sent PROVE MaySend
      BY DEF SendAssertionsHold
    <2>1. ~Sends(out.line)
      BY DEF LinkInv, Sent, ClearToSend, Sends
    <2>2. out.line.state = "none" /\ out.line.first
      BY <2>1 DEF LinkInv, LineInv
    <2> QED
      BY <2>2 DEF TypeOK, TransmitterOK, MaySend
  <1> QED
    BY <1>1, TypeInit, TypeStep, LinkInit, LinkStep, PTL DEF Spec

\* A message that nothing else on the wire disturbs is acknowledged by the time
\* mSendMessage returns, by the unit as by the simulated one, provided that no
\* queued message is the one that means "nothing to send" (tw523in.cpp:94-97,
\* tw523out.cpp:65-79).
THEOREM UndisturbedIsAlwaysAcknowledged ==
    ASSUME NoMessage \notin Messages
    PROVE  Spec => []UndisturbedIsAcknowledged
  <1>1. Init => LockedInv
    BY DEF Init, LockedInv
  <1>2. TypeOK /\ LinkInv /\ LockedInv /\ [Next]_vars => LockedInv'
    BY LockedStep
  <1>3. LockedInv => UndisturbedIsAcknowledged
    BY DEF LockedInv, UndisturbedIsAcknowledged, Sent, ClearToSend, Second, Sends
  <1> QED
    BY <1>1, <1>2, <1>3, TypeInit, TypeStep, LinkInit, LinkStep, PTL DEF Spec

\* Whatever the noise and however transmissions overlap, a message that is
\* handed to the rules as somebody else's was not the program's alone, although
\* own is cleared by the flush and the sending by the half cycle (tw523.cpp:194-208,
\* 397).
THEOREM OwnIsNeverForeign == Spec => [](\A h \in heard : h.external => IsForeign(h))
  <1>1. NoneIsOurs => \A h \in heard : h.external => IsForeign(h)
    BY DEF NoneIsOurs
  <1>2. Init => OwnInv /\ NoneIsOurs
    BY HearsInit
  <1> QED
    BY <1>1, <1>2, OwnStep, TypeInit, TypeStep, LinkInit, LinkStep, PTL DEF Spec

\* What is handed to the rules was sent by somebody, and what is handed on as
\* somebody else's by somebody else, however the transmissions overlap, as long
\* as noise spares the last bit of a message, the end of which is not looked
\* at, and is too little to make a whole message of its own: three half bits to
\* start one and one for each bit but the last (tw523in.cpp:63-91,
\* tw523.cpp:194-208, 397).
THEOREM HeardIsAlwaysTrue ==
    ASSUME NoisyLastBit = FALSE, MaxNoise <= Length + 1
    PROVE  Spec => []HeardIsTrue
  <1>1. TypeOK /\ LinkInv /\ WireOK /\ AllWereSent /\ [Next]_vars => WireOK' /\ AllWereSent'
    BY HearsStep
  <1>2. AllWereSent /\ NoneIsOurs => HeardIsTrue
    BY DEF AllWereSent, NoneIsOurs, HeardIsTrue
  <1> QED
    BY <1>1, <1>2, OwnStep, HearsInit, TypeInit, TypeStep, LinkInit, LinkStep, PTL DEF Spec
=============================================================================
