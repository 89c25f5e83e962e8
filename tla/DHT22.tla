------------------------------- MODULE DHT22 -------------------------------
(***************************************************************************)
(* The polled reader of the sensor (DHT22.c): one action is one call of    *)
(* read_DHT_Data, with what can go wrong while it watches the pin.         *)
(*                                                                         *)
(* The program counts how often it finds the pin in the same state.  The   *)
(* changes are numbered from 0; a bit of the frame is the length of an     *)
(* even one, from the fourth on.  The pin stays in one state after the     *)
(* last change, which the program takes for a change that lasts until its  *)
(* counter is full.                                                        *)
(***************************************************************************)
EXTENDS DhtFrame, SequencesExt

CONSTANT BadValue       \* 9999: a value in tenths that stands for none

ASSUME BadValueAssumption == BadValue \in 0 .. TwoTo[2 * Bits - 1] - 1

VARIABLES
    cached,     \* cachedH and cachedC, in tenths
    shown,      \* what was printed, or Skipped
    lastGood    \* the last frame that was received as it was sent

pollVars == <<cached, shown, lastGood>>

MaxTimings == 2 * FrameBits + 5
IdleChange == MaxTimings - 1        \* the change at which a complete frame ends

Skipped == <<>>

\* What may happen to a frame: nothing, it breaks off, or the program was not
\* scheduled while it measured a long pulse, and counts a short one.
Faults == {<<"none", IdleChange>>}
              \cup {<<"breaksOff", i>> : i \in 0 .. IdleChange - 1}
              \cup {<<"misread", k>> : k \in 0 .. FrameBits - 1}

LastChange(fault) == IF fault[1] = "breaksOff" THEN fault[2] ELSE IdleChange

\* The bits that are read: one for every even change after the first two.
ReadCount(fault) == Cardinality({i \in 3 .. LastChange(fault) : i % 2 = 0})

\* The last change is as long as the counter allows.
ReadBit(frame, fault, k) ==
    IF 4 + 2 * k = LastChange(fault) THEN 1
    ELSE IF fault = <<"misread", k>> THEN 0
    ELSE BitOf(frame, k)

\* The bytes of data.  A bit beyond the fortieth is stored behind them.
ReadByte(frame, fault, i) ==
    FoldLeft(ShiftIn, 0,
             [j \in 1 .. Cardinality({k \in 0 .. ReadCount(fault) - 1 : k \div Bits = i}) |->
                ReadBit(frame, fault, i * Bits + j - 1)])

\* Mutant: a byte is left out of the sum.
ChecksumHolds_ThreeBytes(bytes) == bytes[4] = (bytes[0] + bytes[1] + bytes[2]) % TwoTo[Bits]

ChecksumHolds(bytes) == bytes[4] = Checksum(bytes)

\* Mutant: 39 bits will do.
Enough_OneLess(count) == count >= FrameBits - 1

Enough(count) == count >= FrameBits

\* Mutant: the high byte is shifted one place too far.
Readings_WideShift(bytes) ==
    LET c == bytes[2] * TwoTo[Bits + 1] + bytes[3]
    IN  <<bytes[0] * TwoTo[Bits + 1] + bytes[1], IF BitOf(bytes, 2 * Bits) = 1 THEN -c ELSE c>>

\* h and c.  The sign bit is not taken out of the temperature.
Readings(bytes) ==
    LET c == bytes[2] * TwoTo[Bits] + bytes[3]
    IN  <<bytes[0] * TwoTo[Bits] + bytes[1], IF BitOf(bytes, 2 * Bits) = 1 THEN -c ELSE c>>

PollInit ==
    /\ cached = <<BadValue, BadValue>>
    /\ shown = Skipped
    /\ lastGood = <<>>

\* Mutant: only the humidity is looked at.
Printed_Humidity(values) == IF values[1] = BadValue THEN Skipped ELSE values

\* "Data not good, Skipped", also when the sensor has sent the bad value.
Printed(values) ==
    IF values[1] = BadValue \/ values[2] = BadValue THEN Skipped ELSE values

\* data and bitsRead begin anew in every call.
read_DHT_Data(frame, fault) ==
    LET data     == [i \in 0 .. 4 |-> ReadByte(frame, fault, i)]
        bitsRead == ReadCount(fault)
    IN  /\ cached' = IF Enough(bitsRead) /\ ChecksumHolds(data) THEN Readings(data) ELSE cached
        /\ shown' = Printed(cached')
        /\ lastGood' = IF data = frame /\ bitsRead >= FrameBits THEN frame ELSE lastGood

PollNext == \E payload \in Payloads, fault \in Faults : read_DHT_Data(Frame(payload), fault)

PollSpec == PollInit /\ [][PollNext]_pollVars

-----------------------------------------------------------------------------
(* Properties. *)

Abs(n) == IF n < 0 THEN -n ELSE n

\* read_DHT_Data shows and caches values of 16 bits, the temperature with a sign, and
\* counts as good only what is a frame.
DHT22TypeOK ==
    /\ \A v \in {cached, shown} \ {Skipped} :
         /\ v[1] \in 0 .. TwoTo[2 * Bits] - 1
         /\ v[2] \in -(TwoTo[2 * Bits]) + 1 .. TwoTo[2 * Bits] - 1
    /\ cached # Skipped
    /\ lastGood = <<>> \/ lastGood \in [0 .. 4 -> Byte]

\* A temperature is that of a frame, but for the bit of the sign, which the program
\* leaves in the magnitude.
IsTemperatureOf(t, frame) ==
    /\ Abs(t) % TwoTo[2 * Bits - 1] = Magnitude(frame)
    /\ (t < 0) <=> (BitOf(frame, 2 * Bits) = 1)

\* What is shown comes from the last frame that was received as it was sent: no
\* frame that broke off, and none of which one bit was misread, gets through the
\* count of bits and the sum, or replaces the cached values.  Nothing is shown
\* before there is such a frame, and of one that has the bad value.
ShowsTheLastGoodFrame ==
    \/ /\ shown = Skipped
       /\ \/ lastGood = <<>>
          \/ Humidity(lastGood) = BadValue
          \/ IsTemperatureOf(BadValue, lastGood)
    \/ /\ shown # Skipped /\ lastGood # <<>>
       /\ shown[1] = Humidity(lastGood) /\ shown[1] # BadValue
       /\ IsTemperatureOf(shown[2], lastGood) /\ shown[2] # BadValue

=============================================================================
