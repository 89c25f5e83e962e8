------------------------------ MODULE DhtFrame ------------------------------
(***************************************************************************)
(* What a DHT22 sends (the comments and the arithmetic of the two programs *)
(* that read it): five bytes, the most significant bit first.  Two are the *)
(* humidity, two the temperature with a sign bit, and the last is the sum  *)
(* of the others.  The width of a byte is a parameter.                     *)
(***************************************************************************)
EXTENDS Integers

CONSTANT Bits      \* 8

ASSUME FrameAssumption == Bits \in Nat \ {0}

\* A shift to the left is a product with a power of two.
TwoTo[n \in Nat] == IF n = 0 THEN 1 ELSE 2 * TwoTo[n - 1]

Byte      == 0 .. TwoTo[Bits] - 1
FrameBits == 5 * Bits

Payloads == [0 .. 3 -> Byte]

Checksum(data) == (data[0] + data[1] + data[2] + data[3]) % TwoTo[Bits]

\* The bytes on the wire.
Frame(payload) == [i \in 0 .. 4 |-> IF i < 4 THEN payload[i] ELSE Checksum(payload)]

\* Bit k of a frame, in the order of transmission and from 0.
BitOf(frame, k) == (frame[k \div Bits] \div TwoTo[Bits - 1 - (k % Bits)]) % 2

\* A bit shifted into a byte.
ShiftIn(byte, bit) == 2 * byte + bit

\* Tenths of a percent and of a degree, as the sensor means them.
Humidity(frame)    == frame[0] * TwoTo[Bits] + frame[1]
Magnitude(frame)   == (frame[2] % TwoTo[Bits - 1]) * TwoTo[Bits] + frame[3]
Temperature(frame) == IF BitOf(frame, 2 * Bits) = 1 THEN -Magnitude(frame) ELSE Magnitude(frame)

\* Both values, in tenths.  A DHT11 sends the whole part and the tenths of each.
Measurement(device, frame) ==
    IF device = "DHT11" THEN <<10 * frame[0] + frame[1], 10 * frame[2] + frame[3]>>
    ELSE <<Humidity(frame), Temperature(frame)>>

=============================================================================
