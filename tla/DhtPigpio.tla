----------------------------- MODULE DhtPigpio -----------------------------
(***************************************************************************)
(* The second reader of the sensor (dhtxx_pigpio.c).  A thread of pigpio   *)
(* calls callback for each falling edge of the pin, some time after it     *)
(* happened; main asks for a frame, waits, and looks at what the callback  *)
(* has left in bitCount and data.  Nothing synchronises the two.           *)
(*                                                                         *)
(* An edge is the bit its distance from the one before stands for.         *)
(***************************************************************************)
EXTENDS DhtFrame, Sequences

CONSTANTS
    Measured,   \* the payloads the sensor may send
    MaxNoise,   \* the edges nobody sent, in a run of the program
    MaxLost     \* the edges that are lost, in a run of the program

ASSUME PigpioAssumption ==
    /\ Measured \subseteq Payloads
    /\ MaxNoise \in Nat
    /\ MaxLost \in Nat

VARIABLES
    pc,         \* where main is
    device,
    loopFlag,
    tries,
    bitCount,
    data,
    edges,      \* the edges whose callback has not begun
    cb,         \* the callback under way: what it has counted and its edge
    trouble,    \* what went wrong in this attempt before main looked at it
    sent,       \* the frame the sensor sent, or None
    noise,      \* the edges nobody sent so far
    lost,       \* the edges that were lost so far
    raced,      \* did a callback run beside the set-up of this attempt?
    printed     \* what this attempt printed, or None

vars == <<pc, device, loopFlag, tries, bitCount, data, edges, cb, trouble, sent, noise, lost, raced, printed>>
world == <<edges, sent, noise, lost, raced>>

None == <<>>
Idle == <<>>

\* Three edges come before the first bit: the start signal and two of the answer.
\* All are far from the one before.
Lead == <<1, 1, 1>>

\* Edges that do not come, edges nobody sent, and callbacks that main does not wait for.
Troubles == {"missing", "added", "late"}

Init ==
    /\ pc = "reset"
    /\ device \in {"DHT11", "DHT22"}
    /\ loopFlag \in BOOLEAN
    /\ tries = 3
    /\ bitCount = 0
    /\ data = [i \in 0 .. 4 |-> 0]
    /\ edges = <<>> /\ cb = Idle
    /\ trouble = {} /\ sent = None /\ noise = 0 /\ lost = 0 /\ raced = FALSE
    /\ printed = None

Quiet == edges = <<>> /\ cb = Idle

-----------------------------------------------------------------------------
(* main. *)

\* Mutant: the start signal is taken for no edge.
ResetCount_TwoEdges ==
    /\ pc = "reset"
    /\ bitCount' = -2
    /\ pc' = "zero"
    /\ printed' = None /\ sent' = None
    /\ trouble' = {}
    /\ raced' = ~Quiet
    /\ UNCHANGED <<loopFlag, tries, data, edges, cb, noise, lost>>

\* An attempt begins.
ResetCount ==
    /\ pc = "reset"
    /\ bitCount' = -3
    /\ pc' = "zero"
    /\ printed' = None /\ sent' = None
    /\ trouble' = {}
    /\ raced' = ~Quiet
    /\ UNCHANGED <<loopFlag, tries, data, edges, cb, noise, lost>>

ZeroData ==
    /\ pc = "zero"
    /\ data' = [i \in 0 .. 4 |-> 0]
    /\ raced' = (raced \/ ~Quiet)
    /\ pc' = "signal"
    /\ UNCHANGED <<loopFlag, tries, bitCount, cb, edges, trouble, sent, noise, lost, printed>>

FrameEdges(frame) == [k \in 1 .. FrameBits |-> BitOf(frame, k - 1)]

\* The edges of an attempt: the start signal, and the answer of the sensor.
EdgesOf(frame) == Lead \o FrameEdges(frame)

SendSignal ==
    /\ pc = "signal"
    /\ \E payload \in Measured :
         /\ sent' = Frame(payload)
         /\ edges' = edges \o EdgesOf(sent')
    /\ pc' = "wait"
    /\ UNCHANGED <<loopFlag, tries, bitCount, data, cb, trouble, noise, lost, raced, printed>>

\* Mutant: more bits than there are in a frame will do.
RightCount_AtLeast(count) == count >= FrameBits

RightCount(count) == count = FrameBits

\* Mutant: a failed attempt is not counted.
DataInvalid_NotCounted == pc' = "sleep" /\ UNCHANGED <<tries, printed>>

DataInvalid ==
    /\ pc' = "sleep"
    /\ tries' = IF loopFlag THEN tries ELSE tries - 1   \* it does not matter in a loop
    /\ UNCHANGED printed

\* The 50 ms are over, whether or not the callbacks are.
CheckCount ==
    /\ pc = "wait"
    /\ trouble' = IF Quiet THEN trouble ELSE trouble \cup {"late"}
    /\ IF RightCount(bitCount) THEN pc' = "sum" /\ UNCHANGED <<tries, printed>> ELSE DataInvalid
    /\ UNCHANGED <<loopFlag, bitCount, data, cb, world>>

CheckSum ==
    /\ pc = "sum"
    /\ IF data[4] = Checksum(data) THEN pc' = "print" /\ UNCHANGED <<tries, printed>> ELSE DataInvalid
    /\ UNCHANGED <<loopFlag, bitCount, data, cb, trouble, world>>

\* humidity and tempC, in tenths.
Values(bytes) ==
    LET c == (bytes[2] % TwoTo[Bits - 1]) * TwoTo[Bits] + bytes[3]
    IN  IF device = "DHT11"
          THEN <<10 * bytes[0] + bytes[1], 10 * bytes[2] + bytes[3]>>
          ELSE <<bytes[0] * TwoTo[Bits] + bytes[1],
                 IF (bytes[2] \div TwoTo[Bits - 1]) % 2 = 1 THEN -c ELSE c>>

PrintValues ==
    /\ pc = "print"
    /\ printed' = Values(data)
    /\ tries' = 0
    /\ pc' = "sleep"
    /\ UNCHANGED <<loopFlag, bitCount, data, cb, trouble, world>>

\* No callback is late by the two seconds between attempts.
NextAttempt ==
    /\ pc = "sleep"
    /\ Quiet
    /\ pc' = IF loopFlag \/ tries # 0 THEN "reset" ELSE "done"
    /\ UNCHANGED <<loopFlag, tries, bitCount, data, cb, trouble, world, printed>>

Main == \/ ResetCount \/ ZeroData \/ SendSignal
        \/ CheckCount \/ CheckSum \/ PrintValues \/ NextAttempt

-----------------------------------------------------------------------------
(* callback. *)

\* ++bitCount is a load and a store.
LoadCount ==
    /\ edges # <<>> /\ cb = Idle
    /\ cb' = [step |-> "store", count |-> bitCount + 1, bit |-> Head(edges)]
    /\ edges' = Tail(edges)
    /\ UNCHANGED <<pc, loopFlag, tries, bitCount, data, trouble, sent, noise, lost, raced, printed>>

\* Mutant: >= for >.
IsData_FromZero(count) == count >= 0

IsData(count) == count > 0

StoreCount ==
    /\ cb # Idle /\ cb.step = "store"
    /\ bitCount' = cb.count
    /\ cb' = IF IsData(cb.count) THEN [cb EXCEPT !.step = "shift"] ELSE Idle
    /\ UNCHANGED <<pc, loopFlag, tries, data, trouble, world, printed>>

\* (count - 1) / 8, which is 0 for the counts below 1 that are met.
Index(count) == IF count < 1 THEN 0 ELSE (count - 1) \div Bits

\* The compiler may keep the count or read it again.  Behind data lie the two other
\* global variables, bitCount one of them, and then nothing that matters.
ShiftData ==
    /\ cb # Idle /\ cb.step = "shift"
    /\ cb' = Idle
    /\ \E count \in {cb.count, bitCount} :
         \/ /\ Index(count) \in DOMAIN data
            /\ data' = [data EXCEPT ![Index(count)] = ShiftIn(@, cb.bit)]
            /\ UNCHANGED bitCount
         \/ /\ Index(count) \in {5, 6}
            /\ bitCount' = ShiftIn(bitCount, cb.bit)
            /\ UNCHANGED data
         \/ Index(count) \notin DOMAIN data /\ UNCHANGED <<bitCount, data>>
    /\ UNCHANGED <<pc, loopFlag, tries, trouble, world, printed>>

Callback == LoadCount \/ StoreCount \/ ShiftData

-----------------------------------------------------------------------------
(* The wire and the library. *)

\* Once main has looked it is too late to go wrong.
GoesWrong(how) ==
    trouble' = IF pc \in {"zero", "signal", "wait"} THEN trouble \cup {how} ELSE trouble

\* A short pulse on the wire, after the last edge or before the next: the distance
\* it divides is long at most on one side.
Noise ==
    /\ noise < MaxNoise /\ pc # "done"
    /\ noise' = noise + 1
    /\ GoesWrong("added")
    /\ \/ \E bit \in {0, 1} : edges' = Append(edges, bit)
       \/ /\ edges # <<>>
          /\ \E x, y \in {0, 1} : x + y <= Head(edges) /\ edges' = <<x, y>> \o Tail(edges)
    /\ UNCHANGED <<pc, loopFlag, tries, bitCount, data, cb, sent, lost, raced, printed>>

\* The next edge is not seen: the one after it is far from the one before.
Lose ==
    /\ lost < MaxLost /\ edges # <<>>
    /\ lost' = lost + 1
    /\ GoesWrong("missing")
    /\ edges' = IF Len(edges) = 1 THEN <<>> ELSE <<1>> \o Tail(Tail(edges))
    /\ UNCHANGED <<pc, loopFlag, tries, bitCount, data, cb, sent, noise, raced, printed>>

\* No more edges come: the sensor is silent, or stops before the end.
BreakOff ==
    /\ edges # <<>>
    /\ edges' = <<>>
    /\ GoesWrong("missing")
    /\ UNCHANGED <<pc, loopFlag, tries, bitCount, data, cb, sent, noise, lost, raced, printed>>

Wire == Noise \/ Lose \/ BreakOff

Next == (Main \/ Callback \/ Wire) /\ UNCHANGED device

Spec == Init /\ [][Next]_vars

\* Both threads run, and a delay comes to an end.
FairSpec == Spec /\ WF_vars(Main /\ UNCHANGED device) /\ WF_vars(Callback /\ UNCHANGED device)

-----------------------------------------------------------------------------
(* Properties. *)

\* Every variable has its type: no byte gets more bits than it has, in an attempt that
\* was set up with no callback beside it.
PigpioTypeOK ==
    /\ pc \in {"reset", "zero", "signal", "wait", "sum", "print", "sleep", "done"}
    /\ device \in {"DHT11", "DHT22"}
    /\ loopFlag \in BOOLEAN
    /\ tries \in 0 .. 3
    /\ bitCount \in Int
    /\ data \in [0 .. 4 -> IF raced \/ pc = "zero" THEN Nat ELSE Byte]
    /\ raced \in BOOLEAN
    /\ edges \in Seq({0, 1})
    /\ cb = Idle \/ cb \in [step : {"store", "shift"}, count : Int, bit : {0, 1}]
    /\ trouble \subseteq Troubles
    /\ sent = None \/ sent \in {Frame(payload) : payload \in Measured}
    /\ noise \in 0 .. MaxNoise
    /\ lost \in 0 .. MaxLost
    /\ printed = None \/ printed \in Int \X Int

\* Edges are added, and others are missing or come late: then forty can be counted
\* that are not the bits of the frame.
Mixed == "added" \in trouble /\ trouble # {"added"}

\* "if we received 40 data bits and the checksum is valid": what is printed is the
\* humidity and the temperature that the sensor sent in this attempt, whatever an
\* attempt before has left, if edges are missing or late, or are added.  It is not
\* so when both happens to one frame, where the sum is all that is between it and
\* the output, nor when a callback runs beside the two assignments that set up the
\* attempt.
PrintsWhatWasSent ==
    printed # None /\ ~raced /\ ~Mixed => printed = Measurement(device, sent)

\* An attempt in which nothing goes wrong prints, even if edges that nobody sent come
\* while main looks at the bits.
CleanReadingIsPrinted ==
    pc = "sleep" /\ trouble = {} /\ ~raced => printed # None

\* Unless it was told to loop the program ends, after three attempts at most.
Ends == ~loopFlag => <>(pc = "done")

=============================================================================
