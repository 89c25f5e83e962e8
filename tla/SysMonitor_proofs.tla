-------------------------- MODULE SysMonitor_proofs --------------------------
(***************************************************************************)
(* Proofs about the system monitor: its types, and that the intervals over *)
(* which it measures the idle time follow each other without a gap or an   *)
(* overlap, for every width of the counters.                               *)
(*                                                                         *)
(* The differences that are measured telescope, modulo the width: that of  *)
(* a round goes from the last good reading to this one.                    *)
(***************************************************************************)
EXTENDS SysMonitor, TLAPS

-----------------------------------------------------------------------------
(* Remainders. *)

LEMMA Division ==
    ASSUME NEW x \in Int, NEW m \in Nat \ {0}
    PROVE  x \div m \in Int /\ x % m \in 0 .. m - 1 /\ x = m * (x \div m) + (x % m)
  <1>1. x \div m \in Int
    OBVIOUS
  <1>2. x % m \in 0 .. m - 1
    OBVIOUS
  <1>3. x = m * (x \div m) + (x % m)
    OBVIOUS
  <1> QED
    BY <1>1, <1>2, <1>3

\* A remainder is the only one in its range.
LEMMA RemainderIs ==
    ASSUME NEW m \in Nat \ {0}, NEW q \in Int, NEW r \in 0 .. m - 1
    PROVE  (m * q + r) % m = r
  <1> DEFINE x == m * q + r
             p == x \div m
             s == x % m
  <1>1. x \in Int /\ p \in Int /\ s \in 0 .. m - 1 /\ x = m * p + s
    BY Division
  <1>2. m * (p - q) = r - s
    BY <1>1
  <1>3. ASSUME NEW d \in Int, d >= 1
        PROVE  m * d >= m
    BY <1>3
  <1> HIDE DEF x, p, s
  <1>4. ~(p - q >= 1)
    BY <1>1, <1>2, <1>3
  <1>5. ~(q - p >= 1)
    <2>1. m * (q - p) = s - r
      BY <1>1, <1>2
    <2> QED
      BY <1>1, <1>3, <2>1
  <1>6. p = q
    BY <1>1, <1>4, <1>5
  <1> QED
    BY <1>1, <1>6 DEF x, s

\* A sum may be reduced before it is taken.
LEMMA SumOfRemainders ==
    ASSUME NEW m \in Nat \ {0}, NEW x \in Int, NEW y \in Int
    PROVE  ((x % m) + (y % m)) % m = (x + y) % m
  <1> DEFINE t == (x % m) + (y % m)
             q == (x \div m) + (y \div m) + (t \div m)
  <1>1. t \in Int /\ t \div m \in Int /\ t % m \in 0 .. m - 1 /\ t = m * (t \div m) + (t % m)
    BY Division
  <1>2. q \in Int
    BY <1>1, Division
  <1>3. x + y = m * q + (t % m)
    <2>1. x = m * (x \div m) + (x % m) /\ y = m * (y \div m) + (y % m)
             /\ x \div m \in Int /\ y \div m \in Int /\ x % m \in Int /\ y % m \in Int
      BY Division
    <2>2. m * q = m * (x \div m) + m * (y \div m) + m * (t \div m)
      BY <1>1, <2>1
    <2> QED
      BY <1>1, <2>1, <2>2
  <1> HIDE DEF t, q
  <1>4. (m * q + (t % m)) % m = t % m
    BY <1>1, <1>2, RemainderIs
  <1> QED
    BY <1>3, <1>4 DEF t

-----------------------------------------------------------------------------
(* Idle time. *)

\* The idle jiffies of a reading.
Waited(now) == now["Idle"] + now["IOWait"]

LEMMA IdleTimeIs ==
    ASSUME NEW now \in Counters, NEW past \in Counters
    PROVE  /\ IdleTime(now, past) = (Waited(now) - Waited(past)) % Modulus
           /\ IdleTime(now, past) \in 0 .. Modulus - 1
  <1> DEFINE x == now["Idle"] - past["Idle"]
             y == now["IOWait"] - past["IOWait"]
  <1>1. now["Idle"] \in Int /\ past["Idle"] \in Int /\ now["IOWait"] \in Int /\ past["IOWait"] \in Int
    BY MonitorAssumption DEF Counters, Item
  <1>2. x \in Int /\ y \in Int /\ x + y = Waited(now) - Waited(past)
    BY <1>1 DEF Waited
  <1>3. IdleTime(now, past) = ((x % Modulus) + (y % Modulus)) % Modulus
    BY DEF IdleTime, Plus, Minus
  <1> HIDE DEF x, y
  <1>4. IdleTime(now, past) = (x + y) % Modulus
    BY <1>2, <1>3, MonitorAssumption, SumOfRemainders
  <1> QED
    BY <1>2, <1>4, MonitorAssumption, Division

\* What is measured between three readings is what is measured between the ends.
LEMMA Telescopes ==
    ASSUME NEW now \in Counters, NEW past \in Counters, NEW first \in Counters
    PROVE  Plus(IdleTime(past, first), IdleTime(now, past)) = IdleTime(now, first)
  <1>1. Waited(now) \in Int /\ Waited(past) \in Int /\ Waited(first) \in Int
    BY MonitorAssumption DEF Counters, Item, Waited
  <1>2. (Waited(past) - Waited(first)) + (Waited(now) - Waited(past)) = Waited(now) - Waited(first)
    BY <1>1
  <1> DEFINE x == Waited(past) - Waited(first)
             y == Waited(now) - Waited(past)
  <1>3. x \in Int /\ y \in Int /\ x + y = Waited(now) - Waited(first)
    BY <1>1, <1>2
  <1>4. Plus(IdleTime(past, first), IdleTime(now, past)) = ((x % Modulus) + (y % Modulus)) % Modulus
    BY IdleTimeIs DEF Plus
  <1> HIDE DEF x, y
  <1>5. ((x % Modulus) + (y % Modulus)) % Modulus = (x + y) % Modulus
    BY <1>3, MonitorAssumption, SumOfRemainders
  <1>6. IdleTime(now, first) = (x + y) % Modulus
    BY <1>3, IdleTimeIs
  <1> QED
    BY <1>4, <1>5, <1>6

LEMMA NothingYet ==
    ASSUME NEW now \in Counters
    PROVE  IdleTime(now, now) = 0
  <1>1. Waited(now) - Waited(now) = 0
    BY MonitorAssumption DEF Counters, Item, Waited
  <1> QED
    BY <1>1, IdleTimeIs, MonitorAssumption

-----------------------------------------------------------------------------
(* The invariant. *)

\* Before the first reading nothing has been measured.
StartInv == pc = "start" => measured = 0

IInv == MonitorTypeOK /\ StartInv /\ IdleIsMeasuredOnce

LEMMA ZeroIsCounters == Zero \in Counters
  BY MonitorAssumption DEF Zero, Counters

LEMMA InitInv == Init => IInv
  <1> SUFFICES ASSUME Init PROVE IInv
    OBVIOUS
  <1>1. stat \in Counters /\ mData \in Counters /\ mPastData \in Counters /\ since \in Counters
    BY ZeroIsCounters, MonitorAssumption DEF Init, Counters
  <1> QED
    BY <1>1, NothingYet, ZeroIsCounters, MonitorAssumption
    DEF Init, IInv, MonitorTypeOK, StartInv, IdleIsMeasuredOnce, Alive, Nothing

LEMMA MeasureInv ==
    ASSUME IInv, Measure
    PROVE  IInv'
  <1>1. mData' \in Counters /\ mPastData' = mData' /\ mPastData \in Counters /\ since \in Counters
    BY DEF Measure, IInv, MonitorTypeOK, Readings
  <1>2. PICK t \in Temperatures :
          data' = [temperature |-> t,
                   cpuUse |-> CpuUse(UsedTime(mData', mPastData), IdleTime(mData', mPastData))]
    BY DEF Measure
  <1>3. measured' = Plus(measured, IdleTime(mData', mPastData))
    BY <1>2 DEF Measure
  <1>4. measured' = IdleTime(mPastData', since')
    BY <1>1, <1>3, Telescopes DEF Measure, IInv, IdleIsMeasuredOnce
  <1>5. data'.temperature \subseteq {"read", "uninitialised"} /\ data'.cpuUse \in 0 .. 100
    <2>1. UsedTime(mData', mPastData) = 0 /\ IdleTime(mData', mPastData) \in 0 .. Modulus - 1
      BY <1>1, IdleTimeIs, MonitorAssumption DEF UsedTime
    <2>2. \A n \in 0 .. Modulus - 1 : CpuUse(0, n) = 0
      BY MonitorAssumption DEF CpuUse, Plus
    <2> QED
      BY <1>2, <2>1, <2>2 DEF Temperatures
  <1>6. measured' \in 0 .. Modulus - 1
    BY <1>1, <1>4, IdleTimeIs, MonitorAssumption DEF Measure
  <1> QED
    BY <1>1, <1>4, <1>5, <1>6 DEF Measure, IInv, MonitorTypeOK, StartInv, IdleIsMeasuredOnce, Alive

LEMMA BeginInv ==
    ASSUME IInv, Begin
    PROVE  IInv'
  <1>1. CASE database
    <2>1. mData' \in Counters /\ mPastData' = mData' /\ since' = mData'
      BY <1>1 DEF Begin, IInv, MonitorTypeOK, Readings
    <2>2. measured' = 0
      BY DEF Begin, IInv, StartInv
    <2> QED
      BY <1>1, <2>1, <2>2, NothingYet DEF Begin, IInv, MonitorTypeOK, StartInv, IdleIsMeasuredOnce, Alive
  <1>2. CASE ~database
    BY <1>2 DEF Begin, Return, IInv, MonitorTypeOK, StartInv, IdleIsMeasuredOnce, Alive
  <1> QED
    BY <1>1, <1>2

LEMMA JiffyInv ==
    ASSUME IInv, Jiffy
    PROVE  IInv'
  <1>1. stat' \in Counters
    <2>1. PICK i \in Counting : stat' = [stat EXCEPT ![i] = (@ + 1) % Modulus]
      BY DEF Jiffy
    <2>2. stat \in [Item -> 0 .. Modulus - 1] /\ i \in Item
      BY <2>1, MonitorAssumption DEF IInv, MonitorTypeOK, Counters
    <2>3. (stat[i] + 1) % Modulus \in 0 .. Modulus - 1
      BY <2>2, MonitorAssumption
    <2> QED
      BY <2>1, <2>2, <2>3 DEF Counters
  <1> QED
    BY <1>1 DEF Jiffy, IInv, MonitorTypeOK, StartInv, IdleIsMeasuredOnce, Alive

LEMMA StepInv ==
    ASSUME IInv, [Next]_vars
    PROVE  IInv'
  <1>1. CASE Stop \/ PushFails
    BY <1>1 DEF Stop, PushFails, Return, IInv, MonitorTypeOK, StartInv, IdleIsMeasuredOnce, Alive
  <1>4. CASE Pushed \/ Wake
    BY <1>4 DEF Pushed, Wake, IInv, MonitorTypeOK, StartInv, IdleIsMeasuredOnce, Alive
  <1>5. CASE Signal
    BY <1>5 DEF Signal, IInv, MonitorTypeOK, StartInv, IdleIsMeasuredOnce, Alive
  <1>2. CASE Reborn
    BY <1>2, ZeroIsCounters, NothingYet, MonitorAssumption
    DEF Reborn, IInv, MonitorTypeOK, StartInv, IdleIsMeasuredOnce, Alive, Nothing
  <1>3. CASE UNCHANGED vars
    BY <1>3 DEF vars, IInv, MonitorTypeOK, StartInv, IdleIsMeasuredOnce, Alive
  <1> QED
    BY <1>1, <1>2, <1>3, <1>4, <1>5, BeginInv, MeasureInv, JiffyInv DEF Next, Program, Restart, Start

LEMMA Invariance == Spec => []IInv
  BY InitInv, StepInv, PTL DEF Spec

\* The types, for every width of the counters and every set of items that count.
THEOREM MonitorIsTyped == Spec => []MonitorTypeOK
  <1>1. IInv => MonitorTypeOK
    BY DEF IInv
  <1> QED
    BY <1>1, Invariance, PTL

\* Over failed readings, signals, restarts and counters that wrap, the idle times a
\* process has measured add up to what the counters advanced by since it began.
THEOREM IdleTimeIsMeasuredOnce == Spec => []IdleIsMeasuredOnce
  <1>1. IInv => IdleIsMeasuredOnce
    BY DEF IInv
  <1> QED
    BY <1>1, Invariance, PTL

=============================================================================
