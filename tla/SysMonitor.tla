----------------------------- MODULE SysMonitor -----------------------------
(***************************************************************************)
(* The second daemon of the package (sys_monitor.cpp): twice a minute it   *)
(* writes the temperature and the use of the CPU to InfluxDB.              *)
(*                                                                         *)
(* /proc/stat is a counter for each item, in units of jiffies; the program *)
(* keeps its last two readings of it.  A reading of the temperature is its *)
(* kind: the thermal zone was read, or the stream was empty and the        *)
(* variable is printed as it was, not initialised.                         *)
(***************************************************************************)
EXTENDS Integers, Sequences

\* The items of the enumeration, in the order of /proc/stat.
Item == {"User", "Nice", "System", "Idle", "IOWait", "IRQ", "SoftIRQ", "Steal",
         "Guest", "GuestNice"}

IdleItem == {"Idle", "IOWait"}

CONSTANTS
    Counting,   \* the items that advance
    Modulus,    \* one more than the largest counter: 2^64
    Zone        \* is there a thermal zone?

ASSUME MonitorAssumption ==
    /\ Counting \subseteq Item
    /\ Modulus \in Nat \ {0}
    /\ Zone \in BOOLEAN

VARIABLES
    database,   \* does the configuration name the database?
    pc,         \* where main is
    run,        \* the flag that signals clear
    code,       \* the exit code, when main has returned
    stat,       \* the kernel's counters
    mData,      \* the last reading of them
    mPastData,  \* the reading before
    data,       \* the measurements of this round
    since,      \* the counters when the process began
    measured    \* the sum of the idle times getUsage has returned in the loop

vars == <<database, pc, run, code, stat, mData, mPastData, data, since, measured>>

Counters == [Item -> 0 .. Modulus - 1]
Zero     == [i \in Item |-> 0]
Nothing  == [temperature |-> {}, cpuUse |-> 0]

Minus(a, b) == (a - b) % Modulus

\* Mutant: the idle times are added up in a type wider than the counters.
Plus_Wide(a, b) == a + b

Plus(a, b) == (a + b) % Modulus

-----------------------------------------------------------------------------
(* CpuStats. *)

\* What a reading makes of mData: when the file cannot be opened the old
\* counters stand, and the result is true all the same.
Readings == {stat, mData}

IdleTime(now, past) == Plus(Minus(now["Idle"], past["Idle"]),
                            Minus(now["IOWait"], past["IOWait"]))

\* Every item but the idle ones has a case of its own that leaves the switch:
\* the default, which would add to it, is not reached.
UsedTime(now, past) == 0

\* The percentage that is written; the idle time is no more than a part of the
\* denominator.  With what getUsage returns as used it is 0.
CpuUse(used, idle) ==
    IF Plus(used, idle) = 0 THEN 0 ELSE (100 * used) \div Plus(used, idle)

-----------------------------------------------------------------------------
(* main. *)

Init ==
    /\ database \in BOOLEAN
    /\ pc = "start"
    /\ run = TRUE
    /\ code = -1
    /\ stat \in {Zero, [i \in Item |-> Modulus - 1]}
    /\ mData = Zero /\ mPastData = Zero
    /\ data = Nothing
    /\ since = Zero /\ measured = 0

Return(c) == pc' = "exited" /\ code' = c

\* The configuration is read and the counters are read once.  Without a
\* database the message says that data will not be stored, and value() throws:
\* the handler of main prints the exception and returns 0.
Begin ==
    /\ pc = "start"
    /\ IF database
         THEN /\ mData' \in Readings
              /\ mPastData' = mData'
              /\ since' = mData'
              /\ pc' = "loop"
              /\ UNCHANGED code
         ELSE Return(0) /\ UNCHANGED <<mData, mPastData, since>>
    /\ UNCHANGED <<database, run, stat, data, measured>>

Temperatures == IF Zone THEN {{}, {"read"}, {"uninitialised"}} ELSE {{}}

\* Mutant: the reading is not kept for the next round.
Measure_ForgetsPast ==
    /\ pc = "loop"
    /\ run
    /\ mData' \in Readings
    /\ \E t \in Temperatures :
         data' = [temperature |-> t,
                  cpuUse |-> CpuUse(UsedTime(mData', mPastData), IdleTime(mData', mPastData))]
    /\ measured' = Plus(measured, IdleTime(mData', mPastData))
    /\ pc' = "push"
    /\ UNCHANGED <<database, run, code, stat, mPastData, since>>

\* Mutant: the loop does not look at the flag.
Measure_IgnoresRun ==
    /\ pc = "loop"
    /\ mData' \in Readings
    /\ mPastData' = mData'
    /\ data' = Nothing
    /\ measured' = Plus(measured, IdleTime(mData', mPastData))
    /\ pc' = "push"
    /\ UNCHANGED <<database, run, code, stat, since>>

\* The measurements of a round.  They are never empty, since the reading of the
\* counters always succeeds.
Measure ==
    /\ pc = "loop"
    /\ run
    /\ mData' \in Readings
    /\ mPastData' = mData'
    /\ \E t \in Temperatures :
         data' = [temperature |-> t,
                  cpuUse |-> CpuUse(UsedTime(mData', mPastData), IdleTime(mData', mPastData))]
    /\ measured' = Plus(measured, IdleTime(mData', mPastData))
    /\ pc' = "push"
    /\ UNCHANGED <<database, run, code, stat, since>>

\* The flag is clear: main returns 0.
Stop ==
    /\ pc = "loop"
    /\ ~run
    /\ Return(0)
    /\ UNCHANGED <<database, run, stat, mData, mPastData, data, since, measured>>

Pushed ==
    /\ pc = "push"
    /\ pc' = "sleep"
    /\ UNCHANGED <<database, run, code, stat, mData, mPastData, data, since, measured>>

\* Mutant: the failure is reported on the terminal only.
PushFails_Unnoticed ==
    /\ pc = "push"
    /\ Return(0)
    /\ UNCHANGED <<database, run, stat, mData, mPastData, data, since, measured>>

\* The request throws.
PushFails ==
    /\ pc = "push"
    /\ Return(1)
    /\ UNCHANGED <<database, run, stat, mData, mPastData, data, since, measured>>

\* 30 seconds are over, or a signal ends the sleep.
Wake ==
    /\ pc = "sleep"
    /\ pc' = "loop"
    /\ UNCHANGED <<database, run, code, stat, mData, mPastData, data, since, measured>>

-----------------------------------------------------------------------------
(* What surrounds it. *)

Alive == pc # "exited"

\* SIGINT, SIGTERM or SIGHUP.
Signal ==
    /\ Alive
    /\ run
    /\ run' = FALSE
    /\ UNCHANGED <<database, pc, code, stat, mData, mPastData, data, since, measured>>

Reborn ==
    /\ ~Alive
    /\ pc' = "start"
    /\ run' = TRUE
    /\ code' = -1
    /\ mData' = Zero /\ mPastData' = Zero /\ since' = Zero
    /\ data' = Nothing /\ measured' = 0
    /\ UNCHANGED <<database, stat>>

\* systemd starts what has failed again.
Restart == code # 0 /\ Reborn

\* An operator starts it.
Start == code = 0 /\ Reborn

\* A jiffy passes.
Jiffy == \E i \in Counting :
    /\ stat' = [stat EXCEPT ![i] = (@ + 1) % Modulus]
    /\ UNCHANGED <<database, pc, run, code, mData, mPastData, data, since, measured>>

Program == Begin \/ Measure \/ Stop \/ Pushed \/ PushFails \/ Wake

Next == Program \/ Signal \/ Restart \/ Start \/ Jiffy

Spec == Init /\ [][Next]_vars

\* The program goes on, a request comes to an end, a sleep is over after 30
\* seconds, and systemd restarts what has failed.
FairSpec == Spec /\ WF_vars(Program) /\ WF_vars(Restart)

-----------------------------------------------------------------------------
(* Properties. *)

\* Every variable has its type: no difference of counters leaves their range.
MonitorTypeOK ==
    /\ database \in BOOLEAN
    /\ pc \in {"start", "loop", "push", "sleep", "exited"}
    /\ run \in BOOLEAN
    /\ code \in {-1, 0, 1} /\ (code = -1 <=> Alive)
    /\ {stat, mData, mPastData, since} \subseteq Counters
    /\ data.temperature \subseteq {"read", "uninitialised"}
    /\ data.cpuUse \in 0 .. 100
    /\ measured \in 0 .. Modulus - 1

\* The intervals that are measured follow each other without a gap or an overlap:
\* the idle times that getUsage has returned add up to what the counters advanced
\* by since the process began, over readings that failed (getData leaves the old
\* counters) and counters that wrapped.  This is about the measuring alone: a
\* push writes a percentage, not the idle time, and writes nothing when it fails;
\* and the time that was used is in no measurement.
IdleIsMeasuredOnce == measured = IdleTime(mPastData, since)

\* After a signal the program ends.  It returns 0, and systemd leaves it alone,
\* unless the signal came while the measurements were being pushed: if that push
\* fails the program returns 1 without having looked at the flag, and is started
\* again.
SignalStops ==
    /\ ~run ~> ~Alive
    /\ (~run /\ Alive /\ pc # "push") ~> (~Alive /\ code = 0)

\* Without a signal measuring never stops: when the database fails, main returns
\* 1 and systemd starts the program again.
KeepsMeasuring == database => []<>(pc = "push" \/ ~run)

=============================================================================
