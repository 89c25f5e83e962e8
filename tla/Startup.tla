------------------------------ MODULE Startup ------------------------------
(***************************************************************************)
(* The options of both daemons (main of aprs_wx.cpp and sys_monitor.cpp):  *)
(* how the lines of config.txt set them, what is checked before the first  *)
(* session, and where a program finds out later that one has no value.     *)
(* ConfigFile::process calls main for each line that names an option, in   *)
(* the order of the file; a line may come twice or not at all.             *)
(*                                                                         *)
(* An optional is a place in the domain of option: it has a value or is    *)
(* not in the domain.                                                      *)
(***************************************************************************)
EXTENDS Integers

CONSTANTS
    Numbers,    \* the numbers that may be written for a port
    Modulus     \* one more than the largest unsigned: 2^32

ASSUME StartupAssumption ==
    /\ Numbers \subseteq Int
    /\ Modulus \in Nat \ {0}

VARIABLES
    program,
    pc,         \* where its main is
    run,        \* the flag that signals clear
    option,     \* the options that have a value, and the value
    validFile,
    served,     \* has this process read a packet, or pushed a measurement?
    end         \* why main returned

vars == <<program, pc, run, option, validFile, served, end>>

Programs == {"aprs_wx", "sys_monitor"}

ConfigSpec(p) ==
    {"influxTLS", "influxHost", "influxPort", "influxDb"}
        \cup IF p = "aprs_wx"
               THEN {"callsign", "passcode", "latitude", "longitude", "radius",
                     "influxRepeats", "cycleRate"}
               ELSE {"cpuZone"}

\* What a line can say of an option, when it can be converted.  A call is a real
\* one or N0CALL, a thermal zone exists or does not.
Written(o) ==
    CASE o \in {"influxTLS", "influxRepeats"} -> BOOLEAN
      [] o = "influxPort"                     -> Numbers
      [] o = "cycleRate"                      -> {0, 100}
      [] o = "callsign"                       -> {"call", "N0CALL"}
      [] o = "cpuZone"                        -> {"zone", "no zone"}
      [] OTHER                                -> {"text"}

\* Mutant: the repeats have no value until a line gives them one.
Defaults_NoRepeats(p) ==
    IF p = "aprs_wx" THEN {"influxTLS", "cycleRate"} ELSE {"influxTLS"}

\* The options that have a value before the file is read.
Defaults(p) ==
    IF p = "aprs_wx" THEN {"influxTLS", "influxRepeats", "cycleRate"} ELSE {"influxTLS"}

Default(o) == IF o = "cycleRate" THEN 100 ELSE FALSE

Has(options) == options \subseteq DOMAIN option

Init ==
    /\ program \in Programs
    /\ pc = "file"
    /\ run = TRUE
    /\ option = [o \in Defaults(program) |-> Default(o)]
    /\ validFile = TRUE
    /\ served = FALSE
    /\ end = "not"

Return(why) == pc' = "returned" /\ end' = why /\ UNCHANGED <<run, option, validFile, served>>

GoTo(place) == pc' = place /\ UNCHANGED <<run, option, validFile, served, end>>

-----------------------------------------------------------------------------
(* The file. *)

\* There is no file, it cannot be opened, or the system has no host name.
NoFile == pc = "file" /\ Return("file")

Open == pc = "file" /\ GoTo("lines")

Assigned(o, v) == [p \in DOMAIN option \cup {o} |-> IF p = o THEN v ELSE option[p]]

Cleared(o) == [p \in DOMAIN option \ {o} |-> option[p]]

\* Mutant: the port of aprs_wx is as wide as that of sys_monitor.
Stored_Wide(o, v) == v

\* The port of aprs_wx is an unsigned that is given a long.
Stored(o, v) == IF o = "influxPort" /\ program = "aprs_wx" THEN v % Modulus ELSE v

\* Mutant: a port of 0 is accepted.
Valid_AnyPort(o, v) == o = "influxPort" => v >= 0

Valid(o, v) == o = "influxPort" => v > 0

\* A number that is no port is stored all the same.
Line(o, v) ==
    /\ pc = "lines"
    /\ option' = Assigned(o, Stored(o, v))
    /\ validFile' = (validFile /\ Valid(o, Stored(o, v)))
    /\ UNCHANGED <<pc, run, served, end>>

\* What cannot be converted takes the option its value, but for two of sys_monitor.
BadLine(o) ==
    /\ pc = "lines"
    /\ option' = IF program = "sys_monitor" /\ o \in {"influxTLS", "cpuZone"}
                   THEN option ELSE Cleared(o)
    /\ validFile' = FALSE
    /\ UNCHANGED <<pc, run, served, end>>

Database == {"influxHost", "influxPort", "influxDb"}

\* What value() is called for before the loop.
Station(p) == IF p = "aprs_wx" THEN {"callsign", "latitude", "longitude", "radius"}
                               ELSE Database

Placeholder == Has({"callsign"}) /\ option["callsign"] = "N0CALL"

\* The messages about an invalid file and about the database change nothing.
CheckOptions ==
    /\ pc = "lines"
    /\ CASE Placeholder            -> Return("placeholder")
         [] ~Placeholder /\ ~Has(Station(program)) -> Return("no value")
         [] OTHER ->
              /\ pc' = "loop"
              /\ option' = IF Has({"cpuZone"}) /\ option["cpuZone"] = "no zone"
                             THEN Cleared("cpuZone") ELSE option
              /\ UNCHANGED <<run, validFile, served, end>>

-----------------------------------------------------------------------------
(* The loop of aprs_wx: a session reads packets, some of which are pushed. *)

Aprs(place) == program = "aprs_wx" /\ pc = place

BeginSession ==
    /\ Aprs("loop") /\ run
    /\ IF Has({"passcode"}) THEN GoTo("session") ELSE Return("no value")

\* The connection is not opened, or has had its cycle of packets.
EndSession == Aprs("session") /\ GoTo("loop")

NoCycleRate == Aprs("session") /\ ~Has({"cycleRate"}) /\ Return("no value")

ReadPacket ==
    /\ Aprs("session") /\ Has({"cycleRate"}) /\ option["cycleRate"] > 0
    /\ pc' = "packet"
    /\ served' = TRUE
    /\ UNCHANGED <<run, option, validFile, end>>

Push == IF Has({"influxTLS"}) THEN GoTo("push") ELSE Return("no value")

WxPacket == Aprs("packet") /\ IF Has(Database) THEN Push ELSE GoTo("session")

\* aprsc says who it is; the aggregator may be empty.
ServerId ==
    /\ Aprs("packet")
    /\ IF ~Has({"influxRepeats"}) THEN Return("no value")
       ELSE \/ GoTo("session")
            \/ option["influxRepeats"] /\ Has(Database) /\ Push

OtherPacket == Aprs("packet") /\ GoTo("session")

Pushed == Aprs("push") /\ GoTo("session")

\* A read error, a packet that cannot be decoded.
Fails == program = "aprs_wx" /\ pc \in {"session", "packet"} /\ Return("failed")

-----------------------------------------------------------------------------
(* The loop of sys_monitor. *)

Monitor(place) == program = "sys_monitor" /\ pc = place

Measure == Monitor("loop") /\ run /\ GoTo("push")

MeasurePushed ==
    /\ Monitor("push")
    /\ \/ pc' = "loop" /\ served' = TRUE /\ UNCHANGED <<run, option, validFile, end>>
       \/ Return("failed")

-----------------------------------------------------------------------------

Stop == pc = "loop" /\ ~run /\ Return("signal")

\* The handlers are set before the file is read.
Signal ==
    /\ pc # "returned"
    /\ run' = FALSE
    /\ UNCHANGED <<pc, option, validFile, served, end>>

\* systemd or an operator starts the program again, with a file that may be another.
Again ==
    /\ pc = "returned"
    /\ pc' = "file"
    /\ run' = TRUE
    /\ option' = [o \in Defaults(program) |-> Default(o)]
    /\ validFile' = TRUE
    /\ served' = FALSE
    /\ end' = "not"

Configure == \/ NoFile \/ Open \/ CheckOptions
             \/ \E o \in ConfigSpec(program) : BadLine(o) \/ \E v \in Written(o) : Line(o, v)

Session == \/ BeginSession \/ EndSession \/ NoCycleRate \/ ReadPacket
           \/ WxPacket \/ ServerId \/ OtherPacket \/ Pushed \/ Fails

Next == /\ Configure \/ Session \/ Measure \/ MeasurePushed \/ Stop \/ Signal \/ Again
        /\ UNCHANGED program

Spec == Init /\ [][Next]_vars

-----------------------------------------------------------------------------
(* Properties. *)

\* Every option that has a value has one that the file can give it.
StartupTypeOK ==
    /\ program \in Programs
    /\ pc \in {"file", "lines", "loop", "session", "packet", "push", "returned"}
    /\ run \in BOOLEAN
    /\ DOMAIN option \subseteq ConfigSpec(program)
    /\ \A o \in DOMAIN option \ {"influxPort"} : option[o] \in Written(o)
    /\ Has({"influxPort"}) =>
         option["influxPort"] \in IF program = "aprs_wx" THEN 0 .. Modulus - 1 ELSE Int
    /\ validFile \in BOOLEAN
    /\ served \in BOOLEAN
    /\ end \in {"not", "file", "placeholder", "no value", "failed", "signal"}

\* A file that is valid and names every option without a default never ends the
\* program for want of a value; a valid file that does not ends it before the first
\* packet is read.  (The program goes on with an invalid file, and then value() may
\* throw much later: at the first packet, push or server identification.)
MissingOptionsAreNoticedEarly ==
    end = "no value" /\ validFile =>
        /\ ~served
        /\ ~Has(Station(program) \cup IF program = "aprs_wx" THEN {"passcode"} ELSE {})

\* A push has a host, a database, a scheme and a port, which is positive unless the
\* file was found invalid; a session has a place, and a call that is not the
\* placeholder of the packaged file.
PushesHaveADestination ==
    /\ pc = "push" => /\ Has(Database \cup {"influxTLS"})
                      /\ validFile => option["influxPort"] > 0
    /\ pc \in {"session", "packet", "push"} => Has(Station(program)) /\ ~Placeholder

=============================================================================
