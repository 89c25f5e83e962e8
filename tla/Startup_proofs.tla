--------------------------- MODULE Startup_proofs ---------------------------
(***************************************************************************)
(* Proofs about the options.  No option loses its value without making the *)
(* file invalid, and after the file has been read none changes but the     *)
(* thermal zone: whatever a session or a push needs of a valid file, it    *)
(* has, or the program has ended at the first line of its loop.            *)
(***************************************************************************)
EXTENDS Startup, TLAPS

Running == pc \in {"loop", "session", "packet", "push"}

\* Where main can be, and what it has done by then.
PlaceInv ==
    /\ pc # "returned" => end = "not"
    /\ pc \in {"file", "lines"} => ~served
    /\ pc \in {"session", "packet"} => program = "aprs_wx"

\* What the lines establish.
FileInv ==
    /\ program = "sys_monitor" => "influxTLS" \in DOMAIN option
    /\ validFile => /\ Defaults(program) \subseteq DOMAIN option
                    /\ Has({"influxPort"}) => option["influxPort"] > 0

\* What the checks, and the beginning of a session, establish.
CheckedInv ==
    /\ Running => Has(Station(program)) /\ ~Placeholder
    /\ pc \in {"session", "packet"} => "passcode" \in DOMAIN option
    /\ pc = "push" => /\ Has(Database \cup {"influxTLS"})
                      /\ program = "aprs_wx" => "passcode" \in DOMAIN option
    /\ served /\ program = "aprs_wx" => "passcode" \in DOMAIN option

IInv == StartupTypeOK /\ PlaceInv /\ FileInv /\ CheckedInv /\ MissingOptionsAreNoticedEarly

LEMMA InitInv == Init => IInv
  BY DEF Init, IInv, StartupTypeOK, PlaceInv, FileInv, CheckedInv, Running, Programs, ConfigSpec,
         Written, Defaults, Default, Has, MissingOptionsAreNoticedEarly, Placeholder

\* A line keeps the types.
LEMMA StoredType ==
    ASSUME StartupTypeOK, NEW o \in ConfigSpec(program), NEW v \in Written(o)
    PROVE  /\ o # "influxPort" => Stored(o, v) \in Written(o)
           /\ o = "influxPort" =>
                Stored(o, v) \in IF program = "aprs_wx" THEN 0 .. Modulus - 1 ELSE Int
  <1>1. CASE o = "influxPort"
    <2>1. v \in Int
      BY <1>1, StartupAssumption DEF Written
    <2>2. v % Modulus \in 0 .. Modulus - 1
      BY <2>1, StartupAssumption
    <2> QED
      BY <1>1, <2>1, <2>2 DEF Stored
  <1>2. CASE o # "influxPort"
    BY <1>2 DEF Stored
  <1> QED
    BY <1>1, <1>2

LEMMA LineInv ==
    ASSUME IInv, NEW o \in ConfigSpec(program), NEW v \in Written(o), Line(o, v), UNCHANGED program
    PROVE  IInv'
  <1> DEFINE stored == Stored(o, v)
  <1>1. /\ DOMAIN option' = DOMAIN option \cup {o}
        /\ option'[o] = stored
        /\ \A p \in DOMAIN option : p # o => option'[p] = option[p]
    BY DEF Line, Assigned
  <1>2. /\ o # "influxPort" => stored \in Written(o)
        /\ o = "influxPort" =>
             stored \in IF program = "aprs_wx" THEN 0 .. Modulus - 1 ELSE Int
    BY StoredType DEF IInv
  <1> HIDE DEF stored
  <1>3. StartupTypeOK'
    <2>1. DOMAIN option' \subseteq ConfigSpec(program)'
      BY <1>1 DEF Line, IInv, StartupTypeOK
    <2>2. \A p \in DOMAIN option' \ {"influxPort"} : option'[p] \in Written(p)'
      BY <1>1, <1>2 DEF IInv, StartupTypeOK, Written
    <2>3. Has({"influxPort"})' => option'["influxPort"] \in
            IF program' = "aprs_wx" THEN 0 .. Modulus - 1 ELSE Int
      BY <1>1, <1>2 DEF IInv, StartupTypeOK, Has
    <2> QED
      BY <2>1, <2>2, <2>3 DEF IInv, StartupTypeOK, Line
  <1>4. PlaceInv'
    BY DEF Line, IInv, PlaceInv
  <1>5. FileInv'
    <2>1. validFile' => validFile /\ Valid(o, stored)
      BY DEF Line, stored
    <2>2. Defaults(program)' = Defaults(program)
      BY DEF Defaults
    <2> QED
      BY <1>1, <2>1, <2>2 DEF IInv, FileInv, Valid, Has
  <1>6. CheckedInv' /\ MissingOptionsAreNoticedEarly'
    BY DEF Line, IInv, CheckedInv, PlaceInv, Running, MissingOptionsAreNoticedEarly
  <1> QED
    BY <1>3, <1>4, <1>5, <1>6 DEF IInv

LEMMA BadLineInv ==
    ASSUME IInv, NEW o \in ConfigSpec(program), BadLine(o), UNCHANGED program
    PROVE  IInv'
  <1>1. /\ DOMAIN option' \subseteq DOMAIN option
        /\ \A p \in DOMAIN option' : option'[p] = option[p]
        /\ program = "sys_monitor" => ("influxTLS" \in DOMAIN option' <=> "influxTLS" \in DOMAIN option)
    BY DEF BadLine, Cleared
  <1>2. StartupTypeOK'
    <2>1. DOMAIN option' \subseteq ConfigSpec(program)'
      BY <1>1 DEF IInv, StartupTypeOK
    <2>2. \A p \in DOMAIN option' \ {"influxPort"} : option'[p] \in Written(p)'
      BY <1>1 DEF IInv, StartupTypeOK, Written
    <2> QED
      BY <1>1, <2>1, <2>2 DEF IInv, StartupTypeOK, BadLine, Has
  <1>3. PlaceInv' /\ CheckedInv' /\ MissingOptionsAreNoticedEarly'
    BY DEF BadLine, IInv, PlaceInv, CheckedInv, Running, MissingOptionsAreNoticedEarly
  <1>4. FileInv'
    BY <1>1 DEF BadLine, IInv, FileInv
  <1> QED
    BY <1>2, <1>3, <1>4 DEF IInv

\* A step that leaves the options alone has only its place to answer for.
LEMMA SameOptions ==
    ASSUME IInv, UNCHANGED <<program, option, validFile>>,
           run' \in BOOLEAN, served' \in BOOLEAN,
           pc' \in {"file", "lines", "loop", "session", "packet", "push", "returned"},
           end' \in {"not", "file", "placeholder", "no value", "failed", "signal"},
           PlaceInv', CheckedInv', MissingOptionsAreNoticedEarly'
    PROVE  IInv'
  BY DEF IInv, StartupTypeOK, FileInv, ConfigSpec, Written, Has, Defaults

LEMMA CheckInv ==
    ASSUME IInv, CheckOptions, UNCHANGED program
    PROVE  IInv'
  <1>1. CASE pc' = "returned"
    <2>1. UNCHANGED <<run, option, validFile, served>> /\ pc = "lines" /\ ~served
      BY <1>1 DEF CheckOptions, Return, IInv, PlaceInv
    <2>2. end' \in {"placeholder", "no value"}
             /\ (end' = "no value" => ~Has(Station(program)))
      BY <1>1 DEF CheckOptions, Return
    <2>3. MissingOptionsAreNoticedEarly'
      BY <2>1, <2>2 DEF MissingOptionsAreNoticedEarly, Has, Station
    <2> QED
      BY <1>1, <2>1, <2>2, <2>3, SameOptions
      DEF IInv, StartupTypeOK, PlaceInv, CheckedInv, Running
  <1>2. CASE pc' # "returned"
    <2>1. /\ pc = "lines" /\ pc' = "loop" /\ ~Placeholder /\ Has(Station(program))
          /\ UNCHANGED <<run, validFile, served, end>> /\ ~served /\ end = "not"
      BY <1>2 DEF CheckOptions, Return, IInv, PlaceInv
    <2>2. /\ DOMAIN option' \subseteq DOMAIN option
          /\ DOMAIN option \subseteq DOMAIN option' \cup {"cpuZone"}
          /\ \A p \in DOMAIN option' : option'[p] = option[p]
      BY <1>2 DEF CheckOptions, Return, Cleared
    <2>3. StartupTypeOK'
      <3>1. DOMAIN option' \subseteq ConfigSpec(program)'
        BY <2>2 DEF IInv, StartupTypeOK
      <3>2. \A p \in DOMAIN option' \ {"influxPort"} : option'[p] \in Written(p)'
        BY <2>2 DEF IInv, StartupTypeOK, Written
      <3> QED
        BY <2>1, <2>2, <3>1, <3>2 DEF IInv, StartupTypeOK, Has
    <2>4. FileInv'
      BY <2>1, <2>2 DEF IInv, FileInv, Defaults, Has
    <2>5. CheckedInv'
      BY <2>1, <2>2 DEF CheckedInv, Running, Has, Station, Database, Placeholder
    <2> QED
      BY <2>1, <2>3, <2>4, <2>5 DEF IInv, PlaceInv, MissingOptionsAreNoticedEarly
  <1> QED
    BY <1>1, <1>2

LEMMA StepInv ==
    ASSUME IInv, [Next]_vars
    PROVE  IInv'
  <1> USE DEF IInv
  <1>1. CASE UNCHANGED vars
    <2>1. UNCHANGED <<program, pc, run, option, validFile, served, end>>
      BY <1>1 DEF vars
    <2>2. PlaceInv' /\ MissingOptionsAreNoticedEarly'
      BY <2>1 DEF PlaceInv, MissingOptionsAreNoticedEarly, Has, Station
    <2>3. CheckedInv'
      BY <2>1 DEF CheckedInv, Running, Has, Station, Placeholder, Database
    <2> QED
      BY <2>1, <2>2, <2>3, SameOptions DEF StartupTypeOK
  <1>2. CASE Configure /\ UNCHANGED program
    <2>1. CASE NoFile \/ Open
      <3>1. /\ pc = "file" /\ pc' \in {"lines", "returned"}
            /\ end' \in {"not", "file"} /\ (pc' # "returned" => end' = "not")
            /\ UNCHANGED <<run, option, validFile, served>>
        BY <2>1 DEF NoFile, Open, Return, GoTo, PlaceInv
      <3>2. PlaceInv' /\ CheckedInv' /\ MissingOptionsAreNoticedEarly'
        BY <1>2, <3>1 DEF PlaceInv, CheckedInv, Running, MissingOptionsAreNoticedEarly
      <3> QED
        BY <1>2, <3>1, <3>2, SameOptions DEF StartupTypeOK
    <2> QED
      BY <1>2, <2>1, CheckInv, LineInv, BadLineInv DEF Configure
  <1>3. CASE Session /\ UNCHANGED program
    <2>1. /\ program = "aprs_wx" /\ Running
          /\ UNCHANGED <<run, option, validFile>> /\ served' \in BOOLEAN
          /\ pc' \in {"loop", "session", "packet", "push", "returned"}
          /\ end' \in {"not", "no value", "failed"} /\ (pc' # "returned" => end' = "not")
      BY <1>3 DEF Session, BeginSession, EndSession, NoCycleRate, ReadPacket, WxPacket, ServerId,
                  OtherPacket, Pushed, Fails, Aprs, Push, Return, GoTo, StartupTypeOK, PlaceInv, Running
    <2>2. CheckedInv'
      <3>1. Has(Station(program))' /\ ~Placeholder'
        BY <1>3, <2>1 DEF CheckedInv, Has, Placeholder, Station
      <3>2. pc' \in {"session", "packet", "push"} \/ served' => "passcode" \in DOMAIN option'
        BY <1>3, <2>1 DEF Session, BeginSession, EndSession, NoCycleRate, ReadPacket, WxPacket,
              ServerId, OtherPacket, Pushed, Fails, Aprs, Push, Return, GoTo, CheckedInv, Has
      <3>3. pc' = "push" => Has(Database \cup {"influxTLS"})'
        BY <1>3, <2>1 DEF Session, BeginSession, EndSession, NoCycleRate, ReadPacket, WxPacket,
              ServerId, OtherPacket, Pushed, Fails, Aprs, Push, Return, GoTo, Has, Database
      <3> QED
        BY <3>1, <3>2, <3>3, <2>1 DEF CheckedInv
    <2>3. MissingOptionsAreNoticedEarly'
      <3>1. CASE BeginSession
        BY <1>3, <2>1, <3>1 DEF BeginSession, Aprs, GoTo, Return, CheckedInv, PlaceInv, Has,
              MissingOptionsAreNoticedEarly
      <3>2. CASE ~BeginSession
        <4>1. end' = "no value" => ~(Defaults("aprs_wx") \subseteq DOMAIN option)
          BY <1>3, <2>1, <3>2 DEF Session, EndSession, NoCycleRate, ReadPacket, WxPacket, ServerId,
                OtherPacket, Pushed, Fails, Aprs, Push, Return, GoTo, Has, Defaults, PlaceInv, Running
        <4> QED
          BY <2>1, <4>1 DEF FileInv, MissingOptionsAreNoticedEarly
      <3> QED
        BY <3>1, <3>2
    <2> QED
      BY <1>3, <2>1, <2>2, <2>3, SameOptions DEF StartupTypeOK, PlaceInv, Running
  <1>4. CASE (Measure \/ MeasurePushed) /\ UNCHANGED program
    <2>1. /\ program = "sys_monitor" /\ Running
          /\ UNCHANGED <<run, option, validFile>> /\ served' \in BOOLEAN
          /\ pc' \in {"loop", "push", "returned"}
          /\ end' \in {"not", "failed"} /\ (pc' # "returned" => end' = "not")
      BY <1>4 DEF Measure, MeasurePushed, Monitor, Return, GoTo, StartupTypeOK, PlaceInv, Running
    <2>2. CheckedInv'
      BY <1>4, <2>1 DEF CheckedInv, FileInv, Has, Placeholder, Station, Database
    <2> QED
      BY <1>4, <2>1, <2>2, SameOptions DEF StartupTypeOK, PlaceInv, MissingOptionsAreNoticedEarly
  <1>5. CASE (Stop \/ Signal) /\ UNCHANGED program
    <2>1. UNCHANGED <<option, validFile, served>> /\ run' \in BOOLEAN /\ pc' \in {pc, "returned"}
          /\ end' \in {end, "signal"} /\ (pc' = pc => UNCHANGED end) /\ (pc' # pc => end' = "signal")
          /\ (UNCHANGED end \/ end' = "signal")
      BY <1>5 DEF Stop, Signal, Return, StartupTypeOK
    <2>2. CheckedInv'
      BY <1>5, <2>1 DEF CheckedInv, Running, Has, Placeholder, Station, Database
    <2>3. MissingOptionsAreNoticedEarly'
      BY <1>5, <2>1 DEF MissingOptionsAreNoticedEarly, Has, Station
    <2> QED
      BY <1>5, <2>1, <2>2, <2>3, SameOptions DEF StartupTypeOK, PlaceInv
  <1>6. CASE Again /\ UNCHANGED program
    BY <1>6 DEF Again, StartupTypeOK, PlaceInv, FileInv, CheckedInv, Running, Programs,
       ConfigSpec, Written, Defaults, Default, Has, MissingOptionsAreNoticedEarly, Placeholder
  <1> QED
    BY <1>1, <1>2, <1>3, <1>4, <1>5, <1>6 DEF Next

THEOREM Invariance == Spec => []IInv
  BY InitInv, StepInv, PTL DEF Spec

\* Whatever the file says and however its lines are ordered, options have values of
\* their kind.
THEOREM OptionsAreTyped == Spec => []StartupTypeOK
  <1>1. IInv => StartupTypeOK
    BY DEF IInv
  <1> QED
    BY <1>1, Invariance, PTL

\* With a valid file value() throws before the first packet or never.
THEOREM ValidFilesSuffice == Spec => []MissingOptionsAreNoticedEarly
  <1>1. IInv => MissingOptionsAreNoticedEarly
    BY DEF IInv
  <1> QED
    BY <1>1, Invariance, PTL

\* Pushes and sessions of both programs have what they need.
THEOREM DestinationsAreKnown == Spec => []PushesHaveADestination
  <1>1. IInv => PushesHaveADestination
    BY DEF IInv, FileInv, CheckedInv, Running, PushesHaveADestination, Has, Database
  <1> QED
    BY <1>1, Invariance, PTL

=============================================================================
