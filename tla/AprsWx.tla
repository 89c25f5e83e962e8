------------------------------- MODULE AprsWx -------------------------------
(***************************************************************************)
(* The daemon (main of aprs_wx.cpp) from the point where it is configured: *)
(* the loop over server sessions, the loop over the packets of a session,  *)
(* the signal handler, and systemd, which starts the process again when it *)
(* fails (aprs_wx.service).                                                *)
(*                                                                         *)
(* AprsIS is the connection and WeatherAggregator the map of reports; the  *)
(* daemon calls their operations, one at a time.  Signals, the server, the *)
(* database and the clock act between any two of its steps.                *)
(***************************************************************************)
EXTENDS Integers

CONSTANTS
    Stations, Readings, MaxAge,    \* see WeatherAggregator
    Fds, MaxWait,                  \* see AprsIS
    CycleRate,                     \* serverCycleRate
    InfluxConfigured,              \* influxHost, influxPort and influxDb are set
    InfluxRepeats

\* What decode makes of a line of the feed.
WxLine(s, r) == <<"wx", s, r>>          \* a weather packet
Ignored      == <<"ignored">>           \* a position that cannot be decoded
Undecodable  == <<"undecodable">>       \* a DecodingError, or an exception

Traffic == {WxLine(s, r) : s \in Stations, r \in Readings} \cup {Ignored, Undecodable}

ASSUME AprsWxAssumption ==
    /\ Fds \subseteq Nat
    /\ MaxWait \in Nat \ {0}
    /\ MaxAge \in Nat
    /\ CycleRate \in Nat
    /\ InfluxConfigured \in BOOLEAN
    /\ InfluxRepeats \in BOOLEAN

VARIABLES
    pc,             \* where main is
    run,            \* the flag the signal handler clears
    packetCount,
    \* the connection
    at, sock_fd, fds, mGoodServer, mWaitTime, mPacket, link, version, next, torn,
    mid, cut,
    \* the aggregator and the database
    reports, mValueAggregate, mHannAggregate, request, influx

Net == INSTANCE AprsIS
Agg == INSTANCE WeatherAggregator

main == <<pc, run, packetCount>>
net  == <<at, sock_fd, fds, mGoodServer, mWaitTime, mPacket, link, version, next,
          torn, mid, cut>>
agg  == <<reports, mValueAggregate, mHannAggregate, request, influx>>
vars == <<main, net, agg>>

\* "outer" and "cycle" are the heads of the two loops, "opening" and "reading"
\* the calls of openConnection and getPacket, "dispatch" what is done with a
\* packet, "publish" the call of pushToInflux and "pushing" its HTTP request,
\* "closing" the end of a session.  A process that has "failed" is started again;
\* one that has "stopped" returned 0 from main.
Pcs == {"outer", "opening", "cycle", "reading", "dispatch", "publish", "pushing",
        "closing", "failed", "stopped"}

Init == /\ pc = "outer"
        /\ run = TRUE
        /\ packetCount = 0
        /\ Net!Init
        /\ Agg!Init

-----------------------------------------------------------------------------
(* A session. *)

\* Mutant: the outer loop does not look at the flag.
NextSession_IgnoresRun ==
    /\ pc = "outer"
    /\ pc' = "opening"
    /\ packetCount' = 0
    /\ Net!Construct
    /\ UNCHANGED <<run, agg>>

\* Mutant: the aggregator is constructed with the connection, inside the loop.
NextSession_NewAggregator ==
    /\ pc = "outer"
    /\ run
    /\ pc' = "opening"
    /\ packetCount' = 0
    /\ Net!Construct
    /\ Agg!Die
    /\ UNCHANGED run

NextSession ==
    /\ pc = "outer"
    /\ run
    /\ pc' = "opening"
    /\ packetCount' = 0
    /\ Net!Construct
    /\ UNCHANGED <<run, agg>>

Stop ==
    /\ pc = "outer"
    /\ ~run
    /\ pc' = "stopped"
    /\ UNCHANGED <<run, packetCount, net, agg>>

\* Where main is when a step of the connection leaves it at a.
Resumed(a) == CASE a = "opened"             -> "cycle"
                [] a = "refused"            -> "closing"
                [] a = "got"                -> "dispatch"
                [] a \in {"exit", "thrown"} -> "failed"
                [] OTHER                    -> pc

\* openConnection and getPacket run until at says that they are done.
InNet == pc \in {"opening", "reading"}

Connected(v) ==
    /\ InNet
    /\ \E fd \in Fds : Net!Connect(fd, v)
    /\ UNCHANGED <<main, agg>>

NotConnected ==
    /\ InNet
    /\ Net!ConnectFails \/ Net!ResolveFails
    /\ pc' = Resumed(at')
    /\ UNCHANGED <<run, packetCount, agg>>

Vetting == InNet /\ Net!Vet /\ UNCHANGED <<main, agg>>

Wakeup ==
    /\ InNet
    /\ Net!Wakeup
    /\ pc' = Resumed(at')
    /\ UNCHANGED <<run, packetCount, agg>>

PartialLine == InNet /\ Net!PartialLine /\ UNCHANGED <<main, agg>>

\* Mutant: <= for <.
NextPacket_OneMore ==
    /\ pc = "cycle"
    /\ packetCount <= CycleRate
    /\ pc' = "reading"
    /\ Net!CallGetPacket
    /\ UNCHANGED <<run, packetCount, agg>>

\* while (packetCount < serverCycleRate.value()) sock.getPacket();
NextPacket ==
    /\ pc = "cycle"
    /\ packetCount < CycleRate
    /\ pc' = "reading"
    /\ Net!CallGetPacket
    /\ UNCHANGED <<run, packetCount, agg>>

EndCycle ==
    /\ pc = "cycle"
    /\ packetCount >= CycleRate
    /\ pc' = "closing"
    /\ UNCHANGED <<run, packetCount, net, agg>>

\* Mutant: the session ends without closing its socket.
CloseSession_Leaks ==
    /\ pc = "closing"
    /\ pc' = "outer"
    /\ at' = "gone"
    /\ UNCHANGED <<run, packetCount, sock_fd, fds, mGoodServer, mWaitTime, mPacket, link,
                   version, next, torn, mid, cut, agg>>

CloseSession ==
    /\ pc = "closing"
    /\ pc' = "outer"
    /\ Net!Close
    /\ UNCHANGED <<run, packetCount, agg>>

-----------------------------------------------------------------------------
(* What main does with a packet, one action for each kind of line. *)

\* Mutant: an empty packet is counted like any other.
EmptyPacket_Counted ==
    /\ pc = "dispatch"
    /\ mPacket = Net!Empty
    /\ packetCount' = packetCount + 1
    /\ pc' = "cycle"
    /\ UNCHANGED <<run, net, agg>>

EmptyPacket ==
    /\ pc = "dispatch"
    /\ mPacket = Net!Empty
    /\ packetCount' = CycleRate
    /\ pc' = "cycle"
    /\ UNCHANGED <<run, net, agg>>

Counted == pc = "dispatch" /\ mPacket # Net!Empty /\ packetCount' = packetCount + 1

ServerId == mPacket = Net!Id("aprsc")

Repeat ==
    /\ Counted
    /\ ServerId
    /\ pc' = IF InfluxRepeats /\ DOMAIN reports # {} /\ InfluxConfigured
               THEN "publish" ELSE "cycle"
    /\ UNCHANGED <<run, net, agg>>

\* Another line that starts with '#'.
Comment ==
    /\ Counted
    /\ mPacket \in (Net!Ids \cup {Net!LogResp}) /\ ~ServerId
    /\ pc' = "cycle"
    /\ UNCHANGED <<run, net, agg>>

WxPacket(s, r) ==
    /\ Counted
    /\ mPacket = WxLine(s, r)
    /\ Agg!Update(s, r)
    /\ pc' = IF InfluxConfigured THEN "publish" ELSE "cycle"
    /\ UNCHANGED <<run, net>>

OtherPacket ==
    /\ Counted
    /\ mPacket = Ignored
    /\ pc' = "cycle"
    /\ UNCHANGED <<run, net, agg>>

\* return 1; a lone terminator and the end of a line do not decode either.
DecodingError ==
    /\ Counted
    /\ mPacket \in {Undecodable, Net!Newline, Net!Fragment}
    /\ pc' = "failed"
    /\ UNCHANGED <<run, net, agg>>

Push ==
    /\ pc = "publish"
    /\ \/ Agg!BeginPush /\ pc' = "pushing"
       \/ Agg!PostField(Agg!Means) = <<>> /\ pc' = "cycle" /\ UNCHANGED agg
    /\ UNCHANGED <<run, packetCount, net>>

\* The result of pushToInflux is not looked at.
Pushed ==
    /\ pc = "pushing"
    /\ \E stored \in BOOLEAN : Agg!EndPush(stored)
    /\ pc' = "cycle"
    /\ UNCHANGED <<run, packetCount, net>>

-----------------------------------------------------------------------------
(* Everything else. *)

Alive == pc \notin {"failed", "stopped"}

\* The handler runs; a select it finds waiting comes back with EINTR.
Signal ==
    /\ Alive
    /\ run' = FALSE
    /\ \/ pc' = pc /\ UNCHANGED net
       \/ InNet /\ Net!Interrupted /\ pc' = Resumed(at')
    /\ UNCHANGED <<packetCount, agg>>

Killed == Alive /\ pc' = "failed" /\ UNCHANGED <<run, packetCount, net, agg>>

\* Another process, with nothing of the old one's memory.
Reborn == /\ pc' = "outer"
          /\ run' = TRUE
          /\ packetCount' = 0
          /\ Net!Die
          /\ Agg!Die

Restart == pc = "failed" /\ Reborn     \* Restart=on-failure
Start   == pc = "stopped" /\ Reborn    \* systemctl start

Server == /\ Net!ServerCloses \/ Net!LinkReset
          /\ UNCHANGED <<main, agg>>

\* Time passes where the program waits.
Tick == /\ InNet \/ pc = "pushing" \/ ~Alive
        /\ Agg!Tick
        /\ UNCHANGED <<main, net>>

Session == NextSession \/ Stop \/ NextPacket \/ EndCycle \/ CloseSession

Packet == \/ EmptyPacket \/ Repeat \/ Comment \/ OtherPacket \/ DecodingError
          \/ \E s \in Stations, r \in Readings : WxPacket(s, r)

Next == \/ Session \/ Packet \/ Push \/ Pushed
        \/ \E v \in Net!Versions : Connected(v)
        \/ NotConnected \/ Vetting \/ Wakeup \/ PartialLine
        \/ Signal \/ Killed \/ Restart \/ Start \/ Server \/ Tick

Spec == Init /\ [][Next]_vars

\* The program's own steps are taken, a wait of select and an HTTP request come
\* to an end, systemd starts what failed, and a program that goes on choosing
\* servers meets one that it accepts.  Nothing is assumed of the server, of
\* signals, or of a getPacket that spins.
Fairness ==
    /\ WF_vars(Session) /\ WF_vars(Packet) /\ WF_vars(Push) /\ WF_vars(Pushed)
    /\ WF_vars(Vetting) /\ WF_vars(Wakeup) /\ WF_vars(Restart)
    /\ WF_vars(NotConnected \/ \E v \in Net!Versions : Connected(v))
    /\ SF_vars(\E v \in Net!Versions \ Net!Rejected : Connected(v))

FairSpec == Spec /\ Fairness

-----------------------------------------------------------------------------
(* Safety. *)

\* Every variable of main has its type; those of the parts are typed there.
AprsWxTypeOK ==
    /\ pc \in Pcs
    /\ run \in BOOLEAN
    /\ packetCount \in 0 .. CycleRate
    /\ Net!AprsISTypeOK
    /\ Agg!AggregatorTypeOK

\* main calls the connection only where the connection can be called: it reads
\* after openConnection has returned true, it reads no further when its own
\* getPacket has given up, and it looks at a packet when there is one.  The rest
\* of a line whose beginning was lost reaches it only when a wait of
\* openConnection was given up, and then as the first packet of a session (it
\* does not decode, which ends the process).
CallsInOrder ==
    /\ pc = "cycle" /\ packetCount < CycleRate =>
          /\ at \in {"opened", "got"}
          /\ at = "got" => mPacket # Net!Empty
    /\ pc \in {"dispatch", "publish", "pushing"} => at = "got"
    /\ pc = "opening" => at \in Net!Ats \ {"gone", "opened", "refused", "packet", "got"}
    /\ pc = "reading" => at \in {"packet", "spin"}
    /\ pc = "dispatch" /\ mPacket = Net!Fragment => cut /\ packetCount = 0

\* Between two sessions, and when the program has ended well, no descriptor is
\* open and no request is under way; and it ends well only on a signal.
SessionsAreClosed ==
    pc \in {"outer", "stopped"} =>
        /\ at = "gone"
        /\ fds = {}
        /\ request = <<>>
        /\ pc = "stopped" => ~run

FreshStations == {s \in DOMAIN reports : reports[s].age <= MaxAge}

\* A report of the last 90 minutes leaves the aggregator only with the process:
\* it survives the ends of sessions, failed connections, failed pushes and the
\* reports of other stations.
ReportsSurviveSessions ==
    [][FreshStations \subseteq DOMAIN reports' \/ ~Alive]_vars

\* What is published is computed from reports of the last 90 minutes (the
\* comment on clearAggregateData says that older ones are deleted).
PublishesFreshReports ==
    pc = "publish" => FreshStations = DOMAIN reports

\* The values of the last 90 minutes are maintained when the server drops the
\* connection and another one has to be chosen.
ReconnectionKeepsReports ==
    [][at = "exit" => FreshStations \subseteq DOMAIN reports']_vars

-----------------------------------------------------------------------------
(* Liveness. *)

\* No line goes on for ever: mWaitTime bounds the silence within a line, and
\* nothing bounds its length.
LinesEnd == []<>~(mid /\ at \in Net!Reading)

\* A session ends, however the server behaves, unless it sends a line without an
\* end, or getPacket has met the end of the file and reads it for ever.
SessionsEnd ==
    LinesEnd => ((pc = "opening") ~> (pc = "outer" \/ ~Alive \/ at = "spin"))

\* After a signal the program ends, with the same exceptions, whether the signal
\* interrupted a wait or was noticed only at the end of the session.
SignalStops ==
    LinesEnd => (~run ~> (~Alive \/ at = "spin"))

\* A connection is given up after cycleRate packets, or after a minute without
\* any, and another server chosen.
NewServerIsChosen ==
    (pc = "reading") ~> (pc = "outer" \/ ~Alive)

=============================================================================
