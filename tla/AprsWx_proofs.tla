--------------------------- MODULE AprsWx_proofs ---------------------------
(***************************************************************************)
(* Proofs about the daemon, for every cycle rate, every set of stations    *)
(* and readings, and every configuration of the database.                  *)
(*                                                                         *)
(* The daemon is first shown to take only steps of AprsIS, so that what is *)
(* proved of the connection (AprsIS_proofs) holds of it inside the daemon; *)
(* an invariant that relates main to the connection then gives the         *)
(* properties of AprsWx.  Net and P are the same connection: P is the one  *)
(* the proofs are known of.                                                *)
(***************************************************************************)
EXTENDS AprsWx, TLAPS

P == INSTANCE AprsIS_proofs

-----------------------------------------------------------------------------
(* The daemon takes steps of the connection. *)

\* The lines the daemon decodes are none of the server's own.
LEMMA ConnectionAssumption == P!AprsISAssumption
<1>1. \A l \in P!Ids \cup {P!LogResp, P!Newline, P!Fragment, P!Empty} : l \notin Traffic
  BY DEF Traffic, WxLine, Ignored, Undecodable, P!Ids, P!Id, P!LogResp, P!Newline,
         P!Fragment, P!Empty
<1> QED
  BY <1>1, AprsWxAssumption DEF P!AprsISAssumption

\* The operations the daemon calls are those the proofs are about.
LEMMA SameConnection ==
    /\ Net!Construct <=> P!Construct
    /\ \A fd, v : Net!Connect(fd, v) <=> P!Connect(fd, v)
    /\ Net!ConnectFails <=> P!ConnectFails
    /\ Net!ResolveFails <=> P!ResolveFails
    /\ Net!Vet <=> P!Vet
    /\ Net!CallGetPacket <=> P!CallGetPacket
    /\ Net!Close <=> P!Close
    /\ Net!GetLine <=> P!GetLine
    /\ Net!SilentSecond <=> P!SilentSecond
    /\ Net!ReadEof <=> P!ReadEof
    /\ Net!ReadError <=> P!ReadError
    /\ Net!PartialLine <=> P!PartialLine
    /\ Net!Interrupted <=> P!Interrupted
    /\ Net!ServerCloses <=> P!ServerCloses
    /\ Net!LinkReset <=> P!LinkReset
    /\ Net!Die <=> P!Die
<1>1. Net!Construct <=> P!Construct
    BY DEF Net!Construct, P!Construct, Net!Fresh, P!Fresh, Net!Empty, P!Empty
<1>2. \A fd, v : Net!Connect(fd, v) <=> P!Connect(fd, v)
    BY DEF Net!Connect, P!Connect
<1>3. Net!ConnectFails <=> P!ConnectFails
    BY DEF Net!ConnectFails, P!ConnectFails, Net!server, P!server
<1>4. Net!ResolveFails <=> P!ResolveFails
    BY DEF Net!ResolveFails, P!ResolveFails, Net!server, P!server
<1>5. Net!Vet <=> P!Vet
    BY DEF Net!Vet, P!Vet, Net!CloseSocket, P!CloseSocket, Net!Rejected,
     P!Rejected, Net!Id, P!Id
<1>6. Net!CallGetPacket <=> P!CallGetPacket
    BY DEF Net!CallGetPacket, P!CallGetPacket, Net!server, P!server,
     Net!Empty, P!Empty
<1>7. Net!Close <=> P!Close
    BY DEF Net!Close, P!Close, Net!CloseSocket, P!CloseSocket
<1>8. Net!GetLine <=> P!GetLine
    BY DEF Net!GetLine, P!GetLine, Net!Reading, P!Reading, Net!Return,
     P!Return, Net!After, P!After, Net!Upcoming, P!Upcoming, Net!Fragment, P!Fragment,
     Net!Id, P!Id, Net!LogResp, P!LogResp, Net!Empty, P!Empty, Net!Newline,
     P!Newline
<1>9. Net!SilentSecond <=> P!SilentSecond
    BY DEF Net!SilentSecond, P!SilentSecond, Net!Reading, P!Reading,
     Net!GiveUp, P!GiveUp, Net!Return, P!Return, Net!After, P!After,
     Net!Empty, P!Empty, Net!Newline, P!Newline
<1>10. Net!ReadEof <=> P!ReadEof
    BY DEF Net!ReadEof, P!ReadEof, Net!Reading, P!Reading, Net!Return,
     P!Return, Net!After, P!After, Net!server, P!server, Net!Empty, P!Empty,
     Net!Newline, P!Newline
<1>11. Net!ReadError <=> P!ReadError
    BY DEF Net!ReadError, P!ReadError, Net!Reading, P!Reading, Net!server,
     P!server
<1>12. Net!PartialLine <=> P!PartialLine
    BY DEF Net!PartialLine, P!PartialLine, Net!Reading, P!Reading, Net!server,
     P!server
<1>13. Net!Interrupted <=> P!Interrupted
    BY DEF Net!Interrupted, P!Interrupted, Net!Reading, P!Reading, Net!GiveUp,
     P!GiveUp, Net!Return, P!Return, Net!After, P!After, Net!Empty, P!Empty,
     Net!Newline, P!Newline
<1>14. Net!ServerCloses <=> P!ServerCloses
    BY DEF Net!ServerCloses, P!ServerCloses, Net!object, P!object
<1>15. Net!LinkReset <=> P!LinkReset
    BY DEF Net!LinkReset, P!LinkReset, Net!object, P!object
<1>16. Net!Die <=> P!Die
    BY DEF Net!Die, P!Die, Net!Fresh, P!Fresh, Net!Empty, P!Empty
<1> QED
  BY <1>1, <1>2, <1>3, <1>4, <1>5, <1>6, <1>7, <1>8, <1>9, <1>10, <1>11,
     <1>12, <1>13, <1>14, <1>15, <1>16

\* A step that leaves the connection alone stutters there.
LEMMA QuietConnection == UNCHANGED net => UNCHANGED P!vars
BY DEF net, P!vars, P!object, P!server

\* Every step of the daemon is a step of the connection or leaves it alone.
LEMMA ConnectionStep ==
    ASSUME [Next]_vars
    PROVE  [P!Next]_(P!vars)
<1> USE SameConnection, QuietConnection DEF P!Next, P!Opening, P!Wakeup
<1>1. CASE NextSession
    BY <1>1 DEF NextSession
<1>2. CASE Stop
    BY <1>2 DEF Stop
<1>3. CASE NextPacket
    BY <1>3 DEF NextPacket
<1>4. CASE EndCycle
    BY <1>4 DEF EndCycle
<1>5. CASE CloseSession
    BY <1>5 DEF CloseSession
<1>6. CASE EmptyPacket
    BY <1>6 DEF EmptyPacket
<1>7. CASE Repeat
    BY <1>7 DEF Repeat, Counted
<1>8. CASE Comment
    BY <1>8 DEF Comment, Counted
<1>9. CASE OtherPacket
    BY <1>9 DEF OtherPacket, Counted
<1>10. CASE DecodingError
    BY <1>10 DEF DecodingError, Counted
<1>11. CASE \E s \in Stations, r \in Readings : WxPacket(s, r)
    BY <1>11 DEF WxPacket, Counted
<1>12. CASE Push
    BY <1>12 DEF Push
<1>13. CASE Pushed
    BY <1>13 DEF Pushed
<1>14. CASE \E v \in Net!Versions : Connected(v)
    BY <1>14 DEF Connected, Net!Versions, P!Versions
<1>15. CASE NotConnected
    BY <1>15 DEF NotConnected
<1>16. CASE Vetting
    BY <1>16 DEF Vetting
<1>17. CASE Wakeup
    BY <1>17 DEF Wakeup, Net!Wakeup
<1>18. CASE PartialLine
    BY <1>18 DEF PartialLine
<1>19. CASE Signal
    BY <1>19 DEF Signal
<1>20. CASE Killed
    BY <1>20 DEF Killed
<1>21. CASE Restart
    BY <1>21 DEF Restart, Reborn
<1>22. CASE Start
    BY <1>22 DEF Start, Reborn
<1>23. CASE Server
    BY <1>23 DEF Server
<1>24. CASE Tick
    BY <1>24 DEF Tick
<1>25. CASE UNCHANGED vars
    BY <1>25 DEF vars
<1> QED
  BY <1>1, <1>2, <1>3, <1>4, <1>5, <1>6, <1>7, <1>8, <1>9, <1>10, <1>11,
     <1>12, <1>13, <1>14, <1>15, <1>16, <1>17, <1>18, <1>19, <1>20,
     <1>21, <1>22, <1>23, <1>24, <1>25 DEF Next, Session, Packet

LEMMA ConnectionInit == Init => P!Init
BY DEF Init, Net!Init, P!Init, Net!Empty, P!Empty

\* The connection's inductive invariant holds inside the daemon.
LEMMA ConnectionInv == Spec => []P!IInv
<1>1. Init => P!IInv
  BY ConnectionInit, ConnectionAssumption, P!InitEstablishes
<1>2. P!IInv /\ [Next]_vars => P!IInv'
  BY ConnectionStep, ConnectionAssumption, P!StepPreserves
<1> QED
  BY <1>1, <1>2, PTL DEF Spec

-----------------------------------------------------------------------------
(* main and the connection: where each of them is tells where the other is. *)

CallsInv ==
    /\ pc \in {"outer", "stopped"} => at = "gone"
    /\ pc = "opening" => at \in {"connecting", "greeting", "vetting", "reply", "spin"}
    /\ pc = "cycle" => \/ at = "opened"
                       \/ at = "got" /\ (mPacket = Net!Empty => packetCount >= CycleRate)
    /\ pc = "reading" => at \in {"packet", "spin"}
    /\ pc \in {"dispatch", "publish", "pushing"} => at = "got"
    /\ pc \in {"publish", "pushing"} => mPacket # Net!Empty
    /\ pc = "closing" => at \in {"opened", "got", "refused"}

CountInv ==
    /\ packetCount \in 0 .. CycleRate
    /\ pc \in {"reading", "dispatch"} => packetCount < CycleRate

\* A request is under way only in pushing, or in a process that was killed there.
RequestInv == pc \notin {"pushing", "failed"} => request = <<>>

MainInv ==
    /\ pc \in Pcs
    /\ run \in BOOLEAN
    /\ pc = "stopped" => ~run
    /\ CallsInv
    /\ CountInv
    /\ RequestInv

\* No step takes main and the connection apart, counts a packet too many, or
\* leaves a request behind.
LEMMA MainStep ==
    ASSUME MainInv, [Next]_vars
    PROVE  MainInv'
<1>0. CycleRate \in Nat
  BY AprsWxAssumption
<1> USE <1>0 DEF MainInv, CallsInv, CountInv, RequestInv, Pcs, main
<1>1. CASE NextSession
    BY <1>1 DEF NextSession, Net!Construct, agg
<1>2. CASE Stop
    BY <1>2 DEF Stop, net, agg
<1>3. CASE NextPacket
    BY <1>3 DEF NextPacket, Net!CallGetPacket, agg
<1>4. CASE EndCycle
    BY <1>4 DEF EndCycle, net, agg
<1>5. CASE CloseSession
    BY <1>5 DEF CloseSession, Net!Close, agg
<1>6. CASE EmptyPacket
    BY <1>6 DEF EmptyPacket, net, agg
<1>7. CASE Repeat
    BY <1>7 DEF Repeat, Counted, ServerId, Net!Id, Net!Empty, net, agg
<1>8. CASE Comment
    BY <1>8 DEF Comment, Counted, net, agg
<1>9. CASE OtherPacket
    BY <1>9 DEF OtherPacket, Counted, net, agg
<1>10. CASE DecodingError
    BY <1>10 DEF DecodingError, Counted, agg
<1>11. CASE \E s \in Stations, r \in Readings : WxPacket(s, r)
    BY <1>11 DEF WxPacket, Counted, Agg!Update, net, agg
<1>12. CASE Push
    BY <1>12 DEF Push, Agg!BeginPush, net, agg
<1>13. CASE Pushed
    BY <1>13 DEF Pushed, Agg!EndPush, net, agg
<1>14. CASE \E v \in Net!Versions : Connected(v)
    BY <1>14 DEF Connected, InNet, Net!Connect, agg
<1>15. CASE NotConnected
    BY <1>15 DEF NotConnected, InNet, Resumed, Net!ConnectFails,
     Net!ResolveFails, agg
<1>16. CASE Vetting
    BY <1>16 DEF Vetting, InNet, Net!Vet, agg
<1>17. CASE Wakeup
  <2>1. CASE Net!GetLine
      BY <1>17, <2>1 DEF Wakeup, InNet, Resumed, agg, Net!Reading, Net!GetLine,
       Net!Return, Net!After
  <2>2. CASE Net!SilentSecond
      BY <1>17, <2>2 DEF Wakeup, InNet, Resumed, agg, Net!Reading,
       Net!SilentSecond, Net!GiveUp, Net!Return, Net!After
  <2>3. CASE Net!ReadEof
      BY <1>17, <2>3 DEF Wakeup, InNet, Resumed, agg, Net!Reading, Net!ReadEof,
       Net!Return, Net!After
  <2>4. CASE Net!ReadError
      BY <1>17, <2>4 DEF Wakeup, InNet, Resumed, agg, Net!Reading, Net!ReadError
  <2> QED
    BY <1>17, <2>1, <2>2, <2>3, <2>4 DEF Wakeup, Net!Wakeup
<1>18. CASE PartialLine
    BY <1>18 DEF PartialLine, InNet, Net!PartialLine, Net!Reading, agg
<1>19. CASE Signal
  <2>1. CASE pc' = pc /\ UNCHANGED net
    BY <1>19, <2>1 DEF Signal, Alive, net, agg
  <2>2. CASE InNet /\ Net!Interrupted /\ pc' = Resumed(at')
    BY <1>19, <2>2 DEF Signal, Alive, InNet, Resumed, agg, Net!Reading,
         Net!Interrupted, Net!GiveUp, Net!Return, Net!After
  <2> QED
    BY <1>19, <2>1, <2>2 DEF Signal
<1>20. CASE Killed
    BY <1>20 DEF Killed, Alive, agg
<1>21. CASE Restart
    BY <1>21 DEF Restart, Reborn, Net!Die, Agg!Die, agg
<1>22. CASE Start
    BY <1>22 DEF Start, Reborn, Net!Die, Agg!Die, agg
<1>23. CASE Server
    BY <1>23 DEF Server, Net!ServerCloses, Net!LinkReset, Net!object, agg
<1>24. CASE Tick
    BY <1>24 DEF Tick, InNet, Alive, Agg!Tick, net, agg
<1>25. CASE UNCHANGED vars
    BY <1>25 DEF vars, net, agg
<1> QED
  BY <1>1, <1>2, <1>3, <1>4, <1>5, <1>6, <1>7, <1>8, <1>9, <1>10, <1>11,
     <1>12, <1>13, <1>14, <1>15, <1>16, <1>17, <1>18, <1>19, <1>20,
     <1>21, <1>22, <1>23, <1>24, <1>25 DEF Next, Session, Packet

LEMMA AlwaysMainInv == Spec => []MainInv
<1>1. Init => MainInv
  BY AprsWxAssumption
     DEF Init, Net!Init, Agg!Init, MainInv, Pcs, CallsInv, CountInv, RequestInv
<1> QED
  BY <1>1, MainStep, PTL DEF Spec

-----------------------------------------------------------------------------
(* The theorems. *)

\* What is proved of the parts holds of them in the daemon.
LEMMA DaemonUsesAprsIS == Spec => Net!Spec
<1>1. Init => Net!Init
  BY DEF Init
<1>2. [P!Next]_(P!vars) => [Net!Next]_(Net!vars)
  BY SameConnection
     DEF P!Next, P!Opening, P!Wakeup, P!Versions, P!vars, P!object, P!server,
         Net!Next, Net!Opening, Net!Wakeup, Net!Versions, Net!vars, Net!object, Net!server
<1> QED
  BY <1>1, <1>2, ConnectionStep, PTL DEF Spec, Net!Spec

LEMMA DaemonUsesAggregator == Spec => Agg!Spec
<1>1. Init => Agg!Init
  BY DEF Init
<1>2. ASSUME [Next]_vars
      PROVE  [Agg!Next]_(Agg!vars)
  <2> USE DEF Agg!Next
  <2>1. CASE UNCHANGED agg
    BY <2>1 DEF agg, Agg!vars
  <2>2. CASE \E s \in Stations, r \in Readings : WxPacket(s, r)
    BY <2>2 DEF WxPacket
  <2>3. CASE Push \/ Pushed
    BY <2>3 DEF Push, Pushed, agg, Agg!vars
  <2>4. CASE Tick \/ Restart \/ Start
    BY <2>4 DEF Tick, Restart, Start, Reborn
  <2>5. \/ UNCHANGED agg
        \/ \E s \in Stations, r \in Readings : WxPacket(s, r)
        \/ Push \/ Pushed \/ Tick \/ Restart \/ Start
    BY <1>2 DEF Next, Session, NextSession, Stop, NextPacket, EndCycle, CloseSession,
         Packet, EmptyPacket, Repeat, Comment, OtherPacket, DecodingError, Connected,
         NotConnected, Vetting, Wakeup, PartialLine, Signal, Killed,
         Server, vars
  <2> QED
    BY <2>1, <2>2, <2>3, <2>4, <2>5
<1> QED
  BY <1>1, <1>2, PTL DEF Spec, Agg!Spec

\* Where main is while the beginning of the line it will read next is lost.  In a
\* session that has read a packet it reads no such line any more.
LostInv ==
    /\ pc = "opening" => packetCount = 0
    /\ pc = "cycle" /\ at = "opened" => packetCount = 0
    /\ pc = "dispatch" /\ mPacket = Net!Fragment => packetCount = 0
    /\ torn => \/ pc \in {"outer", "opening", "closing", "failed", "stopped"}
               \/ pc \in {"cycle", "reading"} /\ packetCount = 0
               \/ pc = "cycle" /\ packetCount >= CycleRate
               \/ pc = "dispatch" /\ mPacket \in {Net!Empty, Net!Newline}

\* A packet of the feed that is not the rest of a line begins where a line does.
LEMMA LostStep ==
    ASSUME MainInv, LostInv, [Next]_vars
    PROVE  LostInv'
<1>0. CycleRate \in Nat
  BY AprsWxAssumption
<1> USE <1>0 DEF LostInv, main
<1>1. CASE Session
  <2>1. CASE NextSession
    BY <2>1 DEF NextSession, Net!Construct, Net!Fresh
  <2>2. CASE Stop \/ EndCycle
    BY <2>2 DEF Stop, EndCycle, net
  <2>3. CASE NextPacket
    BY <2>3 DEF NextPacket, Net!CallGetPacket, Net!server, MainInv, CallsInv, CountInv
  <2>4. CASE CloseSession
    BY <2>4 DEF CloseSession, Net!Close, Net!CloseSocket
  <2> QED
    BY <1>1, <2>1, <2>2, <2>3, <2>4 DEF Session
<1>2. CASE Packet
  <2> USE DEF net, Counted, MainInv, CountInv, CallsInv
  <2>1. CASE EmptyPacket
    BY <2>1 DEF EmptyPacket
  <2>2. CASE Repeat \/ Comment
    <3>1. mPacket \notin {Net!Empty, Net!Newline}
      BY <2>2 DEF Repeat, Comment, ServerId, Net!Ids, Net!Id, Net!LogResp, Net!Empty, Net!Newline
    <3> QED
      BY <2>2, <3>1 DEF Repeat, Comment
  <2>3. CASE OtherPacket \/ \E s \in Stations, r \in Readings : WxPacket(s, r)
    <3>1. mPacket \notin {Net!Empty, Net!Newline}
      BY <2>3 DEF OtherPacket, WxPacket, WxLine, Ignored, Net!Empty, Net!Newline
    <3> QED
      BY <2>3, <3>1 DEF OtherPacket, WxPacket
  <2>4. CASE DecodingError
    BY <2>4 DEF DecodingError
  <2> QED
    BY <1>2, <2>1, <2>2, <2>3, <2>4 DEF Packet
<1>3. CASE Push \/ Pushed
  BY <1>3 DEF Push, Pushed, net, MainInv, CallsInv
<1>4. CASE (\E v \in Net!Versions : Connected(v)) \/ NotConnected \/ Vetting
  BY <1>4 DEF Connected, NotConnected, Vetting, Net!Connect, Net!ConnectFails, Net!ResolveFails,
       Net!Vet, Net!CloseSocket, Net!server, InNet, Resumed, MainInv, CallsInv
<1>5. ASSUME InNet, pc' = Resumed(at'), UNCHANGED packetCount,
             \/ Net!GetLine \/ Net!SilentSecond \/ Net!ReadEof \/ Net!ReadError \/ Net!Interrupted
      PROVE  LostInv'
  <2> USE DEF InNet, Resumed, MainInv, CallsInv, Net!Reading
  <2>1. CASE Net!GetLine
    <3>1. mPacket' = Net!Fragment => torn
      <4>1. Net!Fragment \notin Traffic \cup {Net!Id(version), Net!LogResp}
        BY DEF Traffic, WxLine, Ignored, Undecodable, Net!Fragment, Net!Id, Net!LogResp
      <4> QED
        BY <2>1, <4>1 DEF Net!GetLine, Net!Return, Net!Upcoming, Net!Ids
    <3>2. ~torn' /\ at' = Net!After(at)
      BY <2>1 DEF Net!GetLine, Net!Return
    <3>3. CASE pc = "opening"
      BY <1>5, <2>1, <3>2, <3>3 DEF Net!GetLine, Net!After
    <3>4. CASE pc = "reading"
      BY <1>5, <2>1, <3>1, <3>2, <3>4 DEF Net!GetLine, Net!After
    <3> QED
      BY <1>5, <3>3, <3>4
  <2>2. CASE Net!SilentSecond \/ Net!Interrupted
    <3>1. \/ UNCHANGED <<at, mPacket, torn>>
          \/ at' = Net!After(at) /\ mPacket' = Net!Empty
      BY <2>2 DEF Net!SilentSecond, Net!Interrupted, Net!GiveUp, Net!Return
    <3>2. at \in Net!Reading
      BY <2>2 DEF Net!SilentSecond, Net!Interrupted
    <3> QED
      BY <1>5, <3>1, <3>2 DEF Net!After, Net!Empty, Net!Fragment
  <2>3. CASE Net!ReadEof
    <3>1. /\ at \in Net!Reading /\ UNCHANGED torn
          /\ \/ at' = "spin" /\ UNCHANGED mPacket
             \/ at' = Net!After(at) /\ mPacket' = Net!Newline
      BY <2>3 DEF Net!ReadEof, Net!Return, Net!server
    <3> QED
      BY <1>5, <3>1 DEF Net!After, Net!Newline, Net!Fragment
  <2>4. CASE Net!ReadError
    BY <1>5, <2>4 DEF Net!ReadError, Net!server
  <2> QED
    BY <1>5, <2>1, <2>2, <2>3, <2>4
<1>6. CASE Wakeup
  BY <1>5, <1>6 DEF Wakeup, Net!Wakeup
<1>7. CASE Signal
  BY <1>5, <1>7 DEF Signal, net
<1>8. CASE PartialLine \/ Server \/ Killed \/ Tick \/ UNCHANGED vars
  BY <1>8 DEF PartialLine, Net!PartialLine, Server, Net!ServerCloses, Net!LinkReset, Killed, Tick,
       Net!server, Net!object, net, vars
<1>9. CASE Restart \/ Start
  BY <1>9 DEF Restart, Start, Reborn, Net!Die, Net!Fresh
<1> QED
  BY <1>1, <1>2, <1>3, <1>4, <1>6, <1>7, <1>8, <1>9 DEF Next

\* main never reads on after a getPacket of its own that gave up, never looks at a
\* packet it has not got, and gets the rest of a lost line only as the first packet
\* of a session, after a wait of openConnection that was given up.
THEOREM CallsAreInOrder == Spec => []CallsInOrder
<1>1. Init => LostInv
  BY AprsWxAssumption DEF Init, Net!Init, LostInv
<1>2. P!IInv => (at = "got" /\ mPacket = Net!Fragment => cut)
  BY DEF P!IInv, P!HandshakeInv, P!Fragment, Net!Fragment
<1>3. MainInv /\ LostInv /\ P!IInv => CallsInOrder
  BY <1>2, AprsWxAssumption
     DEF MainInv, CallsInv, CountInv, LostInv, CallsInOrder, Net!Ats, Net!Reading
<1> QED
  BY <1>1, <1>3, LostStep, AlwaysMainInv, ConnectionInv, PTL DEF Spec

\* Between sessions and after the end nothing is open and no request is under
\* way, and the program ends well only on a signal.
THEOREM SessionsClose == Spec => []SessionsAreClosed
<1>1. MainInv /\ P!IInv => SessionsAreClosed
  BY DEF MainInv, CallsInv, RequestInv, SessionsAreClosed, P!IInv, P!DescriptorInv, P!LinkInv
<1> QED
  BY <1>1, AlwaysMainInv, ConnectionInv, PTL

\* A report of the last 90 minutes survives the arrival of any report: only what
\* is older is erased.
LEMMA UpdateKeepsFresh ==
    ASSUME NEW s \in Stations, NEW r \in Readings, Agg!Update(s, r)
    PROVE  FreshStations \subseteq DOMAIN reports'
<1> DEFINE inserted == Agg!Insert(reports, s, r)
<1>1. DOMAIN reports' = {x \in DOMAIN inserted : inserted[x].age <= MaxAge}
  BY DEF Agg!Update, Agg!aggregateData, Agg!Evict, Agg!Restrict
<1>2. ASSUME NEW x \in FreshStations
      PROVE  x \in DOMAIN inserted /\ inserted[x].age <= MaxAge
  BY AprsWxAssumption DEF FreshStations, Agg!Insert, Agg!Report
<1> QED
  BY <1>1, <1>2

\* Only the end of the process makes the daemon forget a report of the last 90
\* minutes, whatever the server, the database and the signals do.
THEOREM ReportsSurvive == Spec => ReportsSurviveSessions
<1>1. ASSUME [Next]_vars
      PROVE  [FreshStations \subseteq DOMAIN reports' \/ ~Alive]_vars
  <2> USE DEF FreshStations
  <2>1. CASE UNCHANGED reports
    BY <2>1
  <2>2. CASE \E s \in Stations, r \in Readings : WxPacket(s, r)
    BY <2>2, UpdateKeepsFresh DEF WxPacket
  <2>3. CASE Tick
    BY <2>3 DEF Tick, Agg!Tick
  <2>4. CASE ~Alive
    BY <2>4
  <2>5. \/ UNCHANGED reports
        \/ \E s \in Stations, r \in Readings : WxPacket(s, r)
        \/ Tick
        \/ ~Alive
    BY <1>1 DEF Next, Session, NextSession, Stop, NextPacket, EndCycle, CloseSession,
         Packet, EmptyPacket, Repeat, Comment, OtherPacket, DecodingError, Push,
         Agg!BeginPush, Pushed, Agg!EndPush, Connected, NotConnected, Vetting, Wakeup,
         PartialLine, Signal, Killed, Restart, Start, Alive, Server,
         vars, agg
  <2> QED
    BY <2>1, <2>2, <2>3, <2>4, <2>5
<1> QED
  BY <1>1, PTL DEF Spec, ReportsSurviveSessions

\* Without influxRepeats only a weather packet leads to a push, and it has just
\* erased what is old: nothing older than 90 minutes is published.  (With it the
\* property does not hold.)
THEOREM OnlyFreshReportsArePublished ==
    ASSUME ~InfluxRepeats
    PROVE  Spec => []PublishesFreshReports
<1> USE DEF PublishesFreshReports, FreshStations
<1>1. Init => PublishesFreshReports
  BY DEF Init
<1>2. ASSUME PublishesFreshReports, [Next]_vars
      PROVE  PublishesFreshReports'
  <2>1. CASE \E s \in Stations, r \in Readings : WxPacket(s, r)
    <3>1. PICK s \in Stations, r \in Readings : Agg!Update(s, r)
      BY <2>1 DEF WxPacket
    <3>2. \A x \in DOMAIN reports' : reports'[x].age <= MaxAge
      BY <3>1 DEF Agg!Update, Agg!aggregateData, Agg!Evict, Agg!Restrict
    <3> QED
      BY <3>2
  <2>2. CASE UNCHANGED <<pc, reports>>
    BY <1>2, <2>2
  <2>3. CASE pc' # "publish"
    BY <2>3
  <2>4. \/ \E s \in Stations, r \in Readings : WxPacket(s, r)
        \/ UNCHANGED <<pc, reports>>
        \/ pc' # "publish"
    <3> USE DEF main, net, agg
    <3>1. CASE Session \/ Packet
      BY <3>1 DEF Session, NextSession, Stop, NextPacket, EndCycle, CloseSession, Packet,
         EmptyPacket, Repeat, Comment, OtherPacket, DecodingError
    <3>2. CASE Push \/ Pushed \/ Killed \/ Restart \/ Start
      BY <3>2 DEF Push, Pushed, Killed, Restart, Start, Reborn
    <3>3. CASE NotConnected \/ Wakeup \/ Signal
      BY <3>3 DEF NotConnected, Wakeup, Signal, InNet, Resumed
    <3>4. CASE Tick
      BY <3>4, <1>2 DEF Tick, InNet, Alive
    <3>5. CASE (\E v \in Net!Versions : Connected(v)) \/ Vetting \/ PartialLine \/ Server
      BY <3>5 DEF Connected, Vetting, PartialLine, Server
    <3>6. CASE UNCHANGED vars
      BY <3>6 DEF vars
    <3> QED
      BY <1>2, <3>1, <3>2, <3>3, <3>4, <3>5, <3>6 DEF Next
  <2> QED
    BY <2>1, <2>2, <2>3, <2>4
<1> QED
  BY <1>1, <1>2, PTL DEF Spec

-----------------------------------------------------------------------------
(* The types, of every reading that decode can return. *)

Q == INSTANCE WeatherAggregator_proofs

\* The aggregator of the daemon is the one the proofs are about.
LEMMA SameAggregator == Agg!Spec => Q!Spec
<1>1. Agg!Init => Q!Init
  BY DEF Agg!Init, Q!Init
<1>2. ASSUME NEW s, NEW r, Agg!Update(s, r)
      PROVE  Q!Update(s, r)
  <2> DEFINE m == Agg!Evict(Agg!Insert(reports, s, r))
  <2>1. Q!Evict(Q!Insert(reports, s, r)) = m
    BY DEF Agg!Evict, Agg!Insert, Agg!Report, Agg!Restrict, Agg!HannValue,
           Q!Evict, Q!Insert, Q!Report, Q!Restrict, Q!HannValue
  <2>2. \A n : \A f : Agg!SumFunction(f) = Q!SumFunction(f)
    BY DEF Agg!SumFunction, Agg!SumFunctionOnSet, Agg!FoldFunctionOnSet, Agg!MapThenFoldSet,
           Q!SumFunction, Q!SumFunctionOnSet, Q!FoldFunctionOnSet, Q!MapThenFoldSet
  <2>3. \A n, sym : Agg!Contributors(n, sym) = Q!Contributors(n, sym)
    BY DEF Agg!Contributors, Q!Contributors
  <2>4. Agg!WeatherItemList = Q!WeatherItemList
    BY DEF Agg!WeatherItemList, Agg!Item, Agg!Terminator, Q!WeatherItemList, Q!Item, Q!Terminator
  <2>5. \A n, sym : Agg!Terms(n, sym) = Q!Terms(n, sym)
    BY <2>3, <2>4 DEF Agg!Terms, Q!Terms
  <2>6. \A n : Agg!Aggregated(n) = Q!Aggregated(n)
    BY <2>3 DEF Agg!Aggregated, Q!Aggregated, Agg!WxSym, Q!WxSym
  <2>7. Agg!ValueSum(m) = Q!ValueSum(m) /\ Agg!HannSum(m) = Q!HannSum(m)
    <3> HIDE DEF m
    <3> QED BY <2>2, <2>5, <2>6 DEF Agg!ValueSum, Q!ValueSum, Agg!HannSum, Q!HannSum
  <2> QED
    BY <1>2, <2>1, <2>7 DEF Agg!Update, Agg!aggregateData, Q!Update, Q!aggregateData
<1>3. Agg!BeginPush => Q!BeginPush
  <2>1. \A n, d : Agg!Ratio(n, d) = Q!Ratio(n, d)
    BY DEF Agg!Ratio, Q!Ratio, Agg!Max, Q!Max
  <2>2. Agg!Means = Q!Means
    BY <2>1 DEF Agg!Means, Q!Means
  <2>3. \A n : Agg!PostField(n) = Q!PostField(n)
    <3>1. Agg!Printed = Q!Printed
      BY DEF Agg!Printed, Agg!WeatherItemList, Agg!Item, Agg!Terminator,
             Q!Printed, Q!WeatherItemList, Q!Item, Q!Terminator
    <3>2. \A n, sym : Agg!Metric(n, sym) = Q!Metric(n, sym)
      BY <3>1 DEF Agg!Metric, Agg!Convert, Agg!FahrenheitToCelsius, Agg!DropTrace,
                  Q!Metric, Q!Convert, Q!FahrenheitToCelsius, Q!DropTrace
    <3>3. \A t, h : Agg!DewPoint(t, h) = Q!DewPoint(t, h)
      BY DEF Agg!DewPoint, Q!DewPoint
    <3>4. \A n, h : Agg!Has(n, h) = Q!Has(n, h)
      BY DEF Agg!Has, Q!Has
    <3> QED BY <3>1, <3>2, <3>3, <3>4 DEF Agg!PostField, Q!PostField
  <2> QED
    BY <2>2, <2>3 DEF Agg!BeginPush, Q!BeginPush
<1>4. /\ \A stored : Agg!EndPush(stored) => Q!EndPush(stored)
      /\ Agg!Tick => Q!Tick
      /\ Agg!Die => Q!Die
  BY DEF Agg!EndPush, Q!EndPush, Agg!Tick, Q!Tick, Agg!Older, Q!Older, Agg!Die, Q!Die
<1>5. [Agg!Next]_(Agg!vars) => [Q!Next]_(Q!vars)
  BY <1>2, <1>3, <1>4 DEF Agg!Next, Q!Next, Agg!vars, Q!vars
<1> QED
  BY <1>1, <1>5, PTL DEF Agg!Spec, Q!Spec

\* The type invariant of the daemon and of its two parts.
THEOREM DaemonIsTyped ==
    ASSUME Q!AggregatorAssumption
    PROVE  Spec => []AprsWxTypeOK
<1>1. MainInv => pc \in Pcs /\ run \in BOOLEAN /\ packetCount \in 0 .. CycleRate
  BY DEF MainInv, CountInv
<1>2. P!IInv => Net!AprsISTypeOK
  BY DEF P!IInv, P!AprsISTypeOK, Net!AprsISTypeOK, P!Ats, Net!Ats, P!Reading, Net!Reading,
         P!Lines, Net!Lines, P!Ids, Net!Ids, P!Id, Net!Id, P!LogResp, Net!LogResp,
         P!Newline, Net!Newline, P!Fragment, Net!Fragment, P!Empty, Net!Empty,
         P!Versions, Net!Versions
<1>3. Q!AggregatorTypeOK => Agg!AggregatorTypeOK
  <2>1. Agg!Decodable = Q!Decodable
    BY DEF Agg!Decodable, Q!Decodable, Agg!WxSym, Q!WxSym
  <2>2. Agg!Printed = Q!Printed
    BY DEF Agg!Printed, Agg!WeatherItemList, Agg!Item, Agg!Terminator,
           Q!Printed, Q!WeatherItemList, Q!Item, Q!Terminator
  <2>3. \A text : Agg!IsText(text) = Q!IsText(text)
    BY <2>2 DEF Agg!IsText, Q!IsText, Agg!IsNumber, Q!IsNumber
  <2> QED
    BY <2>1, <2>3 DEF Q!AggregatorTypeOK, Agg!AggregatorTypeOK
<1> QED
  BY <1>1, <1>2, <1>3, AlwaysMainInv, ConnectionInv, DaemonUsesAggregator, SameAggregator,
     Q!AggregatorIsTyped, PTL DEF AprsWxTypeOK

=============================================================================
