--------------------------- MODULE AprsIS_proofs ---------------------------
(***************************************************************************)
(* Proofs about the connection, for every set of descriptors, every feed   *)
(* and every patience MaxWait.                                             *)
(***************************************************************************)
EXTENDS AprsIS, TLAPS

-----------------------------------------------------------------------------
(* The inductive invariant.  Each part strengthens one property with what   *)
(* it depends on at the earlier steps of openConnection.                    *)

\* A link exists exactly as long as a descriptor does.
LinkInv ==
    /\ link = "none" <=> sock_fd = -1
    /\ at \in {"gone", "connecting", "refused"} => sock_fd = -1

\* openConnection walks in step with the server.
HandshakeInv ==
    /\ at \in {"connecting", "greeting"} => ~mGoodServer
    /\ at = "greeting" => next = "greeting" /\ ~torn
    /\ ~cut =>
         /\ at = "vetting" => mPacket = Id(version) /\ next = "logresp"
         /\ at = "reply" => next = "logresp"
         /\ at \in {"opened", "packet", "got"} => next = "traffic"
         /\ at \in {"vetting", "reply", "opened", "packet"} => ~torn
         /\ at = "got" /\ mPacket # Empty => ~torn
         /\ at = "got" => mPacket \notin {Fragment, LogResp}
         /\ mGoodServer /\ link # "none" => version \notin Rejected

\* How long the silence can have lasted at each point.
SilenceInv ==
    /\ mWaitTime <= MaxWait + 3
    /\ mWaitTime > MaxWait + 1 => cut
    /\ at = "connecting" => mWaitTime = 0
    /\ at = "greeting" => mWaitTime <= MaxWait
    /\ at \in {"vetting", "reply"} => mWaitTime <= MaxWait + 1
    /\ at \in {"opened", "packet"} => mWaitTime <= MaxWait + 2
    /\ at \in {"vetting", "reply", "opened", "packet"} /\ mWaitTime > MaxWait => cut
    /\ at = "vetting" /\ mWaitTime # 0 => mPacket = Empty
    /\ at = "got" /\ mPacket # Empty => mWaitTime = 0

IInv == AprsISTypeOK /\ DescriptorInv /\ LinkInv /\ HandshakeInv /\ SilenceInv

-----------------------------------------------------------------------------
(* Every step preserves each part. *)

\* What the server sends, and what a read at the end of the file makes up, are
\* lines.
LEMMA LinesKnown ==
    ASSUME version \in Versions
    PROVE  Upcoming \subseteq Lines /\ Newline \in Lines
BY DEF Upcoming, Lines, Ids

\* No identification is the empty string, and no wait that was given up is
\* mistaken for one that was not.
LEMMA PacketsDiffer ==
    /\ \A v : Id(v) # Empty
    /\ Newline # Empty
    /\ \A v : Id(v) \notin {Fragment, LogResp}
    /\ {Empty, Newline} \cap {Fragment, LogResp} = {}
    /\ Traffic \cap {Fragment, LogResp} = {}
BY AprsISAssumption DEF Id, Newline, Empty, Fragment, LogResp

\* Every step keeps the types.
LEMMA TypeStep ==
    ASSUME AprsISTypeOK, [Next]_vars
    PROVE  AprsISTypeOK'
<1> USE AprsISAssumption DEF AprsISTypeOK, Ats, Reading
<1>1. CASE Construct
  BY <1>1 DEF Construct, Fresh, Versions
<1>2. CASE \E fd \in Fds, v \in Versions : Connect(fd, v)
  BY <1>2 DEF Connect
<1>3. CASE ConnectFails
  BY <1>3 DEF ConnectFails, server
<1>4. CASE ResolveFails
  BY <1>4 DEF ResolveFails, server
<1>5. CASE Vet
  BY <1>5 DEF Vet, CloseSocket
<1>6. CASE CallGetPacket
  BY <1>6 DEF CallGetPacket, server
<1>7. CASE Close
  BY <1>7 DEF Close, CloseSocket
<1>8. CASE GetLine
  BY <1>8, LinesKnown DEF GetLine, Return, After
<1>9. CASE SilentSecond
  <2>1. CASE mWaitTime + 1 > MaxWait
    <3>1. /\ mWaitTime' = mWaitTime + 1
          /\ GiveUp
          /\ at \in Reading
          /\ UNCHANGED <<sock_fd, fds, mGoodServer, link, version, next>>
      BY <1>9, <2>1 DEF SilentSecond
    <3>2. mWaitTime' \in Nat
      BY <3>1
    <3>3. /\ at' \in Ats
          /\ mPacket' = Empty
          /\ torn' \in BOOLEAN /\ mid' \in BOOLEAN /\ cut' \in BOOLEAN
      BY <3>1 DEF GiveUp, Return, After
    <3> QED
      BY <3>1, <3>2, <3>3
  <2>2. CASE ~(mWaitTime + 1 > MaxWait)
    BY <1>9, <2>2 DEF SilentSecond
  <2> QED
    BY <2>1, <2>2
<1>10. CASE ReadEof
  BY <1>10, LinesKnown DEF ReadEof, Return, After, server
<1>11. CASE ReadError
  BY <1>11 DEF ReadError, server
<1>12. CASE PartialLine
  BY <1>12 DEF PartialLine, server
<1>13. CASE Interrupted
  BY <1>13 DEF Interrupted, GiveUp, Return, After
<1>14. CASE ServerCloses
  BY <1>14 DEF ServerCloses, object
<1>15. CASE LinkReset
  BY <1>15 DEF LinkReset, object
<1>16. CASE Die
  BY <1>16 DEF Die, Fresh, Versions
<1>17. CASE UNCHANGED vars
  BY <1>17 DEF vars, object, server
<1> QED
  BY <1>1, <1>2, <1>3, <1>4, <1>5, <1>6, <1>7, <1>8, <1>9, <1>10, <1>11, <1>12, <1>13, <1>14, <1>15, <1>16, <1>17 DEF Next, Opening, Wakeup

\* No step leaks a descriptor or leaves the program waiting on a closed one.
LEMMA DescriptorStep ==
    ASSUME AprsISTypeOK, DescriptorInv, LinkInv, [Next]_vars
    PROVE  DescriptorInv' /\ LinkInv'
<1> USE AprsISAssumption DEF AprsISTypeOK, Ats, Reading, Versions, Rejected, DescriptorInv, LinkInv
<1>1. CASE Construct
  BY <1>1 DEF Construct, Fresh
<1>2. CASE \E fd \in Fds, v \in Versions : Connect(fd, v)
  BY <1>2 DEF Connect
<1>3. CASE ConnectFails
  BY <1>3 DEF ConnectFails, server
<1>4. CASE ResolveFails
  BY <1>4 DEF ResolveFails, server
<1>5. CASE Vet
  BY <1>5 DEF Vet, CloseSocket
<1>6. CASE CallGetPacket
  BY <1>6 DEF CallGetPacket, server
<1>7. CASE Close
  BY <1>7 DEF Close, CloseSocket
<1>8. CASE GetLine
  BY <1>8 DEF GetLine, Return, After, Upcoming
<1>9. CASE SilentSecond
  BY <1>9 DEF SilentSecond, GiveUp, Return, After
<1>10. CASE ReadEof
  BY <1>10 DEF ReadEof, Return, After, server
<1>11. CASE ReadError
  BY <1>11 DEF ReadError, server
<1>12. CASE PartialLine
  BY <1>12 DEF PartialLine, server
<1>13. CASE Interrupted
  BY <1>13 DEF Interrupted, GiveUp, Return, After
<1>14. CASE ServerCloses
  BY <1>14 DEF ServerCloses, object
<1>15. CASE LinkReset
  BY <1>15 DEF LinkReset, object
<1>16. CASE Die
  BY <1>16 DEF Die, Fresh
<1>17. CASE UNCHANGED vars
  BY <1>17 DEF vars, object, server
<1> QED
  BY <1>1, <1>2, <1>3, <1>4, <1>5, <1>6, <1>7, <1>8, <1>9, <1>10, <1>11, <1>12, <1>13, <1>14, <1>15, <1>16, <1>17 DEF Next, Opening, Wakeup

\* No step gets openConnection out of step with the server unnoticed.
LEMMA HandshakeStep ==
    ASSUME AprsISTypeOK, LinkInv, HandshakeInv, [Next]_vars
    PROVE  HandshakeInv'
<1> USE PacketsDiffer DEF AprsISTypeOK, Ats, Reading, Versions, Rejected, LinkInv, HandshakeInv
<1>1. CASE Construct
  BY <1>1 DEF Construct, Fresh
<1>2. CASE \E fd \in Fds, v \in Versions : Connect(fd, v)
  BY <1>2 DEF Connect
<1>3. CASE ConnectFails
  BY <1>3 DEF ConnectFails, server
<1>4. CASE ResolveFails
  BY <1>4 DEF ResolveFails, server
<1>5. CASE Vet
  BY <1>5 DEF Vet, CloseSocket
<1>6. CASE CallGetPacket
  BY <1>6 DEF CallGetPacket, server
<1>7. CASE Close
  BY <1>7 DEF Close, CloseSocket
<1>8. CASE GetLine
  BY <1>8 DEF GetLine, Return, After, Upcoming
<1>9. CASE SilentSecond
  BY <1>9 DEF SilentSecond, GiveUp, Return, After
<1>10. CASE ReadEof
  <2>1. CASE Return(Newline)
    BY <1>10, <2>1 DEF ReadEof, Return, After, server
  <2>2. CASE at' = "spin" /\ UNCHANGED <<mPacket, mid, cut>>
    BY <1>10, <2>2 DEF ReadEof, server
  <2> QED
    BY <1>10, <2>1, <2>2 DEF ReadEof
<1>11. CASE ReadError
  BY <1>11 DEF ReadError, server
<1>12. CASE PartialLine
  BY <1>12 DEF PartialLine, server
<1>13. CASE Interrupted
  BY <1>13 DEF Interrupted, GiveUp, Return, After
<1>14. CASE ServerCloses
  BY <1>14 DEF ServerCloses, object
<1>15. CASE LinkReset
  BY <1>15 DEF LinkReset, object
<1>16. CASE Die
  BY <1>16 DEF Die, Fresh
<1>17. CASE UNCHANGED vars
  BY <1>17 DEF vars, object, server
<1> QED
  BY <1>1, <1>2, <1>3, <1>4, <1>5, <1>6, <1>7, <1>8, <1>9, <1>10, <1>11, <1>12, <1>13, <1>14, <1>15, <1>16, <1>17 DEF Next, Opening, Wakeup

\* No step lets the silence last longer than SilenceInv says.
LEMMA SilenceStep ==
    ASSUME AprsISTypeOK, SilenceInv, [Next]_vars
    PROVE  SilenceInv'
<1>0. MaxWait \in Nat
  BY AprsISAssumption
<1> USE <1>0 DEF AprsISTypeOK, Ats, Reading, Versions, Rejected, SilenceInv
<1>1. CASE Construct
  BY <1>1 DEF Construct, Fresh
<1>2. CASE \E fd \in Fds, v \in Versions : Connect(fd, v)
  BY <1>2 DEF Connect
<1>3. CASE ConnectFails
  BY <1>3 DEF ConnectFails, server
<1>4. CASE ResolveFails
  BY <1>4 DEF ResolveFails, server
<1>5. CASE Vet
  BY <1>5, PacketsDiffer DEF Vet, CloseSocket
<1>6. CASE CallGetPacket
  BY <1>6 DEF CallGetPacket, server
<1>7. CASE Close
  BY <1>7 DEF Close, CloseSocket
<1>8. CASE GetLine
  BY <1>8 DEF GetLine, Return, After, Upcoming
<1>9. CASE SilentSecond
  <2>1. CASE mWaitTime + 1 > MaxWait
    <3>1. /\ at \in Reading /\ at' = After(at)
          /\ mWaitTime' = mWaitTime + 1
          /\ mPacket' = Empty
          /\ at # "packet" => cut'
          /\ cut => cut'
      BY <1>9, <2>1 DEF SilentSecond, GiveUp, Return
    <3>2. CASE at = "packet"
      BY <3>1, <3>2 DEF After
    <3>3. CASE at = "reply"
      BY <3>1, <3>3 DEF After
    <3>4. CASE at = "greeting"
      BY <3>1, <3>4 DEF After
    <3> QED
      BY <3>1, <3>2, <3>3, <3>4
  <2>2. CASE ~(mWaitTime + 1 > MaxWait)
    BY <1>9, <2>2 DEF SilentSecond
  <2> QED
    BY <2>1, <2>2
<1>10. CASE ReadEof
  BY <1>10 DEF ReadEof, Return, After, server
<1>11. CASE ReadError
  BY <1>11 DEF ReadError, server
<1>12. CASE PartialLine
  BY <1>12 DEF PartialLine, server
<1>13. CASE Interrupted
  BY <1>13 DEF Interrupted, GiveUp, Return, After
<1>14. CASE ServerCloses
  BY <1>14 DEF ServerCloses, object
<1>15. CASE LinkReset
  BY <1>15 DEF LinkReset, object
<1>16. CASE Die
  BY <1>16 DEF Die, Fresh
<1>17. CASE UNCHANGED vars
  BY <1>17 DEF vars, object, server
<1> QED
  BY <1>1, <1>2, <1>3, <1>4, <1>5, <1>6, <1>7, <1>8, <1>9, <1>10, <1>11, <1>12, <1>13, <1>14, <1>15, <1>16, <1>17 DEF Next, Opening, Wakeup

-----------------------------------------------------------------------------
(* The theorems. *)

LEMMA InitEstablishes == Init => IInv
<1> SUFFICES ASSUME Init PROVE IInv
  OBVIOUS
<1>1. AprsISTypeOK
  BY DEF Init, AprsISTypeOK, Ats, Versions
<1>2. DescriptorInv /\ LinkInv
  BY DEF Init, DescriptorInv, LinkInv, Reading
<1>3. HandshakeInv
  BY DEF Init, HandshakeInv
<1>4. SilenceInv
  BY AprsISAssumption DEF Init, SilenceInv
<1> QED
  BY <1>1, <1>2, <1>3, <1>4 DEF IInv

LEMMA StepPreserves == IInv /\ [Next]_vars => IInv'
BY TypeStep, DescriptorStep, HandshakeStep, SilenceStep DEF IInv

LEMMA AlwaysIInv == Spec => []IInv
BY InitEstablishes, StepPreserves, PTL DEF Spec

\* Every state of the connection has the types stated in the model.
THEOREM TypeCorrect == Spec => []AprsISTypeOK
<1>1. IInv => AprsISTypeOK
  BY DEF IInv
<1> QED
  BY <1>1, AlwaysIInv, PTL

\* However servers are rejected, connections fail, sessions end and processes
\* die, no descriptor is leaked and none is used that is not open.
THEOREM NoDescriptorLeak == Spec => []DescriptorInv
<1>1. IInv => DescriptorInv
  BY DEF IInv
<1> QED
  BY <1>1, AlwaysIInv, PTL

\* With every wait of openConnection answered, main reads whole lines of the
\* feed of a server whose version was accepted.
THEOREM ReadsInStep == Spec => []InStep
<1>1. IInv => InStep
  BY DEF IInv, InStep, HandshakeInv
<1> QED
  BY <1>1, AlwaysIInv, PTL

\* For every MaxWait, the silence that getPacket bears is at most MaxWait + 1
\* seconds, and the two calls after a wait that was given up add one each.
THEOREM SilenceIsBounded == Spec => []WaitBound
<1>1. IInv => WaitBound
  BY DEF IInv, WaitBound, SilenceInv
<1> QED
  BY <1>1, AlwaysIInv, PTL

=============================================================================
