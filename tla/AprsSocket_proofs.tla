-------------------------- MODULE AprsSocket_proofs --------------------------
(***************************************************************************)
(* Proof that reading byte by byte and trying address by address is what   *)
(* AprsIS says in one step, and that the search loses no socket.           *)
(*                                                                         *)
(* A step of the reader is GetLine only if the string it returns is a line *)
(* that AprsIS expects: the invariant follows the bytes of a line from the *)
(* stream into the string, and what is left of a line that was torn.       *)
(* At the end, both loops are shown to leave less to do with each turn.    *)
(***************************************************************************)
EXTENDS AprsSocket, FiniteSetsExt, FiniteSetTheorems, WellFoundedInduction, TLAPS

\* What the stream has left of a line after k bytes, and what the string holds.
Left(line, k) == IF k = 1 THEN <<<<line, 2>>, CR, LF>>
                 ELSE IF k = 2 THEN <<CR, LF>> ELSE <<LF>>
Kept(line, k) == IF k = 1 THEN <<<<line, 1>>>> ELSE <<<<line, 1>>, <<line, 2>>>>

Whole(u, s) == \E line \in Upcoming, k \in 1 .. 3 : u = Left(line, k) /\ s = Kept(line, k)

Rest(u, s) == \E line \in Lines, k \in 1 .. 3 :
    /\ u = Left(line, k)
    /\ s \in {<<>>, <<<<line, 2>>>>}
    /\ s # <<>> => k > 1

Outside   == {"gone", "connecting", "refused"}
Connected == Reading \cup {"vetting", "opened", "got"}

ReaderInv ==
    /\ version \in Versions /\ mid \in BOOLEAN /\ torn \in BOOLEAN
    /\ at \in Reading => (mid <=> buf # None)
    /\ at \in (Outside \cup Connected) \ Reading => ~mid /\ buf = None /\ stringBuf = <<>>
    /\ at \notin Reading \cup {"spin"} => stringBuf = <<>>
    /\ buf # LF

StreamInv ==
    /\ Len(unread) <= 3
    /\ at \in Outside => unread = <<>>
    /\ at \in Connected =>
         /\ link # "none"
         /\ torn => Rest(unread, stringBuf)
         /\ ~torn /\ mid => Whole(unread, stringBuf)
         /\ ~torn /\ ~mid => unread = <<>> /\ stringBuf = <<>>

\* While the search goes on, an address is still to be visited or has refused.
SearchInv ==
    /\ trial \in Fds \cup {-1}
    /\ trial # -1 => candidates # {}
    /\ peers \in PeerLists \cup {<<>>}
    /\ peers = <<>> => refusals = {}
    /\ candidates \subseteq Visits(peers)
    /\ refusals \subseteq DOMAIN peers
    /\ at = "connecting" => \A c \in Visits(peers) \ candidates : c[2] \in refusals
    /\ NoSocketIsLost

IInv == ReaderInv /\ StreamInv /\ SearchInv

\* The bytes are distinct.
LEMMA BytesDiffer ==
    /\ CR # LF /\ Other # LF /\ None # LF /\ None # CR /\ None # Other
    /\ \A line, i : <<line, i>> # CR /\ <<line, i>> # LF /\ <<line, i>> # None
  BY DEF CR, LF, Other, None

LEMMA NothingIsShort == \A u : u = <<>> => Len(u) <= 3
  OBVIOUS

\* A string that a byte is appended to.
LEMMA Appends ==
    ASSUME NEW x, NEW y, NEW z
    PROVE  /\ Append(<<>>, x) = <<x>>
           /\ Append(<<x>>, y) = <<x, y>>
           /\ Append(<<x, y>>, z) = <<x, y, z>>
  <1> DEFINE one == Append(<<x>>, y)
             two == Append(<<x, y>>, z)
  <1>1. <<x>> \in Seq({x, y, z}) /\ <<x, y>> \in Seq({x, y, z})
    OBVIOUS
  <1>2. one \in Seq({x, y, z}) /\ Len(one) = 2 /\ one[1] = x /\ one[2] = y
    BY <1>1
  <1>3. two \in Seq({x, y, z}) /\ Len(two) = 3 /\ two[1] = x /\ two[2] = y /\ two[3] = z
    BY <1>1
  <1> HIDE DEF one, two
  <1>4. one = <<x, y>>
    BY <1>2
  <1>5. two = <<x, y, z>>
    BY <1>3
  <1>6. Append(<<>>, x) = <<x>>
    OBVIOUS
  <1> QED
    BY <1>4, <1>5, <1>6 DEF one, two

\* A visit is one of an address, and an empty list has none.
LEMMA VisitsFacts ==
    /\ \A list : \A c \in Visits(list) : c \in (1 .. 3) \X DOMAIN list
    /\ Visits(<<>>) = {}
  BY DEF Visits

\* A set of numbers has a least one.
LEMMA LeastExists ==
    ASSUME NEW S \in SUBSET Nat, S # {}
    PROVE  \E x \in S : \A y \in S : x <= y
  <1> DEFINE Less == {ss \in Nat \X Nat : ss[1] < ss[2]}
  <1>1. IsWellFoundedOn(Less, Nat)
    BY NatLessThanWellFounded, Zenon DEF OpToRel
  <1>2. PICK x \in S : \A y \in S : <<y, x>> \notin Less
    <2> HIDE DEF Less
    <2> QED
      BY <1>1, WFMin
  <1>3. ASSUME NEW y \in S
        PROVE  x <= y
    <2>1. x \in Nat /\ y \in Nat
      OBVIOUS
    <2>2. ~ (y < x)
      BY <1>2, <2>1
    <2> QED
      BY <2>1, <2>2
  <1> QED
    BY <1>3

\* The visit the loops are at: the least position of the least pass.
LEMMA CurrentIsFirst ==
    ASSUME candidates \subseteq Visits(peers), candidates # {}, peers \in PeerLists \cup {<<>>}
    PROVE  /\ Current \in candidates
           /\ \A d \in candidates \ {Current} : Before(Current, d)
  <1>1. \A c \in candidates : c \in Nat \X Nat /\ c = <<c[1], c[2]>>
    <2>1. DOMAIN peers \subseteq Nat
      <3>1. CASE peers \in PeerLists
        <4>1. peers \in Seq({"inet6", "inet"})
          BY <3>1, PeerListsAssumption
        <4> QED
          BY <4>1
      <3>2. CASE peers = <<>>
        BY <3>2
      <3> QED
        BY <3>1, <3>2
    <2>2. \A c \in Visits(peers) : c \in (1 .. 3) \X DOMAIN peers
      BY VisitsFacts
    <2> QED
      BY <2>1, <2>2
  <1> DEFINE Passes == {c[1] : c \in candidates}
  <1>2. PICK i \in Passes : \A j \in Passes : i <= j
    <2>1. Passes \in SUBSET Nat /\ Passes # {}
      BY <1>1
    <2> HIDE DEF Passes
    <2> QED
      BY <2>1, LeastExists
  <1> DEFINE Positions == {c[2] : c \in {d \in candidates : d[1] = i}}
  <1>3. PICK p \in Positions : \A q \in Positions : p <= q
    <2>1. Positions \in SUBSET Nat /\ Positions # {}
      BY <1>1
    <2> HIDE DEF Positions
    <2> QED
      BY <2>1, LeastExists
  <1>4. <<i, p>> \in candidates
    BY <1>1
  <1>5. ASSUME NEW d \in candidates, d # <<i, p>>
        PROVE  Before(<<i, p>>, d)
    <2>1. i <= d[1] /\ i \in Nat /\ d[1] \in Nat /\ d[2] \in Nat /\ p \in Nat
      BY <1>1, <1>2, <1>4
    <2>2. CASE i = d[1]
      <3>1. p <= d[2] /\ d = <<i, d[2]>>
        BY <1>1, <1>3, <2>2
      <3> QED
        BY <1>5, <2>1, <2>2, <3>1 DEF Before
    <2> QED
      BY <2>1, <2>2 DEF Before
  <1>6. \E c \in candidates : \A d \in candidates \ {c} : Before(c, d)
    BY <1>4, <1>5
  <1> QED
    BY <1>6 DEF Current

LEMMA InitInv == SocketInit => IInv
  BY BytesDiffer, VisitsFacts, NothingIsShort
  DEF SocketInit, Init, IInv, ReaderInv, StreamInv, SearchInv, NoSocketIsLost, Outside, Connected,
      Reading, Versions

\* A line that is expected is a line.
LEMMA UpcomingAreLines ==
    ASSUME version \in Versions
    PROVE  Upcoming \subseteq Lines
  BY DEF Upcoming, Lines, Ids

\* The whole of a line, when its terminator is read, is that line.
LEMMA WholeIsTheLine ==
    ASSUME NEW line \in Lines
    PROVE  AsPacket(<<<<line, 1>>, <<line, 2>>, LF>>) = line
  <1> DEFINE string == <<<<line, 1>>, <<line, 2>>, LF>>
  <1>1. string # <<LF>>
    BY Len(string) = 3, Len(<<LF>>) = 1
  <1>2. string[1][1] = line
    OBVIOUS
  <1> QED
    BY <1>1, <1>2 DEF AsPacket

\* What is left of one is a fragment, or no more than a terminator.
LEMMA RestIsFragment ==
    /\ AsPacket(<<LF>>) = Newline
    /\ \A byte : AsPacket(<<byte, LF>>) = Fragment
  <1>1. \A byte : <<byte, LF>> # <<LF>>
    <2> TAKE byte
    <2> QED
      BY Len(<<byte, LF>>) = 2, Len(<<LF>>) = 1
  <1>2. \A byte, line : <<byte, LF>> # <<<<line, 1>>, <<line, 2>>, LF>>
    <2> TAKE byte, line
    <2> QED
      BY Len(<<byte, LF>>) = 2, Len(<<<<line, 1>>, <<line, 2>>, LF>>) = 3
  <1> QED
    BY <1>1, <1>2 DEF AsPacket

\* What is left of a line is at most three bytes, and what is kept two.
LEMMA StringsAreShort ==
    ASSUME NEW u, NEW s
    PROVE  Whole(u, s) \/ Rest(u, s) => Len(s) <= 2 /\ Len(u) <= 3
  <1>1. ASSUME NEW line, NEW k \in 1 .. 3
        PROVE  Len(Left(line, k)) <= 3 /\ Len(Kept(line, k)) <= 2
    BY DEF Left, Kept
  <1>2. ASSUME NEW line
        PROVE  \A t \in {<<>>, <<<<line, 2>>>>} : Len(t) <= 2
    OBVIOUS
  <1> QED
    BY <1>1, <1>2 DEF Whole, Rest

-----------------------------------------------------------------------------
(* One byte. *)

\* A byte that is not a terminator moves from the stream to the string.
LEMMA NextByte ==
    ASSUME IInv, at \in Reading, link = "up", NEW bytes \in Stream, Head(bytes) # LF
    PROVE  /\ torn => Rest(Tail(bytes), Appended(Head(bytes)))
           /\ ~torn => Whole(Tail(bytes), Appended(Head(bytes)))
           /\ Head(bytes) # None
  <1>1. CASE unread = <<>>
    <2>1. ~torn /\ stringBuf = <<>>
      <3>1. ~Rest(<<>>, stringBuf)
        BY DEF Rest, Left
      <3> QED
        BY <1>1, <3>1 DEF IInv, StreamInv, ReaderInv, Connected, Whole, Left
    <2>2. PICK line \in Upcoming : bytes = Bytes(line)
      BY <1>1 DEF Stream
    <2>3. Head(bytes) = <<line, 1>> /\ Tail(bytes) = Left(line, 1)
      BY <2>2 DEF Bytes, Left
    <2>4. Appended(Head(bytes)) = Kept(line, 1)
      BY <2>1, <2>3, BytesDiffer, Appends DEF Appended, Kept
    <2>5. Whole(Tail(bytes), Appended(Head(bytes)))
      BY <2>2, <2>3, <2>4 DEF Whole
    <2> QED
      BY <2>1, <2>3, <2>5, BytesDiffer
  <1>2. CASE unread # <<>> /\ ~torn
    <2>1. bytes = unread
      BY <1>2 DEF Stream
    <2>2. PICK line \in Upcoming, k \in 1 .. 3 : unread = Left(line, k) /\ stringBuf = Kept(line, k)
      BY <1>2 DEF IInv, StreamInv, Connected, Whole
    <2>3. CASE k = 1
      <3>1. Head(bytes) = <<line, 2>> /\ Tail(bytes) = Left(line, 2) /\ stringBuf = <<<<line, 1>>>>
        BY <2>1, <2>2, <2>3 DEF Left, Kept
      <3>2. Appended(Head(bytes)) = Append(<<<<line, 1>>>>, <<line, 2>>)
        BY <3>1, BytesDiffer DEF Appended
      <3>3. Appended(Head(bytes)) = Kept(line, 2)
        BY <3>2, Appends DEF Kept
      <3> QED
        BY <1>2, <3>1, <3>3, BytesDiffer DEF Whole
    <2>4. CASE k = 2
      <3>1. Head(bytes) = CR /\ Tail(bytes) = Left(line, 3) /\ stringBuf = Kept(line, 3)
        BY <2>1, <2>2, <2>4 DEF Left, Kept
      <3> QED
        BY <1>2, <3>1, BytesDiffer DEF Whole, Appended
    <2>5. CASE k = 3
      BY <2>1, <2>2, <2>5 DEF Left
    <2> QED
      BY <2>3, <2>4, <2>5
  <1>3. CASE unread # <<>> /\ torn
    <2>1. bytes = unread
      BY <1>3 DEF Stream
    <2>2. PICK line \in Lines, k \in 1 .. 3 :
            /\ unread = Left(line, k)
            /\ stringBuf \in {<<>>, <<<<line, 2>>>>}
            /\ stringBuf # <<>> => k > 1
      BY <1>3 DEF IInv, StreamInv, Connected, Rest
    <2>3. CASE k = 1
      <3>1. Head(bytes) = <<line, 2>> /\ Tail(bytes) = Left(line, 2) /\ stringBuf = <<>>
        BY <2>1, <2>2, <2>3 DEF Left
      <3>2. Appended(Head(bytes)) = <<<<line, 2>>>>
        BY <3>1, BytesDiffer, Appends DEF Appended
      <3> QED
        BY <1>3, <3>1, <3>2, BytesDiffer DEF Rest
    <2>4. CASE k = 2
      <3>1. Head(bytes) = CR /\ Tail(bytes) = Left(line, 3)
        BY <2>1, <2>2, <2>4 DEF Left
      <3> QED
        BY <1>3, <2>2, <3>1, BytesDiffer DEF Rest, Appended
    <2>5. CASE k = 3
      BY <2>1, <2>2, <2>5 DEF Left
    <2> QED
      BY <2>3, <2>4, <2>5
  <1> QED
    BY <1>1, <1>2, <1>3

\* The terminator ends a line that AprsIS expects, and is the last of its bytes.
LEMMA LastByte ==
    ASSUME IInv, at \in Reading, link = "up", NEW bytes \in Stream, Head(bytes) = LF
    PROVE  Tail(bytes) = <<>> /\ AsPacket(Appended(LF)) \in Upcoming
  <1>1. unread # <<>> /\ bytes = unread
    <2>1. ASSUME NEW line
          PROVE  Head(Bytes(line)) # LF
      BY BytesDiffer DEF Bytes
    <2> QED
      BY <2>1 DEF Stream
  <1>2. Appended(LF) = Append(stringBuf, LF)
    BY BytesDiffer DEF Appended
  <1>3. ASSUME NEW line, NEW k \in 1 .. 3, unread = Left(line, k)
        PROVE  k = 3 /\ Tail(bytes) = <<>>
    BY <1>1, <1>3, BytesDiffer DEF Left
  <1>4. CASE ~torn
    <2>1. PICK line \in Upcoming, k \in 1 .. 3 : unread = Left(line, k) /\ stringBuf = Kept(line, k)
      BY <1>1, <1>4 DEF IInv, StreamInv, Connected, Whole
    <2>2. k = 3 /\ Tail(bytes) = <<>>
      BY <1>3, <2>1
    <2>3. Append(stringBuf, LF) = <<<<line, 1>>, <<line, 2>>, LF>>
      <3>1. stringBuf = <<<<line, 1>>, <<line, 2>>>>
        BY <2>1, <2>2 DEF Kept
      <3> QED
        BY <3>1, Appends
    <2>4. line \in Lines
      BY <2>1, UpcomingAreLines DEF IInv, ReaderInv
    <2> QED
      BY <1>2, <2>1, <2>2, <2>3, <2>4, WholeIsTheLine
  <1>5. CASE torn
    <2>1. PICK line \in Lines, k \in 1 .. 3 :
            unread = Left(line, k) /\ stringBuf \in {<<>>, <<<<line, 2>>>>}
      BY <1>5 DEF IInv, StreamInv, Connected, Rest
    <2>2. Tail(bytes) = <<>>
      BY <1>3, <2>1
    <2>3. \/ Append(stringBuf, LF) = <<LF>>
          \/ Append(stringBuf, LF) = <<<<line, 2>>, LF>>
      BY <2>1, Appends
    <2> QED
      BY <1>2, <1>5, <2>2, <2>3, RestIsFragment DEF Upcoming
  <1> QED
    BY <1>4, <1>5

-----------------------------------------------------------------------------
(* The implementation. *)

\* A byte that is read is a part of a line to AprsIS, or its end.
LEMMA ReadByteImplements ==
    ASSUME IInv, ReadByte
    PROVE  PartialLine \/ GetLine
  <1>1. PICK bytes \in Stream : ReadByte!4!(bytes)
    BY DEF ReadByte
  <1>2. CASE Head(bytes) = LF
    <2>1. AsPacket(Appended(LF)) \in Upcoming
      BY <1>2, LastByte DEF ReadByte
    <2>2. Return(AsPacket(Appended(LF)))
      BY <1>1, <1>2
    <2> QED
      BY <1>1, <1>2, <2>1, <2>2 DEF ReadByte, GetLine
  <1>3. CASE Head(bytes) # LF
    BY <1>1, <1>3 DEF ReadByte, PartialLine, server
  <1> QED
    BY <1>2, <1>3

\* The byte that was there before is the terminator only if there was none.
LEMMA ReadNothingImplements ==
    ASSUME IInv, ReadNothing
    PROVE  ReadEof
  BY BytesDiffer DEF ReadNothing, ReadEof, IInv, ReaderInv

LEMMA StepImplements ==
    ASSUME IInv, [SocketNext]_<<vars, search, reader>>
    PROVE  [Next]_vars
  <1>1. CASE UNCHANGED <<vars, search, reader>>
    BY <1>1
  <1>2. CASE FindPeerInfo
    <2>1. ASSUME NEW v \in Versions, PeerAccepts(v)
          PROVE  Next
      <3>1. trial \in Fds /\ Connect(trial, v)
        BY <2>1 DEF PeerAccepts, IInv, SearchInv
      <3> QED
        BY <3>1 DEF Next, Opening
    <2>2. CASE DoNotResolve \/ NoPeer
      BY <2>2 DEF DoNotResolve, NoPeer, Next, Opening
    <2>3. ASSUME NEW list \in PeerLists, Resolve(list)
          PROVE  UNCHANGED vars
      BY <2>3 DEF Resolve
    <2>4. ASSUME NEW fd \in Fds, OpenSocket(fd)
          PROVE  UNCHANGED vars
      BY <2>4 DEF OpenSocket
    <2>5. CASE PeerRefuses
      BY <2>5 DEF PeerRefuses
    <2> QED
      BY <1>2, <2>1, <2>2, <2>3, <2>4, <2>5 DEF FindPeerInfo
  <1>3. CASE ReadByte \/ ReadNothing
    BY <1>3, ReadByteImplements, ReadNothingImplements DEF Next, Wakeup
  <1>4. CASE Caller
    BY <1>4 DEF Caller, Next, Opening
  <1>5. CASE Waiting \/ Network \/ Death
    BY <1>5 DEF Waiting, Network, Death, Next, Wakeup
  <1> QED
    BY <1>1, <1>2, <1>3, <1>4, <1>5 DEF SocketNext

-----------------------------------------------------------------------------
(* The invariant. *)

LEMMA SearchStep ==
    ASSUME IInv, [SocketNext]_<<vars, search, reader>>
    PROVE  SearchInv'
  <1> USE AprsISAssumption DEF IInv, SearchInv, NoSocketIsLost
  <1>1. CASE UNCHANGED <<vars, search, reader>>
    BY <1>1 DEF vars, object, search
  <1>2. CASE FindPeerInfo
    <2>1. ASSUME NEW list \in PeerLists, Resolve(list)
          PROVE  SearchInv'
      BY <2>1, PeerListsAssumption DEF Resolve, vars, object, Visits
    <2>2. ASSUME NEW fd \in Fds, OpenSocket(fd)
          PROVE  SearchInv'
      BY <2>2 DEF OpenSocket, vars, object
    <2>3. ASSUME NEW v \in Versions, PeerAccepts(v)
          PROVE  SearchInv'
      BY <2>3 DEF PeerAccepts, Connect
    <2>4. CASE PeerRefuses
      <3>1. Current \in candidates /\ Current[2] \in DOMAIN peers
        BY <2>4, CurrentIsFirst, VisitsFacts DEF PeerRefuses
      <3>2. /\ trial' = -1 /\ trials' = {} /\ UNCHANGED <<at, fds, peers>>
            /\ refusals' = refusals \cup {Current[2]}
            /\ candidates' = candidates \ {Current}
        BY <2>4 DEF PeerRefuses, vars, object
      <3>3. \A c \in Visits(peers) \ candidates' : c[2] \in refusals'
        BY <2>4, <3>2 DEF PeerRefuses
      <3>4. peers # <<>> /\ refusals' \subseteq DOMAIN peers
        BY <3>1, <3>2
      <3> QED
        BY <3>2, <3>3, <3>4
    <2>5. CASE DoNotResolve \/ NoPeer
      <3>1. at' \in {"thrown", "refused"} /\ UNCHANGED fds /\ UNCHANGED search /\ candidates = {}
        BY <2>5, VisitsFacts DEF DoNotResolve, NoPeer, ResolveFails, ConnectFails
      <3> QED
        BY <3>1 DEF search
    <2> QED
      BY <1>2, <2>1, <2>2, <2>3, <2>4, <2>5 DEF FindPeerInfo
  <1>3. CASE ReadByte \/ ReadNothing
    <2>1. at \in Reading /\ at' # "connecting" /\ UNCHANGED fds /\ UNCHANGED search
      BY <1>3 DEF ReadByte, ReadNothing, Return, After, Reading
    <2> QED
      BY <2>1 DEF search, Reading
  <1>4. CASE Caller
    <2>1. CASE (Construct \/ Vet) /\ NewSearch
      BY <2>1, VisitsFacts DEF Construct, Fresh, Vet, CloseSocket, NewSearch
    <2>2. CASE (CallGetPacket \/ Close) /\ UNCHANGED search
      BY <2>2 DEF CallGetPacket, Close, CloseSocket, search
    <2> QED
      BY <1>4, <2>1, <2>2 DEF Caller
  <1>5. CASE Waiting \/ Network
    <2>1. CASE Waiting
      <3>1. at # "connecting" /\ at' # "connecting" /\ UNCHANGED fds /\ UNCHANGED search
        BY <2>1 DEF Waiting, SilentSecond, Interrupted, ReadError, GiveUp, Return, After, Reading
      <3> QED
        BY <3>1 DEF search
    <2>2. CASE Network
      BY <2>2 DEF Network, ServerCloses, LinkReset, object, search
    <2> QED
      BY <1>5, <2>1, <2>2
  <1>6. CASE Death
    BY <1>6, VisitsFacts DEF Death, Die, Fresh
  <1> QED
    BY <1>1, <1>2, <1>3, <1>4, <1>5, <1>6 DEF SocketNext

LEMMA ReaderStep ==
    ASSUME IInv, [SocketNext]_<<vars, search, reader>>
    PROVE  ReaderInv' /\ StreamInv'
  <1> USE DEF IInv, ReaderInv, StreamInv, Outside, Connected, Reading
  <1>1. CASE UNCHANGED <<vars, search, reader>>
    BY <1>1 DEF vars, object, server, reader, Whole, Rest, Upcoming
  <1>2. CASE FindPeerInfo
    <2>1. CASE UNCHANGED vars /\ UNCHANGED reader
      BY <2>1 DEF vars, object, server, reader, Whole, Rest, Upcoming
    <2>2. ASSUME NEW v \in Versions, PeerAccepts(v)
          PROVE  ReaderInv' /\ StreamInv'
      BY <2>2 DEF PeerAccepts, Connect, reader
    <2>3. CASE DoNotResolve \/ NoPeer
      BY <2>3 DEF DoNotResolve, NoPeer, ResolveFails, ConnectFails, reader, server
    <2> QED
      BY <1>2, <2>1, <2>2, <2>3 DEF FindPeerInfo, Resolve, OpenSocket, PeerRefuses
  <1>3. CASE ReadByte
    <2>1. PICK bytes \in Stream : ReadByte!4!(bytes)
      BY <1>3 DEF ReadByte
    <2>2. CASE Head(bytes) = LF
      <3>1. unread' = <<>> /\ stringBuf' = <<>> /\ buf' = None
            /\ torn' = FALSE /\ mid' = FALSE /\ at' = After(at) /\ UNCHANGED <<link, version>>
        BY <1>3, <2>1, <2>2, LastByte DEF ReadByte, Return
      <3> QED
        BY <1>3, <3>1, BytesDiffer, NothingIsShort DEF ReadByte, After
    <2>3. CASE Head(bytes) # LF
      <3>1. /\ unread' = Tail(bytes) /\ stringBuf' = Appended(Head(bytes)) /\ buf' = Head(bytes)
            /\ mid' /\ UNCHANGED <<at, link, version, next, torn>>
        BY <1>3, <2>1, <2>3 DEF ReadByte
      <3>2. /\ torn => Rest(unread', stringBuf')
            /\ ~torn => Whole(unread', stringBuf')
            /\ buf' # None
        BY <1>3, <2>3, <3>1, NextByte DEF ReadByte
      <3>3. Upcoming' = Upcoming
        BY <3>1 DEF Upcoming
      <3>4. Len(unread') <= 3
        BY <3>2, StringsAreShort
      <3> QED
        BY <1>3, <2>3, <3>1, <3>2, <3>3, <3>4 DEF ReadByte, Whole, Rest
    <2> QED
      BY <2>2, <2>3
  <1>4. CASE ReadNothing
    <2>1. UNCHANGED <<link, version, next, torn, unread>>
      BY <1>4 DEF ReadNothing, server
    <2>2. CASE at' = "spin"
      <3>1. PICK byte : byte \in {CR, Other, buf} /\ byte # None /\ byte # LF /\ buf' = byte
        BY <1>4, <2>2, BytesDiffer DEF ReadNothing, Return, After
      <3> QED
        BY <1>4, <2>1, <2>2, <3>1 DEF ReadNothing, Return, After
    <2>3. CASE at' # "spin"
      <3>1. stringBuf' = <<>> /\ buf' = None /\ mid' = FALSE /\ at' = After(at) /\ ~mid
        BY <1>4, <2>3, BytesDiffer DEF ReadNothing, Return
      <3>2. torn' => Rest(unread', stringBuf')
        BY <1>4, <2>1, <3>1 DEF ReadNothing, Rest
      <3> QED
        BY <1>4, <2>1, <3>1, <3>2, BytesDiffer DEF ReadNothing, After
    <2> QED
      BY <2>2, <2>3
  <1>5. CASE Caller
    <2>1. CASE Construct
      BY <1>5, <2>1 DEF Caller, Construct, Fresh, Local, StreamStands, Versions
    <2>2. CASE Vet
      BY <1>5, <2>2 DEF Caller, Vet, CloseSocket, Local, StreamStands, Rest
    <2>3. CASE CallGetPacket
      BY <1>5, <2>3 DEF Caller, CallGetPacket, server, Local, StreamStands, Rest
    <2>4. CASE Close
      BY <1>5, <2>4 DEF Caller, Close, CloseSocket, Local, StreamStands
    <2> QED
      BY <1>5, <2>1, <2>2, <2>3, <2>4 DEF Caller
  <1>6. CASE Waiting
    <2>1. CASE GiveUp /\ at \in Reading /\ UNCHANGED <<link, version, next, unread>> /\ Local
      <3>1. stringBuf' = <<>> /\ buf' = None /\ mid' = FALSE /\ at' = After(at) /\ torn' = (torn \/ mid)
        BY <2>1 DEF GiveUp, Return, Local, After
      <3>2. torn' => Rest(unread', stringBuf')
        BY <2>1, <3>1, UpcomingAreLines DEF Rest, Whole
      <3> QED
        BY <2>1, <3>1, <3>2, BytesDiffer DEF After
    <2>2. CASE UNCHANGED <<at, mid, torn, link, version, next, unread>> /\ Local
      BY <2>2 DEF Local, Whole, Rest, Upcoming
    <2>3. CASE ReadError /\ Local
      BY <2>3, <1>6, BytesDiffer DEF ReadError, server, Local, Waiting
    <2> QED
      BY <1>6, <2>1, <2>2, <2>3 DEF Waiting, SilentSecond, Interrupted
  <1>7. CASE Network
    BY <1>7 DEF Network, ServerCloses, LinkReset, object, reader, Whole, Rest, Upcoming
  <1>8. CASE Death
    BY <1>8, BytesDiffer, NothingIsShort DEF Death, Die, Fresh, Versions
  <1> QED
    BY <1>1, <1>2, <1>3, <1>4, <1>5, <1>6, <1>7, <1>8 DEF SocketNext

LEMMA Invariance == SocketSpec => []IInv
  <1>1. IInv /\ [SocketNext]_<<vars, search, reader>> => IInv'
    BY SearchStep, ReaderStep DEF IInv
  <1> QED
    BY <1>1, InitInv, PTL DEF SocketSpec

\* For every server, feed, list of addresses and limit of patience: getPacket and
\* findPeerInfo, in all their steps, do what AprsIS says and nothing else.
THEOREM SocketImplementsAprsIS == SocketSpec => ImplementsAprsIS
  <1>1. SocketInit => Init
    BY DEF SocketInit
  <1>2. IInv /\ [SocketNext]_<<vars, search, reader>> => [Next]_vars
    BY StepImplements
  <1> QED
    BY <1>1, <1>2, Invariance, PTL DEF SocketSpec, Spec, ImplementsAprsIS

\* No interleaving of refusals, sessions and deaths leaves a socket behind.
THEOREM SearchLosesNoSocket == SocketSpec => []NoSocketIsLost
  <1>1. IInv => NoSocketIsLost
    BY DEF IInv, SearchInv
  <1> QED
    BY <1>1, Invariance, PTL

\* Both loops, however addresses accept and refuse: none is passed over, and
\* none of the second preference is connected to while one of the first is left.
THEOREM SearchVisitsInOrder == SocketSpec => SearchesInOrder
  <1>1. ASSUME IInv, [SocketNext]_<<vars, search, reader>>, at = "connecting", at' = "refused"
        PROVE  refusals = DOMAIN peers
    <2>1. peers # <<>> /\ candidates = {}
      BY <1>1 DEF SocketNext, FindPeerInfo, Resolve, OpenSocket, PeerAccepts, Connect, PeerRefuses,
                  NoPeer, DoNotResolve, ResolveFails, ReadByte, ReadNothing,
                  Caller, Construct, Vet, CallGetPacket, Close, Waiting, SilentSecond, Interrupted,
                  ReadError, Network, ServerCloses, LinkReset, Death, Die, vars, object, Reading
    <2>2. ASSUME NEW i \in DOMAIN peers
          PROVE  i \in refusals
      <3>1. <<3, i>> \in Visits(peers)
        BY DEF Visits, ai_family_preference
      <3> QED
        BY <1>1, <2>1, <3>1 DEF IInv, SearchInv
    <2> QED
      BY <1>1, <2>2 DEF IInv, SearchInv
  <1>2. ASSUME IInv, [SocketNext]_<<vars, search, reader>>, at = "connecting", at' = "greeting",
               peers[Current[2]] = "inet", NEW i \in DOMAIN peers, peers[i] = "inet6"
        PROVE  i \in refusals
    <2>1. candidates # {}
      BY <1>2 DEF SocketNext, FindPeerInfo, Resolve, OpenSocket, PeerAccepts, PeerRefuses, IInv,
                  NoPeer, ConnectFails, DoNotResolve, ResolveFails, ReadByte, ReadNothing, 
          Caller, Construct, Vet, CallGetPacket, Close, Waiting, SilentSecond,
                  Interrupted, ReadError, Network, ServerCloses, LinkReset, Death, Die, vars, object,
                  Reading, SearchInv
    <2>2. Current \in Visits(peers) /\ \A d \in candidates \ {Current} : Before(Current, d)
      BY <1>2, <2>1, CurrentIsFirst DEF IInv, SearchInv
    <2>3. Current[1] \in 2 .. 3
      BY <1>2, <2>2 DEF Visits, ai_family_preference
    <2>4. <<1, i>> \in Visits(peers)
      BY <1>2 DEF Visits, ai_family_preference
    <2>5. <<1, i>> \notin candidates
      BY <2>2, <2>3 DEF Before
    <2> QED
      BY <1>2, <2>4, <2>5 DEF IInv, SearchInv
  <1>3. IInv /\ [SocketNext]_<<vars, search, reader>> =>
          [at = "connecting" =>
             /\ at' = "refused" => refusals = DOMAIN peers
             /\ at' = "greeting" /\ peers[Current[2]] = "inet" =>
                  \A i \in DOMAIN peers : peers[i] = "inet6" => i \in refusals]_<<vars, search>>
    BY <1>1, <1>2
  <1> QED
    BY <1>3, Invariance, PTL DEF SocketSpec, SearchesInOrder

\* The search and the reader have their types, and the string that getPacket
\* builds is never longer than a line, unless it has met the end of the file.
THEOREM SocketIsTyped == SocketSpec => []SocketTypeOK
  <1>1. IInv => SocketTypeOK
    <2> SUFFICES ASSUME IInv
                 PROVE  SocketTypeOK
      OBVIOUS
    <2>1. candidates \subseteq (1 .. 3) \X DOMAIN peers
      BY VisitsFacts DEF IInv, SearchInv
    <2>2. trials \subseteq Fds
      BY DEF IInv, SearchInv, NoSocketIsLost
    <2>3. ASSUME at # "spin"
          PROVE  Len(stringBuf) <= 2 /\ Len(unread) <= 3
      <3>1. CASE at \in Reading
        BY <3>1, StringsAreShort DEF IInv, StreamInv, ReaderInv, Connected
      <3>2. CASE at \notin Reading
        BY <2>3, <3>2 DEF IInv, StreamInv, ReaderInv
      <3> QED
        BY <3>1, <3>2
    <2> QED
      BY <2>1, <2>2, <2>3 DEF IInv, SearchInv, ReaderInv, SocketTypeOK
  <1> QED
    BY <1>1, Invariance, PTL

-----------------------------------------------------------------------------
(* The search comes to an end. *)

\* What the loops of findPeerInfo have still to do: to open a socket and to
\* connect it, for each visit.
ToTry == 2 * Cardinality(candidates) + (IF trial = -1 THEN 1 ELSE 0)

\* Every step of the search but its last leaves less to do, and there is never
\* more to do than three visits to each address.
SearchAdvances ==
    [][at = "connecting" /\ at' = "connecting" /\ peers # <<>> =>
         /\ ToTry \in 0 .. 6 * Len(peers) + 1
         /\ ToTry' \in Nat /\ ToTry' < ToTry]_search

\* The visits are finitely many, and so are those still to make.
LEMMA CandidatesAreFew ==
    ASSUME SearchInv
    PROVE  /\ IsFiniteSet(candidates)
           /\ Cardinality(candidates) \in Nat
           /\ Len(peers) \in Nat
           /\ Cardinality(candidates) <= 3 * Len(peers)
  <1>1. Len(peers) \in Nat /\ DOMAIN peers = 1 .. Len(peers)
    <2>1. CASE peers \in PeerLists
      <3>1. peers \in Seq({"inet6", "inet"})
        BY <2>1, PeerListsAssumption
      <3> QED
        BY <3>1
    <2>2. CASE peers = <<>>
      BY <2>2
    <2> QED
      BY <2>1, <2>2 DEF SearchInv
  <1>2. \A n \in Nat : IsFiniteSet(1 .. n) /\ Cardinality(1 .. n) = n
    <2> TAKE n \in Nat
    <2>1. IsFiniteSet(1 .. n) /\ Cardinality(1 .. n) = (IF 1 > n THEN 0 ELSE n - 1 + 1)
      BY FS_Interval
    <2>2. (IF 1 > n THEN 0 ELSE n - 1 + 1) = n
      OBVIOUS
    <2> QED
      BY <2>1, <2>2
  <1>3. IsFiniteSet(1 .. 3) /\ Cardinality(1 .. 3) = 3
    BY <1>2
  <1> DEFINE Passes == 1 .. 3
             Positions == 1 .. Len(peers)
             All == Passes \X Positions
  <1>4. IsFiniteSet(All) /\ Cardinality(All) = 3 * Len(peers)
    <2>1. /\ IsFiniteSet(Passes) /\ Cardinality(Passes) = 3
          /\ IsFiniteSet(Positions) /\ Cardinality(Positions) = Len(peers)
      BY <1>1, <1>2, <1>3
    <2> HIDE DEF Passes, Positions
    <2>2. /\ IsFiniteSet(Passes \X Positions)
          /\ Cardinality(Passes \X Positions) = Cardinality(Passes) * Cardinality(Positions)
      BY <2>1, FS_Product, Zenon
    <2> QED
      BY <2>1, <2>2
  <1>5. candidates \in SUBSET All
    BY <1>1, VisitsFacts DEF SearchInv
  <1> HIDE DEF All
  <1>6. IsFiniteSet(candidates) /\ Cardinality(candidates) <= Cardinality(All)
    BY <1>4, <1>5, FS_Subset
  <1>7. Cardinality(candidates) \in Nat
    BY <1>6, FS_CardinalityType
  <1> QED
    BY <1>1, <1>4, <1>6, <1>7

\* findPeerInfo cannot go round for ever, whatever addresses getaddrinfo returns
\* and whichever of them refuse: an address is tried once in each pass, and the
\* search ends with a connection, a refusal of all, or an exception.
THEOREM SearchTakesBoundedSteps == SocketSpec => SearchAdvances
  <1>1. ASSUME IInv, [SocketNext]_<<vars, search, reader>>, ~UNCHANGED search,
               at = "connecting", at' = "connecting", peers # <<>>
        PROVE  /\ ToTry \in 0 .. 6 * Len(peers) + 1
               /\ ToTry' \in Nat /\ ToTry' < ToTry
    <2>1. /\ IsFiniteSet(candidates)
          /\ Cardinality(candidates) \in Nat
          /\ Len(peers) \in Nat
          /\ Cardinality(candidates) <= 3 * Len(peers)
      BY <1>1, CandidatesAreFew DEF IInv
    <2>2. ToTry \in 0 .. 6 * Len(peers) + 1
      BY <2>1 DEF ToTry
    <2>3. CASE \E fd \in Fds : OpenSocket(fd)
      <3>1. trial = -1 /\ trial' # -1 /\ candidates' = candidates
        BY <2>3, AprsISAssumption DEF OpenSocket
      <3> QED
        BY <2>1, <2>2, <3>1 DEF ToTry
    <2>4. CASE PeerRefuses
      <3>1. candidates # {} /\ trial' = -1 /\ candidates' = candidates \ {Current}
        BY <2>4 DEF PeerRefuses
      <3>2. Current \in candidates
        BY <1>1, <3>1, CurrentIsFirst DEF IInv, SearchInv
      <3>3. Cardinality(candidates') = Cardinality(candidates) - 1
        BY <2>1, <3>1, <3>2, FS_RemoveElement
      <3>4. Cardinality(candidates') \in Nat
        BY <2>1, <3>1, FS_RemoveElement, FS_CardinalityType
      <3> QED
        BY <2>1, <2>2, <3>1, <3>3, <3>4 DEF ToTry
    <2> QED
      BY <1>1, <2>2, <2>3, <2>4
      DEF SocketNext, FindPeerInfo, Resolve, PeerAccepts, Connect, NoPeer, ConnectFails,
          DoNotResolve, ResolveFails, ReadByte, ReadNothing, Caller,
          Construct, Vet, CallGetPacket, Close, Waiting, SilentSecond, Interrupted, ReadError,
          Network, Death, Die, search, vars, Reading
  <1>2. IInv /\ [SocketNext]_<<vars, search, reader>> =>
          [at = "connecting" /\ at' = "connecting" /\ peers # <<>> =>
             /\ ToTry \in 0 .. 6 * Len(peers) + 1
             /\ ToTry' \in Nat /\ ToTry' < ToTry]_search
    BY <1>1
  <1> QED
    BY <1>2, Invariance, PTL DEF SocketSpec, SearchAdvances

-----------------------------------------------------------------------------
(* A call of getPacket comes to an end. *)

\* The bytes up to the end of the line, and the seconds the silence may go on.
BytesToRead   == IF unread = <<>> THEN Len(Bytes(Newline)) ELSE Len(unread)
SecondsToWait == IF mWaitTime > MaxWait THEN 0 ELSE MaxWait + 1 - mWaitTime

\* A byte starts the wait anew.
ToRead == (MaxWait + 2) * BytesToRead + SecondsToWait

\* Every turn of the loop but its last leaves less to read or less to wait.
ReaderAdvances ==
    [][at' = at /\ at \in Reading =>
         /\ ToRead \in 0 .. 5 * (MaxWait + 2)
         /\ ToRead' \in Nat /\ ToRead' < ToRead]_<<mWaitTime, reader>>

\* The silent seconds are counted from 0, by one.
LEMMA SilenceIsCounted == SocketSpec => [](mWaitTime \in Nat)
  <1>1. SocketInit => mWaitTime \in Nat
    BY DEF SocketInit, Init
  <1>2. mWaitTime \in Nat /\ [SocketNext]_<<vars, search, reader>> => (mWaitTime \in Nat)'
    <2> SUFFICES ASSUME mWaitTime \in Nat, [SocketNext]_<<vars, search, reader>>
                 PROVE  mWaitTime' \in {0, mWaitTime, mWaitTime + 1}
      OBVIOUS
    <2>1. CASE FindPeerInfo
      BY <2>1 DEF FindPeerInfo, Resolve, OpenSocket, PeerRefuses, PeerAccepts, Connect, NoPeer,
                  ConnectFails, DoNotResolve, ResolveFails, vars, object
    <2>2. CASE ReadByte \/ ReadNothing \/ Waiting \/ Network
      BY <2>2 DEF ReadByte, ReadNothing, Waiting, SilentSecond,
                  Interrupted, ReadError, Network, ServerCloses, LinkReset, object
    <2>3. CASE Caller \/ Death
      BY <2>3 DEF Caller, Construct, Fresh, Vet, CallGetPacket, Close, Death, Die
    <2> QED
      BY <2>1, <2>2, <2>3 DEF SocketNext, vars, object
  <1> QED
    BY <1>1, <1>2, PTL DEF SocketSpec

\* A line has four bytes, and its rest fewer.
BytesAreFew ==
    at \in Reading => /\ BytesToRead \in 1 .. 4
                      /\ mid => unread # <<>> /\ Len(unread) \in 1 .. 3

LEMMA LinesAreShort == SocketSpec => []BytesAreFew
  <1>1. ASSUME IInv, at \in Reading
        PROVE  /\ BytesToRead \in 1 .. 4
               /\ mid => unread # <<>> /\ Len(unread) \in 1 .. 3
    <2>1. \A line, k : Left(line, k) # <<>> /\ Len(Left(line, k)) \in 1 .. 3
      BY DEF Left
    <2>2. unread # <<>> => Len(unread) \in 1 .. 3
      BY <1>1, <2>1 DEF IInv, StreamInv, ReaderInv, Connected, Rest, Whole
    <2>3. mid => unread # <<>>
      BY <1>1, <2>1 DEF IInv, StreamInv, ReaderInv, Connected, Rest, Whole
    <2>4. Len(Bytes(Newline)) = 4
      BY DEF Bytes
    <2> QED
      BY <2>2, <2>3, <2>4 DEF BytesToRead
  <1>2. IInv => BytesAreFew
    BY <1>1 DEF BytesAreFew
  <1> QED
    BY <1>2, Invariance, PTL

\* A byte is worth more than the whole wait.
LEMMA BytesOutweighSeconds ==
    ASSUME NEW m \in Nat, NEW b \in 1 .. 4, NEW c \in 1 .. 4
    PROVE  /\ m * b \in m .. 4 * m
           /\ c < b => m * c + m <= m * b
  <1>1. \A d \in 1 .. 4 : m * d \in Nat /\ (d = 1 => m * d = m) /\ (d = 2 => m * d = 2 * m)
                          /\ (d = 3 => m * d = 3 * m) /\ (d = 4 => m * d = 4 * m)
    OBVIOUS
  <1> QED
    BY <1>1

\* getPacket returns, unless it has met the end of the file: in a call, silence is
\* borne for MaxWait seconds between two bytes, also when seconds were left from
\* the call before, and no more bytes are read than the line has left.
THEOREM ReaderTakesBoundedSteps == SocketSpec => ReaderAdvances
  <1>1. ASSUME BytesAreFew, BytesAreFew', mWaitTime \in Nat, [SocketNext]_<<vars, search, reader>>,
               ~UNCHANGED <<mWaitTime, reader>>, at \in Reading, at' = at
        PROVE  /\ ToRead \in 0 .. 5 * (MaxWait + 2)
               /\ ToRead' \in Nat /\ ToRead' < ToRead
    <2>1. MaxWait \in Nat /\ SecondsToWait \in 0 .. MaxWait + 1
      BY <1>1, AprsISAssumption DEF SecondsToWait
    <2>2. BytesToRead \in 1 .. 4 /\ (mid => unread # <<>> /\ Len(unread) \in 1 .. 3)
      BY <1>1 DEF BytesAreFew
    <2>3. BytesToRead' \in 1 .. 4 /\ (mid' => unread' # <<>> /\ Len(unread') \in 1 .. 3)
      BY <1>1 DEF BytesAreFew
    <2> DEFINE m == MaxWait + 2
    <2>4. m \in Nat /\ ToRead = m * BytesToRead + SecondsToWait
      BY <2>1 DEF ToRead
    <2> HIDE DEF m
    <2>5. m * BytesToRead \in m .. 4 * m
      BY <2>2, <2>4, BytesOutweighSeconds
    <2>6. ToRead \in 0 .. 5 * (MaxWait + 2)
      BY <2>1, <2>4, <2>5 DEF m
    <2>7. CASE ReadByte
      <3>1. PICK bytes \in Stream :
              unread' = Tail(bytes) /\ mid' = TRUE /\ mWaitTime' = 0
        BY <1>1, <2>7 DEF ReadByte, Return, After, Reading
      <3>2. unread' # <<>> /\ Len(unread') \in 1 .. 3
        BY <2>3, <3>1
      <3>3. Len(unread') < BytesToRead
        <4>1. CASE unread = <<>>
          <5>1. PICK line : bytes = Bytes(line)
            BY <3>1, <4>1 DEF Stream
          <5>2. Len(Tail(Bytes(line))) = 3 /\ Len(Bytes(Newline)) = 4
            BY DEF Bytes
          <5>3. unread' = Tail(Bytes(line))
            BY <3>1, <5>1
          <5>4. BytesToRead = Len(Bytes(Newline))
            BY <4>1 DEF BytesToRead
          <5>5. Len(unread') = 3 /\ BytesToRead = 4
            BY <5>2, <5>3, <5>4, Zenon
          <5> QED
            BY <5>5
        <4>2. CASE unread # <<>>
          <5>1. unread' = Tail(unread)
            BY <3>1, <4>2 DEF Stream
          <5> QED
            BY <3>2, <4>2, <5>1 DEF BytesToRead
        <4> QED
          BY <4>1, <4>2
      <3>4. BytesToRead' < BytesToRead
        BY <3>2, <3>3 DEF BytesToRead
      <3>5. m * BytesToRead' + m <= m * BytesToRead
        BY <2>2, <2>3, <2>4, <3>4, BytesOutweighSeconds
      <3>6. SecondsToWait' = MaxWait + 1
        BY <2>1, <3>1 DEF SecondsToWait
      <3>7. ToRead' = m * BytesToRead' + SecondsToWait'
        BY DEF ToRead, m
      <3>8. m * BytesToRead' \in Nat
        <4>1. m * BytesToRead' \in m .. 4 * m
          BY <2>3, <2>4, BytesOutweighSeconds
        <4> QED
          BY <2>4, <4>1
      <3> QED
        BY <2>1, <2>4, <2>5, <2>6, <3>5, <3>6, <3>7, <3>8 DEF m
    <2>8. CASE Waiting
      <3>1. unread' = unread /\ mWaitTime' = mWaitTime + 1 /\ mWaitTime' <= MaxWait
        BY <1>1, <2>1, <2>8 DEF Waiting, Local, SilentSecond, GiveUp, Interrupted, Return, After,
                                ReadError, Reading, reader
      <3>2. BytesToRead' = BytesToRead
        BY <3>1 DEF BytesToRead
      <3>3. SecondsToWait' \in Nat /\ SecondsToWait' < SecondsToWait
        BY <1>1, <2>1, <3>1 DEF SecondsToWait
      <3>4. ToRead' = m * BytesToRead + SecondsToWait'
        BY <3>2 DEF ToRead, m
      <3> QED
        BY <2>1, <2>4, <2>5, <2>6, <3>3, <3>4
    <2> QED
      BY <1>1, <2>6, <2>7, <2>8
      DEF SocketNext, FindPeerInfo, Resolve, OpenSocket, PeerRefuses, PeerAccepts, Connect, NoPeer,
          ConnectFails, DoNotResolve, ResolveFails, ReadNothing, Return, After, Caller, Construct, Vet, CallGetPacket, Close, Network, ServerCloses,
          LinkReset, object, Death, Die, vars, Reading
  <1>2. BytesAreFew /\ BytesAreFew' /\ mWaitTime \in Nat /\ [SocketNext]_<<vars, search, reader>> =>
          [at' = at /\ at \in Reading =>
             /\ ToRead \in 0 .. 5 * (MaxWait + 2)
             /\ ToRead' \in Nat /\ ToRead' < ToRead]_<<mWaitTime, reader>>
    BY <1>1
  <1> QED
    BY <1>2, LinesAreShort, SilenceIsCounted, PTL DEF SocketSpec, ReaderAdvances

=============================================================================
