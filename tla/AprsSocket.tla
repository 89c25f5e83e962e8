----------------------------- MODULE AprsSocket -----------------------------
(***************************************************************************)
(* The connection of AprsIS in detail: findPeerInfo tries one address      *)
(* after the other, and getPacket reads one byte after the other.  The     *)
(* variables of AprsIS keep their meaning, so that this specification      *)
(* implements it as it stands.  What the code has in sock_fd while an      *)
(* address is tried is in trial here.                                      *)
(*                                                                         *)
(* A line is two bytes of its own (so that it can break within them) and   *)
(* its terminator.                                                         *)
(***************************************************************************)
EXTENDS AprsIS, Sequences

CONSTANT PeerLists    \* what getaddrinfo may return: the families of addresses

ASSUME PeerListsAssumption ==
    \A list \in PeerLists : list # <<>> /\ list \in Seq({"inet6", "inet"})

VARIABLES
    peers,          \* the addresses, <<>> when none were asked for
    candidates,     \* the visits that the two loops have still to make
    trial,          \* the descriptor of the socket being tried, -1 for none
    trials,         \* those opened by findPeerInfo, neither closed nor kept
    refusals,       \* the positions of addresses that refused
    unread,         \* the bytes of the line at the head of the stream
    stringBuf,
    buf             \* the byte the last read returned, None before there is one

search == <<peers, candidates, trial, trials, refusals>>
reader == <<unread, stringBuf, buf>>

CR    == <<"CR">>
LF    == <<"LF">>
Other == <<"other">>       \* what the stack may hold
None  == <<>>

Bytes(line) == <<<<line, 1>>, <<line, 2>>, CR, LF>>

SocketInit ==
    /\ Init
    /\ peers = <<>> /\ candidates = {}
    /\ trial = -1 /\ trials = {} /\ refusals = {}
    /\ unread = <<>> /\ stringBuf = <<>> /\ buf = None

-----------------------------------------------------------------------------
(* findPeerInfo. *)

ai_family_preference == <<"inet6", "inet", "unspec">>

\* Mutant: the preference is not looked at.
Visits_AnyFamily(list) == (1 .. 3) \X DOMAIN list

\* The loop over preferences, with the number pass, around the loop over addresses:
\* <<pass, position>> for every address that a preference lets through.
Visits(list) ==
    {visit \in (1 .. 3) \X DOMAIN list :
        ai_family_preference[visit[1]] \in {"unspec", list[visit[2]]}}

Before(c, d) == c[1] < d[1] \/ (c[1] = d[1] /\ c[2] < d[2])

Current == CHOOSE c \in candidates : \A d \in candidates \ {c} : Before(c, d)

Resolve(list) ==
    /\ at = "connecting" /\ peers = <<>>
    /\ peers' = list
    /\ candidates' = Visits(list)
    /\ refusals' = {}
    /\ UNCHANGED <<vars, trial, trials, reader>>

DoNotResolve == ResolveFails /\ peers = <<>> /\ UNCHANGED <<search, reader>>

OpenSocket(fd) ==
    /\ at = "connecting" /\ candidates # {} /\ trial = -1
    /\ fd \in Fds \ (fds \cup trials)
    /\ trial' = fd
    /\ trials' = trials \cup {fd}
    /\ UNCHANGED <<vars, peers, candidates, refusals, reader>>

\* Mutant: the socket of an address that refused is forgotten.
PeerRefuses_NotClosed ==
    /\ at = "connecting" /\ candidates # {}
    /\ trial' = -1
    /\ refusals' = refusals \cup {Current[2]}
    /\ candidates' = candidates \ {Current}
    /\ UNCHANGED <<vars, peers, trials, reader>>

\* connect fails, or there was no socket to connect.
PeerRefuses ==
    /\ at = "connecting" /\ candidates # {}
    /\ trials' = trials \ {trial}
    /\ trial' = -1
    /\ refusals' = refusals \cup {Current[2]}
    /\ candidates' = candidates \ {Current}
    /\ UNCHANGED <<vars, peers, reader>>

\* Both loops are left, with the socket.
PeerAccepts(v) ==
    /\ trial # -1
    /\ Connect(trial, v)
    /\ trials' = trials \ {trial}
    /\ trial' = -1
    /\ candidates' = {}
    /\ UNCHANGED <<peers, refusals, reader>>

NoPeer ==
    /\ peers # <<>> /\ candidates = {}
    /\ ConnectFails
    /\ UNCHANGED <<search, reader>>

-----------------------------------------------------------------------------
(* getPacket.  Its variables begin anew in every call. *)

\* Mutant: the string is a member of the object, and never cleared.
Local_Member == UNCHANGED stringBuf /\ buf' = IF at' = at THEN buf ELSE None

Local ==
    IF at' = at THEN UNCHANGED <<stringBuf, buf>> ELSE stringBuf' = <<>> /\ buf' = None

\* Mutant: a carriage return is a byte like any other.
Appended_CarriageReturn(byte) == Append(stringBuf, byte)

Appended(byte) == IF byte = CR THEN stringBuf ELSE Append(stringBuf, byte)

\* The line a string of bytes is.
AsPacket(string) ==
    IF string = <<LF>> THEN Newline
    ELSE IF \E line \in Lines : string = <<<<line, 1>>, <<line, 2>>, LF>> THEN string[1][1]
    ELSE Fragment

\* The stream as far as the next terminator.
Stream == IF unread # <<>> THEN {unread} ELSE {Bytes(line) : line \in Upcoming}

ReadByte ==
    /\ at \in Reading
    /\ link = "up"
    /\ mWaitTime' = 0
    /\ \E bytes \in Stream :
         /\ unread' = Tail(bytes)
         /\ IF Head(bytes) = LF
              THEN /\ Return(AsPacket(Appended(LF)))
                   /\ next' = IF next = "greeting" THEN "logresp" ELSE "traffic"
                   /\ torn' = FALSE
                   /\ stringBuf' = <<>> /\ buf' = None
              ELSE /\ stringBuf' = Appended(Head(bytes))
                   /\ buf' = Head(bytes)
                   /\ mid' = TRUE
                   /\ UNCHANGED <<at, mPacket, cut, next, torn>>
    /\ UNCHANGED <<sock_fd, fds, mGoodServer, link, version, search>>

\* read returns 0: buf is what this call has read last, or what was on the stack.
\* What it is is looked at again and again, and appended unless it is CR.
ReadNothing ==
    /\ at \in Reading
    /\ link = "closed"
    /\ mWaitTime' = 0
    /\ \E byte \in IF buf = None THEN {CR, LF, Other} ELSE {buf} :
         IF byte = LF
           THEN Return(Newline) /\ stringBuf' = <<>> /\ buf' = None
           ELSE /\ at' = "spin"
                /\ stringBuf' = Appended(byte)
                /\ buf' = byte
                /\ UNCHANGED <<mPacket, mid, cut>>
    /\ UNCHANGED <<sock_fd, fds, mGoodServer, server, unread, search>>

-----------------------------------------------------------------------------
(* The rest is as it was.  A stream ends with its connection, and a search with *)
(* its connect.                                                                 *)

NewSearch    == peers' = <<>> /\ candidates' = {} /\ refusals' = {} /\ UNCHANGED <<trial, trials>>
StreamStands == unread' = IF link' = "none" THEN <<>> ELSE unread

Caller == /\ \/ (Construct \/ Vet) /\ NewSearch
             \/ (CallGetPacket \/ Close) /\ UNCHANGED search
          /\ Local /\ StreamStands

Waiting == (SilentSecond \/ Interrupted \/ ReadError) /\ Local /\ UNCHANGED <<unread, search>>

Network == (ServerCloses \/ LinkReset) /\ UNCHANGED <<search, reader>>

Death == /\ Die
         /\ peers' = <<>> /\ candidates' = {} /\ trial' = -1 /\ trials' = {} /\ refusals' = {}
         /\ unread' = <<>> /\ stringBuf' = <<>> /\ buf' = None

FindPeerInfo == \/ \E list \in PeerLists : Resolve(list)
                \/ \E fd \in Fds : OpenSocket(fd)
                \/ \E v \in Versions : PeerAccepts(v)
                \/ DoNotResolve \/ PeerRefuses \/ NoPeer

SocketNext == FindPeerInfo \/ ReadByte \/ ReadNothing
                  \/ Caller \/ Waiting \/ Network \/ Death

SocketSpec == SocketInit /\ [][SocketNext]_<<vars, search, reader>>

-----------------------------------------------------------------------------
(* Properties. *)

\* The variables of the search and of the reader have their types; a string is
\* never longer than a line.
SocketTypeOK ==
    /\ peers \in PeerLists \cup {<<>>}
    /\ candidates \subseteq (1 .. 3) \X DOMAIN peers
    /\ refusals \subseteq DOMAIN peers
    /\ trial \in Fds \cup {-1}
    /\ trials \subseteq Fds
    /\ buf # LF
    /\ at # "spin" => Len(stringBuf) <= 2 /\ Len(unread) <= 3

\* findPeerInfo closes every socket it does not return, and leaves none behind
\* with its exception: outside of it, the object's descriptor is all there is.
NoSocketIsLost ==
    /\ trials = {trial} \ {-1}
    /\ trials # {} => at = "connecting"
    /\ trials \cap fds = {}

\* The search gives up only when every address has refused, and connects to an
\* address of the second preference only when all of the first have refused.
SearchesInOrder ==
    [][at = "connecting" =>
          /\ at' = "refused" => refusals = DOMAIN peers
          /\ at' = "greeting" /\ peers[Current[2]] = "inet" =>
               \A i \in DOMAIN peers : peers[i] = "inet6" => i \in refusals]_<<vars, search>>

\* Reading byte by byte and trying address by address does what AprsIS says of
\* getPacket and of connect in one step, and nothing else: every packet is a line
\* as it was sent, without its carriage return, or is known to have been torn.
ImplementsAprsIS == Spec

=============================================================================
