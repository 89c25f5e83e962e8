------------------------------- MODULE AprsIS -------------------------------
(***************************************************************************)
(* One APRS_IS object and the server it talks to (APRS_IS.cpp,             *)
(* basic_socket.h): choosing a server, the login, and reading packets line *)
(* by line until the caller closes the connection.                         *)
(*                                                                         *)
(* A line is a tuple whose first element says what it is.  The server      *)
(* sends its identification, answers the login, and then sends traffic,    *)
(* among it its identification again every 20 seconds.  getPacket is one   *)
(* action when it gets a whole line at once, and several when it waits: a  *)
(* part of a line may be all that arrives before the wait is given up, and *)
(* the rest of that line is then the first thing the next call reads.      *)
(***************************************************************************)
EXTENDS Integers

CONSTANTS
    Fds,        \* the descriptors the process may be given
    Traffic,    \* the lines of the feed, identifications apart
    MaxWait     \* the silent seconds getPacket bears, 60 in the code

\* What a server may say it is, after "# "; the last stands for the three
\* versions of javAPRSSrvr that openConnection rejects.
Versions == {"aprsc", "javAPRSSrvr", "rejected"}
Rejected == {"rejected"}

Id(v)    == <<"id", v>>
LogResp  == <<"logresp">>     \* "# logresp ...", the answer to the login
Newline  == <<"newline">>     \* a line terminator and nothing else
Fragment == <<"fragment">>    \* the end of a line whose beginning was lost
Empty    == <<>>              \* the empty string: getPacket gave up

Ids   == {Id(v) : v \in Versions}
Lines == Traffic \cup Ids \cup {LogResp, Newline, Fragment}

ASSUME AprsISAssumption ==
    /\ Fds \subseteq Nat
    /\ MaxWait \in Nat \ {0}
    /\ Traffic \cap (Ids \cup {LogResp, Newline, Fragment, Empty}) = {}

VARIABLES
    at,             \* where the program is in this object's code, see below
    sock_fd,        \* the object's descriptor, -1 when it has none
    fds,            \* the descriptors the kernel holds open for the process
    mGoodServer,
    mWaitTime,      \* silent seconds since the last byte
    mPacket,        \* the line the last getPacket returned
    link,           \* the connection: "none", "up", "closed" (EOF) or "reset"
    version,        \* what the server at the other end is
    next,           \* what it sends next: "greeting", "logresp" or "traffic"
    torn,           \* the beginning of that line was consumed and lost
    mid,            \* this getPacket has consumed a part of a line
    cut             \* openConnection did not get a whole line where it read one

object == <<at, sock_fd, fds, mGoodServer, mWaitTime, mPacket, mid, cut>>
server == <<link, version, next, torn>>
vars   == <<object, server>>

\* "gone": no object.  In openConnection: "connecting", reading the "greeting",
\* "vetting" it, reading the "reply" to the login; it returns true at "opened",
\* false at "refused".  The caller's getPacket is at "packet", and has returned
\* at "got".  "spin" is a getPacket that reads the end of the file for ever;
\* "exit" a process that called exit(1), "thrown" an exception on its way out.
Reading  == {"greeting", "reply", "packet"}
Ats      == Reading \cup {"gone", "connecting", "vetting", "opened", "refused",
                          "got", "spin", "exit", "thrown"}

Init ==
    /\ at = "gone"
    /\ sock_fd = -1 /\ fds = {} /\ mGoodServer = FALSE
    /\ mWaitTime = 0 /\ mPacket = Empty /\ mid = FALSE /\ cut = FALSE
    /\ link = "none" /\ version = "aprsc" /\ next = "greeting" /\ torn = FALSE

\* The same, as what a step makes of the object and of its connection.
Fresh ==
    /\ sock_fd' = -1 /\ fds' = {} /\ mGoodServer' = FALSE
    /\ mWaitTime' = 0 /\ mPacket' = Empty /\ mid' = FALSE /\ cut' = FALSE
    /\ link' = "none" /\ version' = "aprsc" /\ next' = "greeting" /\ torn' = FALSE

-----------------------------------------------------------------------------
(* The object's life. *)

Construct == at = "gone" /\ at' = "connecting" /\ Fresh

\* basic_socket::close
CloseSocket == /\ fds' = fds \ {sock_fd}
               /\ sock_fd' = -1
               /\ link' = "none"

\* findPeerInfo found an address that accepts the connection.
Connect(fd, v) ==
    /\ at = "connecting"
    /\ fd \in Fds \ fds
    /\ fds' = fds \cup {fd}
    /\ sock_fd' = fd
    /\ at' = "greeting"
    /\ link' = "up"
    /\ version' = v
    /\ next' = "greeting"
    /\ torn' = FALSE
    /\ UNCHANGED <<mGoodServer, mWaitTime, mPacket, mid, cut>>

\* No address does: every socket that was tried has been closed again.
ConnectFails ==
    /\ at = "connecting"
    /\ at' = "refused"
    /\ UNCHANGED <<sock_fd, fds, mGoodServer, mWaitTime, mPacket, mid, cut, server>>

\* getaddrinfo fails and findPeerInfo throws.
ResolveFails ==
    /\ at = "connecting"
    /\ at' = "thrown"
    /\ UNCHANGED <<sock_fd, fds, mGoodServer, mWaitTime, mPacket, mid, cut, server>>

\* Mutant: a rejected connection is left open.
Vet_KeepsSocket ==
    /\ at = "vetting"
    /\ mGoodServer' = (mPacket \notin {Id(v) : v \in Rejected})
    /\ at' = IF mGoodServer' THEN "reply" ELSE "connecting"
    /\ UNCHANGED <<sock_fd, fds, mWaitTime, mPacket, mid, cut, server>>

\* Mutant: the loop condition is tested before the version is.
Vet_AcceptsAll ==
    /\ at = "vetting"
    /\ mGoodServer' = TRUE
    /\ at' = "reply"
    /\ UNCHANGED <<sock_fd, fds, mWaitTime, mPacket, mid, cut, server>>

\* openConnection looks at the greeting: it closes the connection to a server
\* it rejects and tries another one, or else it sends the login.
Vet ==
    /\ at = "vetting"
    /\ mGoodServer' = (mPacket \notin {Id(v) : v \in Rejected})
    /\ IF mGoodServer'
         THEN /\ at' = "reply"
              /\ UNCHANGED <<sock_fd, fds, link>>
         ELSE /\ at' = "connecting"
              /\ CloseSocket
    /\ UNCHANGED <<mWaitTime, mPacket, mid, cut, version, next, torn>>

\* The caller closes the socket, and the object goes out of scope.
Close ==
    /\ at \in {"opened", "got", "refused"}
    /\ CloseSocket
    /\ at' = "gone"
    /\ UNCHANGED <<mGoodServer, mWaitTime, mPacket, mid, cut, version, next, torn>>

\* The process has ended: the kernel closes what it had open.
Die == at' = "gone" /\ Fresh

-----------------------------------------------------------------------------
(* getPacket. *)

CallGetPacket ==
    /\ \/ at = "opened"
       \/ at = "got" /\ mPacket # Empty
    /\ at' = "packet"
    /\ UNCHANGED <<sock_fd, fds, mGoodServer, mWaitTime, mPacket, mid, cut, server>>

After(a) == IF a = "greeting" THEN "vetting"
            ELSE IF a = "reply" THEN "opened" ELSE "got"

Return(p) ==
    /\ mPacket' = p
    /\ at' = After(at)
    /\ mid' = FALSE
    /\ cut' = (cut \/ (at # "packet" /\ p \in {Empty, Newline}))

\* getPacket gives up: what it has read of a line is lost with its buffer.
GiveUp == Return(Empty) /\ torn' = (torn \/ mid)

\* The lines that may end next: the rest of a line whose beginning was lost may
\* be no more than its terminator.
Upcoming == IF torn THEN {Fragment, Newline}
            ELSE IF next = "greeting" THEN {Id(version)}
            ELSE IF next = "logresp" THEN {LogResp}
            ELSE Traffic \cup {Id(version)}

GetLine ==
    /\ at \in Reading
    /\ link = "up"
    /\ \E line \in Upcoming : Return(line)
    /\ next' = IF next = "greeting" THEN "logresp" ELSE "traffic"
    /\ torn' = FALSE
    /\ mWaitTime' = 0
    /\ UNCHANGED <<sock_fd, fds, mGoodServer, link, version>>

\* A part of a line, but not its end.
PartialLine ==
    /\ at \in Reading
    /\ link = "up"
    /\ mid' = TRUE
    /\ mWaitTime' = 0
    /\ UNCHANGED <<at, sock_fd, fds, mGoodServer, mPacket, cut, server>>

\* Mutant: the silent seconds are counted down, from 0.
SilentSecond_CountsDown ==
    /\ at \in Reading
    /\ link = "up"
    /\ mWaitTime >= 0
    /\ mWaitTime' = mWaitTime - 1
    /\ UNCHANGED <<at, sock_fd, fds, mGoodServer, mPacket, mid, cut, server>>

\* Mutant: the wait is given up at one count only, == for >.
SilentSecond_Equal ==
    /\ at \in Reading
    /\ link = "up"
    /\ mWaitTime < MaxWait + 5
    /\ mWaitTime' = mWaitTime + 1
    /\ IF mWaitTime' = MaxWait + 1
         THEN GiveUp
         ELSE UNCHANGED <<at, mPacket, mid, cut, torn>>
    /\ UNCHANGED <<sock_fd, fds, mGoodServer, link, version, next>>

\* Mutant: at the limit the wait is started over, and not given up.
SilentSecond_StartsOver ==
    /\ at \in Reading
    /\ link = "up"
    /\ mWaitTime' = IF mWaitTime >= MaxWait THEN 0 ELSE mWaitTime + 1
    /\ UNCHANGED <<at, sock_fd, fds, mGoodServer, mPacket, mid, cut, server>>

\* select returns 0 after a second in which nothing arrived.
SilentSecond ==
    /\ at \in Reading
    /\ link = "up"
    /\ mWaitTime' = mWaitTime + 1
    /\ IF mWaitTime' > MaxWait
         THEN GiveUp
         ELSE UNCHANGED <<at, mPacket, mid, cut, torn>>
    /\ UNCHANGED <<sock_fd, fds, mGoodServer, link, version, next>>

\* select returns -1: a signal was delivered while it waited.
Interrupted ==
    /\ at \in Reading
    /\ GiveUp
    /\ UNCHANGED <<sock_fd, fds, mGoodServer, mWaitTime, link, version, next>>

\* read returns 0 and leaves buf as it was: the last byte of this call, or, when
\* the call has read none, what an earlier call left on the stack, which may be
\* the end of its line.  Any other byte is appended again and again, for ever: a stream
\* that cannot grow sets its badbit, and throws nothing.
ReadEof ==
    /\ at \in Reading
    /\ link = "closed"
    /\ mWaitTime' = 0
    /\ \/ ~mid /\ Return(Newline)
       \/ at' = "spin" /\ UNCHANGED <<mPacket, mid, cut>>
    /\ UNCHANGED <<sock_fd, fds, mGoodServer, server>>

\* read returns -1: exit(1), from the middle of whatever the program was doing.
ReadError ==
    /\ at \in Reading \cup {"spin"}
    /\ link = "reset"
    /\ at' = "exit"
    /\ UNCHANGED <<sock_fd, fds, mGoodServer, mWaitTime, mPacket, mid, cut, server>>

-----------------------------------------------------------------------------
(* The other end. *)

ServerCloses == link = "up" /\ link' = "closed" /\ UNCHANGED <<object, version, next, torn>>

LinkReset == /\ link \in {"up", "closed"}
             /\ link' = "reset"
             /\ UNCHANGED <<object, version, next, torn>>

-----------------------------------------------------------------------------

Opening == \/ \E fd \in Fds, v \in Versions : Connect(fd, v)
           \/ ConnectFails
           \/ ResolveFails
           \/ Vet

\* What select and read may come back with.
Wakeup == GetLine \/ SilentSecond \/ ReadEof \/ ReadError

Next == \/ Construct \/ Opening \/ CallGetPacket \/ Close
        \/ Wakeup \/ PartialLine \/ Interrupted
        \/ ServerCloses \/ LinkReset
        \/ Die

Spec == Init /\ [][Next]_vars

-----------------------------------------------------------------------------
(* Properties. *)

AprsISTypeOK ==
    /\ at \in Ats
    /\ sock_fd \in Fds \cup {-1}
    /\ fds \subseteq Fds
    /\ mGoodServer \in BOOLEAN
    /\ mWaitTime \in Nat
    /\ mPacket \in Lines \cup {Empty}
    /\ link \in {"none", "up", "closed", "reset"}
    /\ version \in Versions
    /\ next \in {"greeting", "logresp", "traffic"}
    /\ torn \in BOOLEAN
    /\ mid \in BOOLEAN
    /\ cut \in BOOLEAN

\* The process never holds a descriptor that the object does not know of, and
\* never waits on, writes to or reads from one that is not open: the sockets of
\* rejected servers and of ended sessions are all closed (findPeerInfo,
\* openConnection, close and the destructor between them).
DescriptorInv ==
    /\ fds = {sock_fd} \ {-1}
    /\ at \in Reading \cup {"vetting", "opened", "got", "spin", "exit"} => sock_fd # -1

\* Unless a wait of openConnection was given up, the server the caller reads
\* from is one whose version was accepted, its packets begin after the answer to
\* the login and at the beginning of a line, and none is the end of a line whose
\* beginning was lost.
InStep ==
    ~cut => /\ mGoodServer /\ link # "none" => version \notin Rejected
            /\ at = "packet" => next = "traffic" /\ ~torn
            /\ at = "got" => mPacket \notin {Fragment, LogResp}

\* The silence getPacket bears: mWaitTime is not reset when a wait is given up,
\* so the next two calls of the same session give up one second later each.
WaitBound ==
    /\ mWaitTime <= MaxWait + 3
    /\ mWaitTime > MaxWait + 1 => cut

=============================================================================
