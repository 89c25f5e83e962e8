# A specification of APRS_WX

APRS_WX is a daemon that listens to the weather reports of amateur radio
stations around a place, averages them with weights that fall with the distance,
and writes the averages to InfluxDB. This directory holds TLA+ modules of it,
configurations for TLC, and proofs checked by TLAPS. The modules are read from
the C++ sources (`src/src`); where a document or a comment says something else,
a run shows it.

## The system

| Part | Source | State | Operations | Model |
|---|---|---|---|---|
| Main loop | `aprs_wx.cpp:196-252` | `run`, `packetCount`, the place in `main` | start a session, read a packet, dispatch it, publish, end a session, stop | `AprsWx` |
| Signals | `aprs_wx.cpp:33-40` | `run` | SIGINT, SIGTERM, SIGHUP clear `run`; `select` returns -1 | `AprsWx` (`Signal`) |
| systemd unit | `resources/aprs_wx/aprs_wx.service.in` | - | restart after a failure | `AprsWx` (`Restart`, `Start`) |
| APRS-IS connection | `APRS_IS.cpp:15-82` | descriptor, `mGoodServer`, `mWaitTime`, `mPacket` | `openConnection`, `getPacket` | `AprsIS`, `AprsSocket` |
| Sockets | `basic_socket.h` | descriptor, addresses | `connect` (`findPeerInfo`), `select`, `close` | `AprsSocket`, `AprsIS` |
| Aggregator | `WeatherAggregator.cpp` | map of reports, two arrays of sums | `aggregateData`, `pushToInflux` | `WeatherAggregator`, `InfluxLine` |
| Weather items | `APRS_Packet.h:110-166` | - | table of symbols, Hann weight | `AprsPacket` |
| Packet decoding | `APRS_IS.cpp:84-197`, `APRS_IS.h:35-108`, `APRS_Packet.cpp:75-84` | cursor `p0`, the report | `decode` | `AprsDecode` |
| Configuration | `aprs_wx.cpp:74-194`, `sys_monitor.cpp:135-251` | options | read the file, check, use at start-up and later | `Startup` |
| System monitor | `sys_monitor.cpp`, its unit | two readings of the CPU counters | measure, push, sleep, stop, restart | `SysMonitor` |
| DHT22 reader, polled | `DHT22.c` | bits, cached values | read a frame, check, show | `DHT22`, `DhtFrame` |
| DHT reader, by callbacks | `dhtxx_pigpio.c` | bit counter, bytes, shared with a thread | read a frame, check, print, try again | `DhtPigpio`, `DhtFrame` |
| Configuration and XDG helpers | `util/` (a submodule, absent) | - | - | external (`Startup` has its results) |
| Build, packages | `CMakeLists.txt`, `resources/` | - | - | no behaviour |

`main` owns one aggregator for the life of the process, and one `APRS_IS` object
for each session. A session opens a connection (choosing servers until one has
an accepted version), logs in, reads `cycleRate` packets and closes. A weather
packet goes into the aggregator's map and, when a database is configured, the new
averages are pushed at once. Everything runs in one thread: what makes the
behaviour hard is what happens between and during its waits. Signals, silence,
lines that arrive in parts, servers that close or reset a connection, a database
that fails, time that makes reports old, and processes that end and are started
again. The only program with two threads is `dhtxx_pigpio`.

## What makes each part correct

* The connection leaks no descriptor, reads only from an accepted server, after
  the answer to the login and from the beginning of a line, and gives up a silent
  server in bounded time.
* Looking for a server tries the addresses in order of preference and leaves no
  socket behind; what is taken for a packet is a line as the server sent it.
* A configuration that was found valid is enough to run; a push has a destination.
* The aggregator publishes weighted means of the latest reports of the last 90
  minutes, and nothing else.
* The decoder gives back what a station sent, and on anything else ends with an
  error; what lies beyond the end of a line decides nothing.
* The system monitor measures over intervals without a gap or an overlap, over failed
  readings and counters that wrap, and goes on until it is stopped.
* The polled reader shows only frames that arrived as they were sent. The reader by
  callbacks prints only what was sent, as far as its count of bits can tell.
* The daemon calls the connection and the aggregator in order, counts packets, ends
  sessions, stops on a signal, and loses reports only with the process.

## The modules

* `AprsPacket`: the symbols, the table and the weights. Distances are in sixths
  of the radius, weights in quarters, so that they are whole numbers. Values are
  the digits of a packet.
* `InfluxLine`: `printInfluxFormat`. Rationals are exact pairs, `0/0` is NaN, the
  text of a push is a function from field names to values. Humidex and wind chill
  are represented by the arguments they are computed from.
* `WeatherAggregator`: one action per operation. `Update` is the insertion
  followed by all of `aggregateData` (the program makes the two calls in a row);
  `BeginPush` and `EndPush` are the two ends of the HTTP request; `Tick` is time;
  `Die` is the end of the process. Ages saturate one tick above `MaxAge`: older
  reports are not told apart by the code.
* `WeatherFeed`: the abstract specification of the aggregator. It forgets a report
  at once when it is too old and has no sums. `WeatherAggregator` implements it
  with `heard` mapped to the reports that are not too old and `mean` to the
  quotients of the sums.
* `AprsIS`: one connection object after another, and the server at the other end.
  `at` says where the program is in the object's code. `GetLine` is a call of
  `getPacket` from the first byte of a line to the last, `PartialLine` a wait that
  begins within a line, `SilentSecond` a `select` that times out, `Interrupted` one
  that a signal ends, `ReadEof` a `read` that returns 0 and `ReadError` one that
  returns -1. `buf` is not written when `read` returns 0: if this call has read a
  byte, `buf[0]` is that byte and not the terminator, and the loop never ends; if
  it has not, `buf[0]` is what the stack holds, and both outcomes are allowed.
  `torn`, `mid` and `cut` record that a part of a line was consumed, is being
  consumed, and that a wait of `openConnection` was given up.
* `AprsSocket`: the same connection in detail, as an extension of `AprsIS` whose
  variables it keeps. `findPeerInfo` is one action for each thing that happens to an
  address (`OpenSocket`, `PeerRefuses`, `PeerAccepts`) and `NoPeer` when none is
  left; `candidates` are the visits, a preference and an address, that the two nested
  loops have still to make, and `Current` is the first of them. `ReadByte` is one
  turn of the loop of `getPacket`: `unread` are the bytes of the line at the head of
  the stream, `stringBuf` and `buf` the variables of the function. A line is two
  bytes, CR and LF, so that it can be torn at three places within it. The string that
  is returned is turned into a line of `AprsIS` by `AsPacket`, and `ImplementsAprsIS`
  says that `Spec` of `AprsIS` holds as it stands: a byte is `PartialLine`, the last
  one `GetLine`, an address that refuses nothing.
* `AprsWx`: the daemon. `Net == INSTANCE AprsIS` and `Agg == INSTANCE
  WeatherAggregator` are the parts; every action of `AprsWx` that touches one of
  them is written as one of its operations, so that what is proved of a part is
  used in the proofs about the whole. A packet is dispatched by one action for each
  kind of line. What `decode` makes of a line of the feed is given with the line:
  a weather packet with its station and reading, a position that cannot be
  decoded, which is ignored, or a line that ends the process.
* `AprsDecode`: `decode`, one action for each field, over lines that are sequences
  of characters: what decides here is where the cursor stands. `substr` beyond the
  end throws (`Throw`), an index beyond the end reads any character. Numbers are
  exact pairs `<<n, d>>`, where a `d` of 0 is an infinity or, with an `n` of 0, NaN.
  What `strtod` takes whole is a numeral, digits with at most one point (`Double`), or
  one of the other forms it knows: hexadecimal numbers, exponents, `inf` and `nan`. These
  are a constant, `OtherForms`, a function from texts to values; `FormsAssumption` says
  what the proofs need of it. A NaN or an infinity is stored like any other value. The
  aggregator is modelled with finite readings (`AggregatorAssumption`): what a NaN does to
  its sums is listed as a hazard and not checked.
  What stations send is said beside it, without `decode`: `IsReport` relates the
  characters of a line to the values the station gave them and to the places where its
  fields begin (`stops`). `SentAssumption` says that every line of `Sent` is such a
  report; TLC checks it for the three of the instance.
  In `AprsWx` a line that ends in `Throw` or in a `DecodingError` is `Undecodable`,
  and one with an error in a coordinate is `Ignored`.
* `SysMonitor`: the second daemon. `Measure` is one round up to the request:
  temperature, counters, difference, and keeping the reading for the next round.
  The configuration is one bit here, whether it names the database (`Startup` has the
  rest). `UsedTime` is 0: every enumerator has a `case` that leaves the `switch`, so that
  the `default` that adds to `used` is never reached, and what is written, `CpuUse`, is a
  percentage of 0. `measured` is not in the program: it adds up what `getUsage` returns
  as idle time, whether or not the push that follows succeeds. The branch that exits when there
  is nothing to write cannot be taken and has no action: `getData` returns false for
  numbers that do not fit 64 bits only, which the kernel does not write.
* `Startup`: the options of both programs. `Line` and `BadLine` are the callback of
  `ConfigFile::process`, called for the lines in any order and any number of times;
  `CheckOptions` is everything between the file and the loop. After it the two loops
  are reduced to the places where `value()` is called: beginning a session
  (`passcode`), the head of the packet loop (`cycleRate`), a server identification
  (`influxRepeats`), a push (`influxTLS`). `end` is why `main` returned, "no value" for
  `std::bad_optional_access`. The port of `aprs_wx` is an `unsigned` that is assigned a
  `long`; `Modulus` is its width.
* `DhtFrame`, `DHT22`: the frame a sensor sends, and the program that polls it.
  A call of `read_DHT_Data` is one action, since nothing else runs: what can go
  wrong while it counts is its second parameter. The change that ends a complete
  frame is the 41st even one, and its bit is stored behind the array; the bytes
  that the sum covers are not touched by it. A single long pulse may be counted
  as a short one. `BadValue` is 9999, the value in tenths that the program takes for
  none: a frame that has it is skipped. The bytes have `Bits` bits instead of 8. Powers are recursive
  functions (`TwoTo`, and `TenTo` in `AprsDecode`), about which the prover can reason;
  it knows nothing of `^`.
* `DhtPigpio`: the second reader, `main` and the callback of pigpio's thread, whose
  `++bitCount` is a load and a store and whose two accesses to `data` are one. An edge
  is the bit its distance from the edge before stands for. The sensor always sends a
  whole frame; `Wire` is what becomes of it. `Lose` takes an edge away, and the next
  one is then far from the one before; `BreakOff` takes all that are left; `Noise` adds
  an edge nobody sent, after the last one or before the next, at any time. That is no
  restriction: an edge that is added or lost further back comes to the front before its
  callback begins. `CheckCount` may find callbacks that are still under way. `trouble` is
  the set of what went wrong before `main` looked, and any of it may come together.
  `raced` records that a callback ran, or was waiting, while the two assignments that
  set up an attempt (`ResetCount`, `ZeroData`) were made. Bits beyond the frame fall
  behind `data`, where the two other global variables are: index 5 or 6 is `bitCount`
  in one of the two orders, and beyond that nothing matters.
* `MC...`: the instances for TLC.
* `WeatherAggregator_proofs`, `AprsIS_proofs`, `AprsSocket_proofs`, `AprsWx_proofs`,
  `AprsDecode_proofs`, `Startup_proofs`, `SysMonitor_proofs`: the theorems, each module
  about the one it is named after. `Dht_proofs` is about both readers of the sensor:
  it extends `DhtPigpio` and `DHT22`, whose specification is `PollSpec`.

Operators with an underscore (`Evict_Never`, `NextPacket_OneMore`, ...) are
mutants: plausible mistakes in the definition they are named after. Each property
of a passing run has one that it detects; nothing else uses them.

## The runs

| Run | Instance | Question |
|---|---|---|
| `aggregator` | 2 stations, 5 readings (weights 0, 1, 2, 3, 4 quarters; negative, zero and trace values; saturated air; no values), 90 minutes = 2 ticks | Are the sums and the text of a push right, and is lazy erasing invisible? |
| `connection` | 2 descriptors (one more than can be open), 2 kinds of traffic, `MaxWait` 3, three server versions; one address, one of each family in the wrong order, or three | Do refusals, rejection, torn lines, silence, EOF, reset and signals leave the object in order? Does the loop over bytes and addresses implement `AprsIS`? |
| `daemon` | 2 stations, 2 readings (one without values), cycles of 2 packets, `MaxWait` 1, 1 tick | Are calls in order, sessions closed, reports neither lost nor stale? |
| `progress` | 1 station, repeats on, fairness | Do sessions end and signals stop the program? |
| `end_of_file` | as `progress`, without repeats | README: a new server "in at most 33 minutes 20 seconds". Violated: `getPacket` reads the end of the file for ever. |
| `reset` | as `daemon`, 1 station | README: values "are maintained across server re-connections". Violated: a read error is `exit(1)`. |
| `stale_repeat` | repeats on | "Delete any weather reports more than 90 minutes old". Violated: repeats publish sums that are not rebuilt. |
| `decode` | 3 reports, all their beginnings, every change of one character of one of them to a sign or a flag, and fields with other forms of numbers (258 lines) | Do reports come back as they were sent, what becomes of broken ones, and does `decode` end? |
| `monitor` | counters that wrap at 3, idle and waiting time, with and without a database | Do the measured intervals follow each other without a gap or an overlap? Does only a signal stop the monitor, and for good? |
| `dht22` | all frames of bytes of 2 bits, broken off at every change, or with any bit misread; a `BadValue` of 5 | Are only frames that arrived as sent shown and cached? |
| `pigpio` | both sensors, 3 payloads in bytes of 2 bits, looping or not, one edge of noise and one lost, frames that break off, callbacks that are late | Is what is printed what was sent in this attempt? Does an undisturbed attempt print, and does the program end? |
| `configuration` | both programs, ports -1, 0, 1 and `Modulus` = 4, every order and repetition of good, bad and missing lines | When is a missing option noticed, and does every push have a destination? |

The bounds. A cycle of two packets has a first and a last packet; a station that
is replaced, one that is not and an age on each side of 90 minutes need two
stations and one tick; in `AprsIS` a line arrives in any number of
parts, in `AprsSocket` in up to four reads; `MaxWait` of 1 to 3 separates
the first silent second, the last one and the two calls after it. The three reports
of `decode` hold every field, both hemispheres, both kinds of discriminator, blank and
negative values and both ranges of luminosity; the cuts put the end of the line at
every place a field can begin or end. Three values of a counter are enough to tell a
difference from a sum and to wrap. Bytes of two bits have a sign and a magnitude,
and every pair of frames is met, since what is kept of a frame is two values. For
`pigpio` three payloads have temperatures of both signs, sums that wrap and a sum of 0;
one edge of noise (`MaxNoise`) is one more than a frame should have, and one that is lost
(`MaxLost`) one less; both in one frame are 40 again. A `Modulus` of 4 has
ports that are negative, zero, positive and zero again as an unsigned. There is no
bound on the number of sessions, failures or restarts: all runs are exhaustive.

## Fairness

`FairSpec` assumes that the program's own steps are taken (it has one thread and
nothing else to do), that `select` returns (it has a timeout of a second), that an
HTTP request ends (TCP and the database see to that; libcurl is given no timeout),
that systemd restarts what failed, and that a program that chooses servers again
and again is not given a rejected one every time (`cwop.aprs2.net` is a rotation).
`SessionsEnd` and `SignalStops` are stated for servers that end each of their lines
(`LinesEnd`): `mWaitTime` bounds the silence between two bytes and nothing bounds a
line, so that a server that goes on for ever holds `getPacket` for ever.
No fairness is assumed of servers, signals, or of a `getPacket` that spins: its line
grows until the memory is used up, which the string stream does not report (an
inserter that fails sets `badbit`). In `AprsDecode` fairness only says that a
function that does not wait goes on. In `SysMonitor` it says that the program goes
on, that `sleep(30)` and a request end, and that systemd restarts what failed. In
`DhtPigpio` both threads run and every delay ends.

## What is proved

For every set of descriptors, feed and `MaxWait` (assumption
`AprsISAssumption`): `TypeCorrect`, `NoDescriptorLeak`, `ReadsInStep` and
`SilenceIsBounded`. None of the last three is inductive. `DescriptorInv` needs to
know when a link exists (`LinkInv`); `InStep` speaks of the packet loop, and holds
there because of what the greeting, the version check and the reply each
establish (`HandshakeInv`); `WaitBound` needs the silence at every point of
`openConnection` (`SilenceInv`), because the silent seconds of one call are the
beginning of the next one's. The invariant is proved by one lemma for each of its
parts with one step for each action.

For every cycle rate and configuration (`AprsWxAssumption`): every step of the daemon
is a step of its connection or leaves it alone, by the way `AprsWx` is written, so that
the connection's invariant holds inside the daemon. It proves `SessionsClose` together
with an invariant that relates the place in `main` to the place in the connection
(`CallsInv`), the count and the request. `CallsAreInOrder` follows from the two: that
a rest of a line reaches `main` only as the first packet of a session, after a wait of
`openConnection` that was given up, needs `InStep` of the connection and the count.
`ReportsSurvive` needs only that erasing keeps what is fresh.
`OnlyFreshReportsArePublished` assumes `~InfluxRepeats`: the only way to a push is then
a weather packet, which has just erased what is old, and no time passes before the push.
`AggregatorIsTyped` and `DaemonIsTyped` assume of the readings what the decoder is
checked to return (`AggregatorAssumption`).

For every set of stations and readings: `MeansAreWithinReports`, `DewPointIsNeverAbove`
and `AggregatorImplementsFeed`. All three rest on `SumsMatch`: the two arrays are the
sums of the weighted values and of the weights of the reports in the map, each report
once for each row of the table that it has a value for. Storing a report establishes it,
because both arrays are rebuilt after the erasing; time, which changes only ages, keeps
it, and so do a push and the end of the process. A mean between two bounds is then a
lemma about sums (`SumIsBetween`). For the dew point, `SendsMeans` says that what is
being sent is the text of means of some reports, not necessarily of those in the map
now. For `WeatherFeed` the mapping forgets what is too old; each operation is shown to
be a step of the feed or a stutter, and `BeginPush` sends the text the feed sends because
a quotient of sums is the mean of what is remembered.

For every feed, set of descriptors and list of addresses: `SocketImplementsAprsIS`. The
refinement mapping is the identity; what has to be carried along is that the bytes read
and the bytes left are a whole line, or the rest of one whose beginning was given up
(`StreamInv`), what `stringBuf` and `buf` hold within a call (`ReaderInv`), and that a
socket is open only while its address is tried (`SearchInv`, which also gives
`SearchLosesNoSocket`). With it what is proved of `AprsIS` holds of the bytes.
`SearchVisitsInOrder` needs more of `SearchInv`: every visit that is not a candidate any
more was to an address that has refused. What precedes the first candidate is no
candidate, so it has refused; that there is a first one is induction over the passes and
over the list (`LeastExists`). `SocketIsTyped` bounds the string by the length of a line.
`SearchTakesBoundedSteps` and `ReaderTakesBoundedSteps` are the parts of `SessionsEnd`
that need no fairness. A step of the search opens a socket or gives a visit up, and there
are at most three visits to an address (`ToTry`). A turn of the loop of `getPacket` that
is not its last reads one of the bytes the line has left or uses up one of the seconds
that silence may last, which a byte restores (`ToRead`). Lines have four bytes in this
model; a server whose line does not end is the subject of `LinesEnd`. The turns of a
`getPacket` that has met the end of the file are not bounded, as `end_of_file` shows.

For every set of numbers and every width of an unsigned: `OptionsAreTyped`,
`ValidFilesSuffice` and `DestinationsAreKnown`. An option with a default has a value
until a bad line takes it, and then the file is not valid: that, and where in the loops
each option has been tested, is the invariant.

For every width of the counters: `MonitorIsTyped` and `IdleTimeIsMeasuredOnce`, whose
arithmetic (`Telescopes`) is that differences modulo the width add up to the difference
of the last and the first reading. It is about what is measured: a push writes a
percentage, and that is 0.

For every set of lines: `LongReportsAreDecoded`, `OutsideIsIgnored`, `ReportsAreTyped`
and `DecodeTakesBoundedSteps`. The first follows the cursor (`CursorInv`: every field before the
weather begins at a fixed distance from the position), so that the only exception is at
a wind speed, a minute or a degree that would begin beyond the end. The second needs
that a field that reaches the end of its line holds the terminator, and that no number
does. The third needs that the digits of a field, of any length, add up to a number
(`NaturalIsNat`), that the divisor of its decimals is positive, that the other forms of
numbers stay infinite or NaN when they are scaled, and that the row of a dew point or a
humidex, which every terminator matches, has an empty field that is not converted. `DecodeTakesBoundedSteps` is the part of `DecodeEnds`
that needs no fairness: every step leaves fewer fields, or in the weather fewer
characters (`Remaining`), on lines of any length.

For every set of reports that are written as `IsReport` says: `SentIsDecoded`, which is
`DecodesWhatWasSent`. A report may have its fields in any order, more than once or not at
all, blank or with any value that fits their digits, with or without a sign, in both
hemispheres, with or without a time and a comment. What the prover needs is that digits
stand for the number they were written for, of any width: `DecimalIsNatural` by induction
over the digits, from there `LongOfDigits` for the fields of the weather, `DoubleOfMinutes`
for a coordinate (exact to the hundredth of a minute), and `BlankIsNoNumber` for a field
that holds dots or spaces. The invariant (`SentInv`) says of each place in `decode` where
the cursor stands and what the report holds already; in the weather the cursor is at one
of the stops, and the report holds the values of exactly the symbols whose fields lie
before it (`DecodedSoFar`). A flag may have two rows, of which the code takes the first
that matches; `RowAt` is that row in the text as in the decoder, and two fields of one
symbol agree because both were written from the one value.

For every width of a byte, set of payloads and number of stray and lost edges: `PigpioIsTyped`,
`PrintsOnlyWhatWasSent` and `CleanReadingsArePrinted`. The invariant counts. `Total` is
what `bitCount` will be when no more edges come: the count, one for a callback that
holds it incremented, and the edges that wait. An undisturbed set-up makes it -3, a
whole frame 40; a lost edge brings it down and a stray one up, and no interleaving of the
callback with `main` changes it but a bit beyond the frame that overwrites the count,
which then was, and stays, above 40. As long as edges are lost or late, or are added, and
not both (`Mixed`), 40 are counted at the check only if nothing was lost or added, and
`Faithful` holds: the edges that were counted are the bits that were sent, and each byte
of `data` holds the upper bits of the byte it stands for, as many as were shifted into
it (`Width`). A callback that is late is then in the 40th bit, the last of the check
sum, and the four bytes that are printed are complete; an edge beyond the frame falls
behind the array. Both exceptions are real: with an edge lost and another added the
bits of a frame are shifted against its bytes, and only the sum is left, which does not
refuse every such frame; and of an attempt that was set up beside a callback (`raced`)
the invariant knows only the types. TLC finds a wrong print without either condition.

For every width of a byte: `PolledShowsTheLastGoodFrame` and `PolledIsTyped`. When at
least 40 bits are read, at most one of them is not the bit that was sent
(`OneBitAtMost`: it is the misread one, or the one a frame broke off at, which is read
as 1). A byte with one bit changed differs by a power of two below the modulus
(`OneBitDiffers`, by induction over its bits), so that at most one of the five bytes
differs, by less than the modulus (`OneByteDiffers`). If it is one of the four that are
summed, the sum moves by as much and the fifth byte stays; if it is the fifth, the sum
stays: in both cases they are equal only if nothing differs (`SumTells`). The cached and
the shown values are then those of the last frame that arrived as sent (`LastGoodInv`),
and `ValuesFacts` is the arithmetic of two bytes, a magnitude and a sign.

Sums, folds and recursive functions are reasoned about by induction over sets: a set
of numbers that holds 0 and with a number its successor holds them all, and a family of
finite sets that holds the empty set and with a set each that has one element more
holds them all (`Induction`, `FiniteInduction`). The definition of a fold or of a
recursive function is a choice; that there is a function to choose is proved first, by
the same induction.

Only model-checked: what needs fairness, that sessions end and signals stop
the programs, that `decode`, the monitor and the readers end. The `MaxWait + 3` of
`WaitBound` shows in the proof where it comes from.

## What is not modelled

`listen`, `accept`, `shutdown` and the move assignment of the sockets are called by no
program here. The parsing of the configuration file and of the command line is in `util/`,
which the repository does not hold; `Startup` takes from it a value or none for each line.
`decode` computes a distance from the position by trigonometry,
which has no counterpart here: `AprsPacket` takes distances at which the weight is
exact. The APRS conventions that the decoder does not know (`h00` for 100 %, `s`
for snow after the wind) are not in the repository and not in the model. Two
signals need no distinction from one. systemd's kill 90 seconds after a stop
request is `Killed`. SIGPIPE is ignored in a service (systemd's default), so that
writing the login to a dead connection has no effect. An identification between
the greeting and the answer to the login is left out: servers send one every 20
seconds and answer at once. `src/README.md:109` says that repeated pushes come "on
receipt of server identification message"; in the code the identification of an
aprsc server repeats one, that of an accepted javAPRSSrvr does not. The model has the code's dispatch (`Repeat`) and no run for the sentence.

## Known differences without a run

* `sys_monitor.cpp:116`: no `case` adds to `used`, so that `cpuUse` is always written
  as 0.
* `DHT22.c:85`: the temperature is computed with its sign bit and then negated
  (`dhtxx_pigpio.c:126` takes the bit out); -0.1 C is shown as -3276.9 C.
* `aprs_wx.cpp:166` and `sys_monitor.cpp:233` print "Invalid configuration file ...
  exiting." and go on with the options that are left.
* `sys_monitor.cpp:237` prints that "data will not be stored"; the next statement throws,
  and `main` returns 0.
* `aprs_wx.cpp:141-142`: a port of -1 is 4294967295 when it is compared with 0, and is
  accepted. `cycleRate=0` is accepted too, and makes a daemon that connects and
  disconnects for ever.
* `dhtxx_pigpio.c:88-92`: an edge whose callback runs between or beside the two
  assignments can make an attempt print what was not sent, and so can an edge that is lost
  and another that is added in one frame. `PrintsWhatWasSent` is stated for attempts
  without that; TLC finds a counterexample when either condition is dropped.
* `APRS_Packet.h:60`: `strtod` takes `nan` and `inf` for a field, and the report is stored.
* `dhtxx_pigpio.c:51` says "default DHT11"; the default is DHT22.

## The plan

1. Done: every program of the repository is modelled, and the connection, the daemon, the
   decoder, the configuration and the monitor have theorems.
2. Done: the order of the search, the sums and the abstract feed, the types of the
   decoder, and the reader with callbacks have theorems.
3. Done: a sum tells one misread bit, for every width of a byte, so that the polled reader
   has theorems too, and a bound on the steps of `decode`.
4. Done: what is written for a number is decoded as that number, so that the round trip
   of a report is a theorem, for every report and not for three.
5. Done: `getPacket` and the search of addresses leave less to do with each step.
6. The same for the loops of the readers of the sensor and for the end of the monitor.
