----------------------------- MODULE AprsDecode -----------------------------
(***************************************************************************)
(* The decoder of packets (APRS_IS::decode): a cursor that moves over one  *)
(* line, field by field, and the report it fills.                          *)
(*                                                                         *)
(* A line is a sequence of characters that ends with the terminator, as    *)
(* getPacket leaves it in mPacket.  p0 is the C++ index, which starts at   *)
(* 0.  std::string::substr beyond the end throws; an index beyond the end  *)
(* is undefined behaviour and reads any character.                         *)
(*                                                                         *)
(* An optional value is a sequence of at most one element.  Numbers are    *)
(* exact: <<n, d>> is n / d, where <<1, 0>> and <<-1, 0>> are the          *)
(* infinities and <<0, 0>> is NaN, all of which strtod makes of a field.   *)
(***************************************************************************)
EXTENDS AprsPacket, SequencesExt

CONSTANTS
    Lines,      \* the lines decode is called on, which end with a terminator
    Sent,       \* what stations mean: records of a line, a report and the stops,
                \* the places where the weather's fields begin and where it ends
    Chars,      \* what is found beyond the end of a line
    OtherForms  \* the texts without digits and point only that strtod takes whole,
                \* after spaces and sign ("inf", "nan", exponents, hexadecimal
                \* numbers), and the value of each

ASSUME DecodeAssumption ==
    \A l \in Lines : l \in Seq(STRING) /\ Len(l) > 0 /\ l[Len(l)] = Terminator

VARIABLES
    line,       \* mPacket
    p0,         \* the cursor
    pc,         \* the next field
    status,     \* mPacketStatus of the packet that is returned
    report      \* the packet that is returned: name, position and values

vars == <<line, p0, pc, status, report>>

-----------------------------------------------------------------------------
(* Conversions. *)

Digit == {"0", "1", "2", "3", "4", "5", "6", "7", "8", "9"}
Figures == <<"1", "2", "3", "4", "5", "6", "7", "8", "9">>
DigitValue == [c \in Digit |-> IF c = "0" THEN 0 ELSE CHOOSE n \in 1 .. 9 : Figures[n] = c]

Space == {" ", "\t", "\f", "\r", "VT", Terminator}
Point == "."
Nul   == "NUL"

\* A double: a number, an infinity or NaN.
IsDouble(q) == q \in Int \X Nat /\ (q[2] = 0 => q[1] \in {-1, 0, 1})

ASSUME FormsAssumption ==
    \A text \in DOMAIN OtherForms :
        /\ text \in Seq(STRING) /\ text # <<>>
        /\ text[Len(text)] \notin Space
        /\ \E i \in DOMAIN text : text[i] \notin {Point, " "}
        /\ IsDouble(OtherForms[text])

Natural(digits) ==
    FoldLeft(LAMBDA n, c : IF c = Point THEN n ELSE 10 * n + DigitValue[c], 0, digits)

TenTo[n \in Nat] == IF n = 0 THEN 1 ELSE 10 * TenTo[n - 1]

\* std::from_chars: an optional minus and digits, up to the end.
SafeConvertLong(str) ==
    LET minus  == str # <<>> /\ str[1] = "-"
        digits == IF minus THEN Tail(str) ELSE str
    IN  IF digits # <<>> /\ \A i \in DOMAIN digits : digits[i] \in Digit
          THEN <<IF minus THEN -Natural(digits) ELSE Natural(digits)>>
          ELSE <<>>

\* Where strtod finds its number: after the spaces and the sign.
Spaces(str) ==
    CHOOSE k \in 0 .. Len(str) :
        /\ \A i \in 1 .. k : str[i] \in Space
        /\ k < Len(str) => str[k + 1] \notin Space

Signs(str) ==
    IF Spaces(str) < Len(str) /\ str[Spaces(str) + 1] \in {"-", "+"} THEN 1 ELSE 0

Numeral(str) == SubSeq(str, Spaces(str) + Signs(str) + 1, Len(str))

\* All of it is digits, with at most one point among them.
IsNumeral(digits) ==
    /\ \E i \in DOMAIN digits : digits[i] \in Digit
    /\ \A i \in DOMAIN digits :
         \/ digits[i] \in Digit
         \/ digits[i] = Point /\ \A j \in DOMAIN digits : digits[j] = Point => j = i

\* The value of the numeral, with the sign before it.
Signed(str, q) ==
    <<IF Signs(str) = 1 /\ str[Spaces(str) + 1] = "-" THEN -q[1] ELSE q[1], q[2]>>

Double(str) ==
    LET digits   == Numeral(str)
        decimals == Cardinality({i \in DOMAIN digits :
                                   \E j \in 1 .. i - 1 : digits[j] = Point})
    IN  Signed(str, <<Natural(digits), TenTo[decimals]>>)

\* Mutant: strtod's end pointer is not looked at, text after the number is dropped.
SafeConvertDouble_Prefix(str) ==
    LET good == {k \in 1 .. Len(str) : IsNumeral(Numeral(SubSeq(str, 1, k)))}
    IN  IF good # {} THEN <<Double(SubSeq(str, 1, Max(good)))>> ELSE <<>>

\* Mutant: an empty string is not refused, and strtod makes 0 of it.
SafeConvertDouble_Empty(str) ==
    IF str = <<>> THEN << <<0, 1>> >>
    ELSE IF IsNumeral(Numeral(str)) THEN <<Double(str)>>
    ELSE IF Numeral(str) \in DOMAIN OtherForms
           THEN <<Signed(str, OtherForms[Numeral(str)])>>
    ELSE <<>>

\* std::strtod, when it takes the whole string.
SafeConvertDouble(str) ==
    IF IsNumeral(Numeral(str)) THEN <<Double(str)>>
    ELSE IF Numeral(str) \in DOMAIN OtherForms
           THEN <<Signed(str, OtherForms[Numeral(str)])>>
    ELSE <<>>

-----------------------------------------------------------------------------
(* The cursor. *)

\* mPacket.substr(p, length), for p <= Len(line).
Substr(p, length) ==
    SubSeq(line, p + 1, IF p + length < Len(line) THEN p + length ELSE Len(line))

\* What mPacket[p] may read.
CharAt(p) == IF p < Len(line) THEN {line[p + 1]}
             ELSE IF p = Len(line) THEN {Nul} ELSE Chars

\* The position after the first c: npos + 1 is 0.
PositionAfter(c) ==
    LET found == {i \in DOMAIN line : line[i] = c}
    IN  IF found = {} THEN 0 ELSE Min(found)

\* What precedes the first c, or everything.
TerminatedBy(c) ==
    SubSeq(line, 1, IF PositionAfter(c) = 0 THEN Len(line) ELSE PositionAfter(c) - 1)

Return(packetStatus) == pc' = "done" /\ status' = packetStatus

\* std::out_of_range, which only main catches.
Throw == pc' = "threw" /\ UNCHANGED <<p0, status, report>>

-----------------------------------------------------------------------------
(* decode, one action for each field. *)

NoReport == [name |-> <<>>, lat |-> <<>>, lon |-> <<>>, value |-> <<>>]

Init ==
    /\ line \in Lines
    /\ p0 = 0
    /\ pc = "name"
    /\ status = "None"
    /\ report = NoReport

\* The station's name; the rest of the header is skipped.
Name ==
    /\ pc = "name"
    /\ report' = [report EXCEPT !.name = TerminatedBy(">")]
    /\ p0' = PositionAfter(":")
    /\ pc' = "discriminator"
    /\ UNCHANGED <<line, status>>

\* The loop around the switch is entered, since a line is not empty and its
\* terminator is not a colon, and left in its first iteration by every case.
Discriminator ==
    /\ pc = "discriminator"
    /\ p0' = p0 + 1
    /\ CASE line[p0 + 1] \in {"!", "="} -> pc' = "latitude" /\ UNCHANGED status
         [] line[p0 + 1] \in {"@", "/"} -> pc' = "dateTime" /\ UNCHANGED status
         [] OTHER -> Return("DecodingError")
    /\ UNCHANGED <<line, report>>

DateTimeLength == 7

\* p0 is at most the length of the line here.
DateTime ==
    /\ pc = "dateTime"
    /\ p0' = p0 + DateTimeLength
    /\ pc' = "latitude"
    /\ UNCHANGED <<line, status, report>>

DegreeLength == [latitude |-> 2, longitude |-> 3]
MinuteLength == 5
Positive == [latitude |-> {"N", "n"}, longitude |-> {"E", "e"}]
Negative == [latitude |-> {"S", "s"}, longitude |-> {"W", "w"}]

\* Degrees, minutes and a hemisphere: the coordinate they make, if they do.
Coordinate(which, degrees, minutes, c) ==
    IF degrees = <<>> \/ minutes = <<>> \/ c \notin Positive[which] \cup Negative[which]
      THEN <<>>
      ELSE LET n == minutes[1][1] + 60 * degrees[1] * minutes[1][2]
           IN  << <<IF c \in Positive[which] THEN n ELSE -n, 60 * minutes[1][2]>> >>

DecodeCoordinate(which, field, next, error) ==
    LET m == p0 + DegreeLength[which]
    IN  /\ pc = which
        /\ IF p0 > Len(line) \/ m > Len(line)
             THEN Throw
             ELSE \E c \in CharAt(m + MinuteLength) :
                    LET res == Coordinate(which, SafeConvertLong(Substr(p0, DegreeLength[which])),
                                          SafeConvertDouble(Substr(m, MinuteLength)), c)
                    IN  /\ p0' = m + MinuteLength + 1
                        /\ IF res # <<>>
                             THEN /\ report' = [report EXCEPT ![field] = res]
                                  /\ pc' = next
                                  /\ UNCHANGED status
                             ELSE Return(error) /\ UNCHANGED report
        /\ UNCHANGED line

Latitude  == DecodeCoordinate("latitude", "lat", "symTable", "ErrorLatitude")
Longitude == DecodeCoordinate("longitude", "lon", "symCode", "ErrorLongitude")

\* The two characters of the symbol, which nothing reads.
Symbol(here, next) ==
    /\ pc = here
    /\ p0' = p0 + 1
    /\ pc' = next
    /\ UNCHANGED <<line, status, report>>

Row(sym) == CHOOSE i \in DOMAIN WeatherItemList :
              /\ WeatherItemList[i].wxSym = sym
              /\ \A j \in 1 .. i - 1 : WeatherItemList[j].wxSym # sym

\* Mutant: the high range of the luminosity is forgotten.
DecodeWeatherValue_LowRange(value, p, sym, flag, factor) ==
    LET res == SafeConvertDouble(Substr(p, WeatherItemList[Row(sym)].digits))
    IN  IF res = <<>> THEN value
        ELSE [s \in DOMAIN value \cup {sym} |->
                IF s = sym THEN <<res[1][1], factor * res[1][2]>> ELSE value[s]]

\* The values after the field at p, which is kept when it is a number.
DecodeWeatherValue(value, p, sym, flag, factor) ==
    LET res  == SafeConvertDouble(Substr(p, WeatherItemList[Row(sym)].digits))
        high == IF flag = "l" THEN 1000 ELSE 0
    IN  IF res = <<>> THEN value
        ELSE [s \in DOMAIN value \cup {sym} |->
                IF s = sym
                  THEN <<res[1][1] + high * factor * res[1][2], factor * res[1][2]>>
                  ELSE value[s]]

WindLength == WeatherItemList[Row("WindDirection")].digits + 1

\* Mutant: the slash between direction and speed is skipped twice.
Wind_SkipsTwice ==
    /\ pc = "wind"
    /\ IF p0 + WindLength + 1 > Len(line)
         THEN Throw
         ELSE /\ report' = [report EXCEPT !.value = DecodeWeatherValue(
                    DecodeWeatherValue(@, p0, "WindDirection", Nul, 1),
                    p0 + WindLength + 1, "WindSpeed", Nul, 1)]
              /\ p0' = p0 + 2 * WindLength
              /\ pc' = "weather"
              /\ UNCHANGED status
    /\ UNCHANGED line

\* Direction, a character that is skipped, and speed.
Wind ==
    /\ pc = "wind"
    /\ IF p0 + WindLength > Len(line)
         THEN Throw
         ELSE /\ report' = [report EXCEPT !.value = DecodeWeatherValue(
                    DecodeWeatherValue(@, p0, "WindDirection", Nul, 1),
                    p0 + WindLength, "WindSpeed", Nul, 1)]
              /\ p0' = p0 + 2 * WindLength - 1
              /\ pc' = "weather"
              /\ UNCHANGED status
    /\ UNCHANGED line

Flagged(c) == {i \in DOMAIN WeatherItemList : WeatherItemList[i].wxFlag = c}

\* Mutant: the flag is looked at and not consumed.
Weather_KeepsFlag ==
    /\ pc = "weather"
    /\ p0 < Len(line)
    /\ LET flag == line[p0 + 1]
           item == WeatherItemList[Min(Flagged(flag))]
       IN  /\ Flagged(flag) # {}
           /\ report' = [report EXCEPT !.value =
                            DecodeWeatherValue(@, p0, item.wxSym, flag, item.factor)]
           /\ p0' = p0 + WeatherItemList[Row(item.wxSym)].digits
    /\ UNCHANGED <<line, pc, status>>

\* A field of the weather: the first row of the table with its flag.
Weather ==
    /\ pc = "weather"
    /\ p0 < Len(line)
    /\ LET flag == line[p0 + 1]
           item == WeatherItemList[Min(Flagged(flag))]
       IN  /\ Flagged(flag) # {}
           /\ report' = [report EXCEPT !.value =
                            DecodeWeatherValue(@, p0 + 1, item.wxSym, flag, item.factor)]
           /\ p0' = p0 + 1 + WeatherItemList[Row(item.wxSym)].digits
    /\ UNCHANGED <<line, pc, status>>

\* The weather ends with the line, or with a comment; the cursor is set back to
\* where the comment begins, or one before where it stood.
EndOfWeather ==
    /\ pc = "weather"
    /\ p0 < Len(line) => Flagged(line[p0 + 1]) = {}
    /\ p0' = IF p0 < Len(line) THEN p0 ELSE p0 - 1
    /\ Return("WxPacket")
    /\ UNCHANGED <<line, report>>

Next == \/ Name \/ Discriminator \/ DateTime
        \/ Latitude \/ Symbol("symTable", "longitude")
        \/ Longitude \/ Symbol("symCode", "wind")
        \/ Wind \/ Weather \/ EndOfWeather

Spec == Init /\ [][Next]_vars

\* decode runs to its end: nothing in it waits.
FairSpec == Spec /\ WF_vars(Next)

-----------------------------------------------------------------------------
(* What stations send: the text of a report. *)

Figure(d) == IF d = 0 THEN "0" ELSE Figures[d]

\* The last k digits of n.
Decimal(n, k) == [i \in 1 .. k |-> Figure((n \div TenTo[k - i]) % 10)]

\* The text is that of n: all digits, or a minus and digits.
Writes(text, n) ==
    \/ /\ Len(text) > 0 /\ n \in 0 .. TenTo[Len(text)] - 1
       /\ text = Decimal(n, Len(text))
    \/ /\ Len(text) > 1 /\ -n \in 0 .. TenTo[Len(text) - 1] - 1
       /\ text = <<"-">> \o Decimal(-n, Len(text) - 1)

\* Minutes with two decimals.
Minutes(whole, hundredths) == Decimal(whole, 2) \o <<Point>> \o Decimal(hundredths, 2)

Blank(text) == \A i \in DOMAIN text : text[i] \in {Point, " "}

Field(l, p, length) == SubSeq(l, p + 1, p + length)

\* Behind p are degrees, minutes, and a hemisphere.
HasCoordinate(l, p, which, q) ==
    LET length == DegreeLength[which]
        m == p + length
        c == l[m + MinuteLength + 1]
    IN  \E d \in 0 .. TenTo[length] - 1 :
          /\ Field(l, p, length) = Decimal(d, length)
          /\ \E h, k \in 0 .. 99 :
               LET n == 100 * (60 * d + h) + k
               IN  /\ Field(l, m, MinuteLength) = Minutes(h, k)
                   /\ \/ q = <<n, 60 * 100>> /\ c \in Positive[which]
                      \/ q = <<-n, 60 * 100>> /\ c \in Negative[which]

\* Behind p is what the report says of the symbol of row i, or nothing.
HasValue(m, p, i) ==
    LET item == WeatherItemList[i]
        text == Field(m.line, p, item.digits)
        high == IF item.wxFlag = "l" THEN 1000 * item.factor ELSE 0
        q    == m.report.value[item.wxSym]
    IN  IF item.wxSym \in DOMAIN m.report.value
          THEN q \in Int \X {item.factor} /\ Writes(text, q[1] - high)
          ELSE Blank(text)

\* The row of the field that begins at a stop.
RowAt(m, k) == Min(Flagged(m.line[m.stops[k] + 1]))

\* The symbols of the first k fields, after those of the wind.
Symbols(m, k) == {"WindDirection", "WindSpeed"}
                     \cup {WeatherItemList[RowAt(m, j)].wxSym : j \in 1 .. k}

\* The header, the discriminator and a time, up to p.
HasHeader(m, p) ==
    \E g, c \in DOMAIN m.line :
        /\ m.line[g] = ">" /\ \A i \in 1 .. g - 1 : m.line[i] # ">"
        /\ m.line[c] = ":" /\ \A i \in 1 .. c - 1 : m.line[i] # ":"
        /\ m.report.name = SubSeq(m.line, 1, g - 1)
        /\ \/ p = c + 1 /\ m.line[c + 1] \in {"!", "="}
           \/ p = c + 1 + DateTimeLength /\ m.line[c + 1] \in {"@", "/"}

\* The weather: fields in any order, and then a comment or the end of the line.
HasWeather(m) ==
    LET n == Len(m.stops) - 1
    IN  /\ \A k \in 1 .. n :
             LET i == RowAt(m, k)
             IN  /\ Flagged(m.line[m.stops[k] + 1]) # {}
                 /\ HasValue(m, m.stops[k] + 1, i)
                 /\ m.stops[k + 1] = m.stops[k] + 1 + WeatherItemList[i].digits
        /\ DOMAIN m.report.value \subseteq Symbols(m, n)
        /\ m.stops[n + 1] < Len(m.line)
        /\ \/ m.stops[n + 1] + 1 = Len(m.line)
           \/ Flagged(m.line[m.stops[n + 1] + 1]) = {}

IsReport(m) ==
    /\ m.stops \in Seq(Nat) /\ m.stops # <<>>
    /\ \E p \in DOMAIN m.line :
         /\ HasHeader(m, p)
         /\ HasCoordinate(m.line, p, "latitude", m.report.lat[1])
         /\ HasCoordinate(m.line, p + 9, "longitude", m.report.lon[1])
         /\ HasValue(m, p + 19, 1) /\ HasValue(m, p + 23, 2)
         /\ m.stops[1] = p + 26
    /\ HasWeather(m)
    /\ m.report = [name |-> m.report.name, lat |-> <<m.report.lat[1]>>,
                   lon |-> <<m.report.lon[1]>>,
                   value |-> [s \in DOMAIN m.report.value |-> m.report.value[s]]]

ASSUME SentAssumption == \A m \in Sent : IsReport(m)

-----------------------------------------------------------------------------
(* Properties. *)

\* The variables have their types: what a packet holds is a number, or the
\* infinity or NaN that decode stores like a number.  A packet never has a value
\* for dew point or humidex, although the terminator of every line is the flag
\* of their rows: the empty text behind it is not converted.
DecodeTypeOK ==
    /\ line \in Lines
    /\ p0 \in Nat
    /\ pc \in {"name", "discriminator", "dateTime", "latitude", "symTable",
               "longitude", "symCode", "wind", "weather", "done", "threw"}
    /\ status \in {"None", "WxPacket", "DecodingError", "ErrorLatitude", "ErrorLongitude"}
    /\ report.lat # <<>> => IsDouble(report.lat[1])
    /\ report.lon # <<>> => IsDouble(report.lon[1])
    /\ DOMAIN report.value \subseteq Decodable
    /\ \A sym \in DOMAIN report.value : IsDouble(report.value[sym])

\* The fields of a report come back with the values the station gave them, in
\* whatever order they are sent, and a field that was left blank has none.
DecodesWhatWasSent ==
    \A m \in Sent :
        line = m.line /\ pc = "done" => status = "WxPacket" /\ report = m.report

\* Where the position begins: after the header, the discriminator and a time.
Body ==
    LET p == PositionAfter(":")
    IN  p + 1 + (IF line[p + 1] \in {"@", "/"} THEN DateTimeLength ELSE 0)

\* The characters of a position, its symbol, and a direction with its slash.
ShortestReport ==
    DegreeLength.latitude + DegreeLength.longitude + 2 * (MinuteLength + 1) + 2 + WindLength

\* An exception ends the process and loses what it has aggregated.  decode
\* throws one only on a line that is too short for a position and a wind
\* direction: whatever else is wrong with a line, decode returns.
LongReportsDecode == pc = "threw" => Len(line) < Body + ShortestReport

\* A character read beyond the end of the line is any character.  It decides
\* nothing: a hemisphere that is not on the line is never the end of a
\* coordinate, since the field before it holds the terminator.
OutsideDecidesNothing ==
    [][\A which \in DOMAIN DegreeLength :
          /\ pc = which
          /\ p0 + DegreeLength[which] + MinuteLength > Len(line)
          => pc' = "threw" \/ status' \in {"ErrorLatitude", "ErrorLongitude"}]_vars

\* decode comes to an end: the rows of the table whose flag is the terminator
\* and whose width is 0 do not hold the cursor at the end of the line.
DecodeEnds == <>(pc \in {"done", "threw"})

=============================================================================
