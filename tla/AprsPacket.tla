----------------------------- MODULE AprsPacket -----------------------------
(***************************************************************************)
(* The data of a weather packet (APRS_Packet.h): the weather symbols, the  *)
(* table that lists them, and the weight a report gets from its distance.  *)
(*                                                                         *)
(* A decoded report carries, for some of the symbols, a value: the C++     *)
(* array of std::optional is a function whose domain is the set of symbols *)
(* that have a value.                                                      *)
(***************************************************************************)
EXTENDS Integers

\* The enumerators of WxSym.
WxSym == {"WindDirection", "WindSpeed", "WindGust", "Temperature", "Humidity",
          "RainHour", "RainDay", "RainMidnight", "Pressure", "Luminosity",
          "DewPoint", "Humidex"}

\* What a line ends with.
Terminator == "\n"

\* A row of the table.  A packet carries a number of so many digits after the
\* flag; the value is that number divided by the factor.
Item(sym, flag, digits, dbName, units, factor) ==
    [wxSym |-> sym, wxFlag |-> flag, digits |-> digits, dbName |-> dbName,
     units |-> units, factor |-> factor]

\* The table of weather items.  Luminosity is listed twice: under 'L', and
\* under 'l' for readings above 999.
WeatherItemList == <<
    Item("WindDirection", "c",  3, "WDir",    "Degrees", 1),
    Item("WindSpeed",     "s",  3, "WSpeed",  "MPH", 1),
    Item("WindGust",      "g",  3, "WGust",   "MPH", 1),
    Item("Temperature",   "t",  3, "Temp",    "Fahrenheit", 1),
    Item("Humidity",      "h",  2, "RelHum",  "Percent", 1),
    Item("RainHour",      "r",  3, "RHour",   "inch_100", 100),
    Item("RainDay",       "p",  3, "RDay",    "inch_100", 100),
    Item("RainMidnight",  "P",  3, "RainMid", "inch_100", 100),
    Item("Pressure",      "b",  5, "BarroP",  "hPa", 10),
    Item("Luminosity",    "L",  3, "Lumin",   "wPSqm", 1),
    Item("DewPoint",      Terminator, 0, "DewPt",   "Celsius", 1),
    Item("Humidex",       Terminator, 0, "Humidex", "Celsius", 1),
    Item("Luminosity",    "l",  3, "Lumin",   "wPSqm", 1) >>

\* The symbols a packet can carry: no packet has a field for the last two,
\* whose flag is the line terminator and whose width is 0.
Decodable == WxSym \ {"DewPoint", "Humidex"}

(***************************************************************************)
(* The weight of a report at distance d: the square of                     *)
(* sin(PI * (radius - d) / (radius * 2)).  Distances are in sixths of the  *)
(* radius and weights in quarters, which makes the weight a whole number   *)
(* at the distances below.                                                 *)
(***************************************************************************)
HannDistances == {0, 2, 3, 4, 6}

HannValue(d) == CASE d = 0 -> 4     \* sin^2(90 degrees), in quarters
                  [] d = 2 -> 3     \* sin^2(60 degrees)
                  [] d = 3 -> 2     \* sin^2(45 degrees)
                  [] d = 4 -> 1     \* sin^2(30 degrees)
                  [] d = 6 -> 0     \* sin^2(0): on the radius

=============================================================================
