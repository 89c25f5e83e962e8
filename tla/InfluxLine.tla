----------------------------- MODULE InfluxLine -----------------------------
(***************************************************************************)
(* What one push writes (WeatherAggregator::printInfluxFormat): the        *)
(* weighted mean of every aggregated symbol, in metric units, and the      *)
(* quantities computed from them.                                          *)
(*                                                                         *)
(* Numbers are exact: a rational is a pair <<n, d>>, and d = 0 is NaN, the *)
(* quotient 0. / 0. of a symbol whose reports all have the weight 0.  The  *)
(* text of a push is a function from the database's field names to the     *)
(* values; the empty text is the empty function.                           *)
(***************************************************************************)
EXTENDS AprsPacket, FiniteSetsExt

\* The quotient of two aggregates, in lowest terms.  The values of a report are
\* kept as the digits of its packet; Metric applies the factor.
Ratio(n, d) ==
    IF d = 0 THEN <<0, 0>>
    ELSE LET g == Max({k \in 1 .. d : n % k = 0 /\ d % k = 0})
         IN  <<n \div g, d \div g>>

FahrenheitToCelsius(q) == <<(q[1] - 32 * q[2]) * 5, q[2] * 9>>

\* A value below 0.01 inch is no rain; NaN is below nothing.
DropTrace(q) == IF q[1] * 100 < q[2] THEN <<0, 1>> ELSE q

Convert(units, q) ==
    CASE units = "Fahrenheit" -> FahrenheitToCelsius(q)
      [] units = "inch_100"   -> <<DropTrace(q)[1] * 254, DropTrace(q)[2] * 10>>
      [] units = "MPH"        -> <<q[1] * 160934, q[2] * 100000>>
      [] OTHER                -> q

\* The rows of the table that are printed: the 'l' row only serves decoding.
Printed == {WeatherItemList[i] : i \in {j \in DOMAIN WeatherItemList :
                                          WeatherItemList[j].wxFlag # "l"}}

Metric(mean, sym) ==
    LET item == CHOOSE it \in Printed : it.wxSym = sym
    IN  Convert(item.units, <<mean[sym][1], mean[sym][2] * item.factor>>)

\* Mutant: dry air moves the dew point up.
DewPoint_Added(celsius, relHumidity) ==
    <<5 * celsius[1] * relHumidity[2] - relHumidity[1] * celsius[2]
        + 100 * celsius[2] * relHumidity[2],
      5 * celsius[2] * relHumidity[2]>>

\* celsius - ((100. - relHumidity) / 5.)
DewPoint(celsius, relHumidity) ==
    <<5 * celsius[1] * relHumidity[2] + relHumidity[1] * celsius[2]
        - 100 * celsius[2] * relHumidity[2],
      5 * celsius[2] * relHumidity[2]>>

Has(mean, syms) == syms \subseteq DOMAIN mean

\* Humidex and wind chill stand for the arguments they are computed from.
PostField(mean) ==
    LET items       == {it \in Printed : it.wxSym \in DOMAIN mean}
        lines       == [name \in {it.dbName : it \in items} |->
                          Metric(mean, (CHOOSE it \in items : it.dbName = name).wxSym)]
        temperature == Metric(mean, "Temperature")
        relHumidity == Metric(mean, "Humidity")
        windGust    == Metric(mean, "WindGust")
        dewPoint    == DewPoint(temperature, relHumidity)
        fromAir     == IF Has(mean, {"Temperature", "Humidity"})
                         THEN [DewPt |-> dewPoint, Humidex |-> <<temperature, dewPoint>>]
                         ELSE <<>>
        fromWind    == IF Has(mean, {"Temperature", "WindGust"})
                         THEN [WindChill |-> <<temperature, windGust>>]
                         ELSE <<>>
    IN  [name \in DOMAIN fromAir \cup DOMAIN fromWind \cup DOMAIN lines |->
           CASE name \in DOMAIN fromAir  -> fromAir[name]
             [] name \in DOMAIN fromWind -> fromWind[name]
             [] OTHER                    -> lines[name]]

=============================================================================
