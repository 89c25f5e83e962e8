------------------------ MODULE MCWeatherAggregator ------------------------
(* Two stations near the centre, half way and on the radius; values on both *)
(* sides of zero, of the trace of rain and of saturated air.                *)
EXTENDS WeatherAggregator, TLC

CONSTANTS north, south

MCStations == {north, south}

Reading(d, v) == [distance |-> d, value |-> v]

MCReadings == {
    Reading(0, "Temperature" :> 14 @@ "Humidity" :> 100 @@ "WindGust" :> 10),
    Reading(3, "Temperature" :> -4 @@ "RainHour" :> 1 @@ "Luminosity" :> 1200),
    Reading(4, "Humidity" :> 40 @@ "RainHour" :> 0 @@ "Luminosity" :> 300),
    Reading(6, "Temperature" :> 80 @@ "RainHour" :> 7 @@ "Luminosity" :> 90),
    Reading(2, <<>>) }

=============================================================================
