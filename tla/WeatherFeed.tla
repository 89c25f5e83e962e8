---------------------------- MODULE WeatherFeed ----------------------------
(***************************************************************************)
(* What the aggregator promises, whatever it keeps and whenever it tidies  *)
(* up: every value it publishes is the weighted mean, taken when a report  *)
(* arrived, of the latest reports of the stations heard in the last 90     *)
(* minutes.  A report is gone from here as soon as it is too old, and no   *)
(* sum is kept: WeatherAggregator erases old reports only when another one *)
(* arrives, and works with sums.                                           *)
(***************************************************************************)
EXTENDS InfluxLine

CONSTANTS Stations, Readings, MaxAge

VARIABLES
    heard,       \* station -> its latest report, no more than 90 minutes old
    mean,        \* symbol -> its weighted mean when the last report arrived
    outbound,    \* what is being sent to the database, or <<>>
    stored       \* what the database stored last

vars == <<heard, mean, outbound, stored>>

Init == heard = <<>> /\ mean = <<>> /\ outbound = <<>> /\ stored = <<>>

Telling(h, sym) == {s \in DOMAIN h : sym \in DOMAIN h[s].mWeatherValue}

WeightedMean(h, sym) ==
    Ratio(SumFunction([s \in Telling(h, sym) |-> h[s].mHannValue * h[s].mWeatherValue[sym]]),
          SumFunction([s \in Telling(h, sym) |-> h[s].mHannValue]))

Arrive(s, r) ==
    /\ outbound = <<>>
    /\ heard' = [x \in DOMAIN heard \cup {s} |->
                    IF x = s THEN [mHannValue |-> HannValue(r.distance),
                                   mWeatherValue |-> r.value, age |-> 0]
                    ELSE heard[x]]
    /\ mean' = [sym \in {x \in WxSym : Telling(heard', x) # {}} |->
                  WeightedMean(heard', sym)]
    /\ UNCHANGED <<outbound, stored>>

\* Time passes: what becomes too old is not heard any more.
Pass ==
    /\ heard' = [s \in {x \in DOMAIN heard : heard[x].age < MaxAge} |->
                   [heard[s] EXCEPT !.age = @ + 1]]
    /\ UNCHANGED <<mean, outbound, stored>>

Send == /\ outbound = <<>>
        /\ outbound' = PostField(mean)
        /\ UNCHANGED <<heard, mean, stored>>

Answer == /\ outbound' = <<>>
          /\ stored' \in {stored} \cup ({outbound} \ {<<>>})
          /\ UNCHANGED <<heard, mean>>

\* The memory of a process ends with it.
Forget == /\ heard' = <<>> /\ mean' = <<>> /\ outbound' = <<>>
          /\ stored' \in {stored} \cup ({outbound} \ {<<>>})

Next == \/ \E s \in Stations, r \in Readings : Arrive(s, r)
        \/ Pass \/ Send \/ Answer \/ Forget

Spec == Init /\ [][Next]_vars

=============================================================================
