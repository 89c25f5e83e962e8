------------------------- MODULE WeatherAggregator -------------------------
(***************************************************************************)
(* The aggregator (WeatherAggregator.cpp): the last report of every        *)
(* station, the weighted sums computed from them when a report arrives,    *)
(* and the HTTP request that writes the means to InfluxDB.                 *)
(*                                                                         *)
(* Time is the age of the reports, counted in ticks; an age above MaxAge   *)
(* is an age of more than 90 minutes, and is not told from other such ages.*)
(***************************************************************************)
EXTENDS InfluxLine

CONSTANTS
    Stations,    \* the names weather packets come from
    Readings,    \* what a packet says: [distance |-> ..., value |-> ...]
    MaxAge       \* 5400 seconds, in ticks

ASSUME AggregatorAssumption ==
    /\ MaxAge \in Nat
    /\ \A r \in Readings : /\ DOMAIN r = {"distance", "value"}
                           /\ r.distance \in HannDistances
                           /\ DOMAIN r.value \subseteq Decodable
                           /\ \A sym \in DOMAIN r.value : r.value[sym] \in Int

VARIABLES
    reports,            \* the map: station -> its report
    mValueAggregate,    \* symbol -> sum of value * weight, where there is one
    mHannAggregate,     \* symbol -> sum of weights
    request,            \* the text of the HTTP request under way, or <<>>
    influx              \* the last text the database stored

vars == <<reports, mValueAggregate, mHannAggregate, request, influx>>

Init == /\ reports = <<>>
        /\ mValueAggregate = <<>>
        /\ mHannAggregate = <<>>
        /\ request = <<>>
        /\ influx = <<>>

-----------------------------------------------------------------------------
(* aggregateData: erase the old reports, sum what is left. *)

Report(r) == [mHannValue |-> HannValue(r.distance), mWeatherValue |-> r.value, age |-> 0]

\* weatherAggregator[wx->mName] = std::move(wx)
Insert(m, s, r) == [x \in DOMAIN m \cup {s} |-> IF x = s THEN Report(r) ELSE m[x]]

\* Mutant: aggregateData sums without erasing.
Evict_Never(m) == m

\* clearAggregateData erases what is more than 90 minutes old.
Evict(m) == Restrict(m, {s \in DOMAIN m : m[s].age <= MaxAge})

Contributors(m, sym) == {s \in DOMAIN m : sym \in DOMAIN m[s].mWeatherValue}

\* The inner loop runs over the table: a symbol counts once for every row.
Terms(m, sym) == {i \in DOMAIN WeatherItemList : WeatherItemList[i].wxSym = sym}
                   \X Contributors(m, sym)

Aggregated(m) == {sym \in WxSym : Contributors(m, sym) # {}}

\* Mutant: a value of 0 is taken for no value (if (value) on the number).
ValueSum_NonZero(m) ==
    [sym \in {x \in Aggregated(m) : \E s \in Contributors(m, x) :
                                      m[s].mWeatherValue[x] # 0} |->
        SumFunction([t \in Terms(m, sym) |->
                       m[t[2]].mWeatherValue[sym] * m[t[2]].mHannValue])]

\* Mutant: later values are added without their weight.
ValueSum_Unweighted(m) ==
    [sym \in Aggregated(m) |->
        SumFunction([t \in Terms(m, sym) |-> m[t[2]].mWeatherValue[sym]])]

ValueSum(m) ==
    [sym \in Aggregated(m) |->
        SumFunction([t \in Terms(m, sym) |->
                       m[t[2]].mWeatherValue[sym] * m[t[2]].mHannValue])]

HannSum(m) ==
    [sym \in Aggregated(m) |->
        SumFunction([t \in Terms(m, sym) |-> m[t[2]].mHannValue])]

aggregateData(m) ==
    /\ reports' = Evict(m)
    /\ mValueAggregate' = ValueSum(Evict(m))
    /\ mHannAggregate' = HannSum(Evict(m))

-----------------------------------------------------------------------------
(* The operations. *)

\* A weather packet has been decoded: store it, and aggregate.
Update(s, r) ==
    /\ request = <<>>
    /\ aggregateData(Insert(reports, s, r))
    /\ UNCHANGED <<request, influx>>

Means == [sym \in DOMAIN mValueAggregate |->
            Ratio(mValueAggregate[sym], mHannAggregate[sym])]

\* pushToInflux: no request is made when there is nothing to write.
BeginPush ==
    /\ request = <<>>
    /\ PostField(Means) # <<>>
    /\ request' = PostField(Means)
    /\ UNCHANGED <<reports, mValueAggregate, mHannAggregate, influx>>

\* perform() returns or throws.  A request that fails may have been stored.
EndPush(stored) ==
    /\ request # <<>>
    /\ influx' = IF stored THEN request ELSE influx
    /\ request' = <<>>
    /\ UNCHANGED <<reports, mValueAggregate, mHannAggregate>>

Older(n) == IF n > MaxAge THEN n ELSE n + 1

Tick ==
    /\ reports' = [s \in DOMAIN reports |-> [reports[s] EXCEPT !.age = Older(@)]]
    /\ UNCHANGED <<mValueAggregate, mHannAggregate, request, influx>>

\* The process ends, whatever it was doing.
Die ==
    /\ reports' = <<>>
    /\ mValueAggregate' = <<>>
    /\ mHannAggregate' = <<>>
    /\ request' = <<>>
    /\ influx' \in {influx} \cup ({request} \ {<<>>})

Next == \/ \E s \in Stations, r \in Readings : Update(s, r)
        \/ BeginPush
        \/ \E stored \in BOOLEAN : EndPush(stored)
        \/ Tick
        \/ Die

Spec == Init /\ [][Next]_vars

-----------------------------------------------------------------------------
(* Properties. *)

IsNumber(q) == q \in Int \X Nat       \* with the denominator 0, NaN

\* A text has fields of the table, and the two that are computed without a row.
IsText(text) ==
    /\ DOMAIN text \subseteq {it.dbName : it \in Printed} \cup {"WindChill"}
    /\ \A name \in DOMAIN text :
          IF name \in {"Humidex", "WindChill"}
            THEN IsNumber(text[name][1]) /\ IsNumber(text[name][2])
            ELSE IsNumber(text[name])

\* Every variable has its type: the map is of reports with a weight, an age and
\* whole numbers under the symbols that a packet can carry; every aggregate has a
\* sum of values and a sum of weights, and only such symbols are aggregated; what
\* is sent and what the database stored are texts of numbers under the field
\* names of the table (aggregateData, printInfluxFormat).
AggregatorTypeOK ==
    /\ DOMAIN reports \subseteq Stations
    /\ \A s \in DOMAIN reports :
          /\ DOMAIN reports[s] = {"mHannValue", "mWeatherValue", "age"}
          /\ reports[s].mHannValue \in 0 .. 4
          /\ reports[s].age \in 0 .. MaxAge + 1
          /\ DOMAIN reports[s].mWeatherValue \subseteq Decodable
          /\ \A sym \in DOMAIN reports[s].mWeatherValue : reports[s].mWeatherValue[sym] \in Int
    /\ DOMAIN mValueAggregate \subseteq Decodable
    /\ DOMAIN mHannAggregate = DOMAIN mValueAggregate
    /\ \A sym \in DOMAIN mValueAggregate : /\ mValueAggregate[sym] \in Int
                                           /\ mHannAggregate[sym] \in Nat
    /\ IsText(request)
    /\ IsText(influx)

\* A weighted mean lies between the smallest and the largest value that a
\* station in the map reports for the symbol: no report counts in one of the two
\* sums and not in the other, however often its row is listed, and nothing of
\* an erased or replaced report is left in the sums (aggregateData).
MeanWithinReports ==
    \A sym \in DOMAIN mValueAggregate :
        LET values == {reports[s].mWeatherValue[sym] : s \in Contributors(reports, sym)}
        IN  mHannAggregate[sym] > 0 =>
              /\ Min(values) * mHannAggregate[sym] <= mValueAggregate[sym]
              /\ mValueAggregate[sym] <= Max(values) * mHannAggregate[sym]

\* The dew point that is sent is never above the temperature that is sent with
\* it while the humidity is at most 100%: both are in Celsius, whatever the
\* order in which printInfluxFormat meets, converts and gathers them.
DewPointBelowTemperature ==
    Has(request, {"DewPt", "Temp", "RelHum"}) =>
        LET dp == request["DewPt"]
            t  == request["Temp"]
            rh == request["RelHum"]
        IN  rh[1] <= 100 * rh[2] => dp[1] * t[2] <= t[1] * dp[2]

\* The aggregator, which erases lazily and keeps sums, does what WeatherFeed
\* promises of one that forgets at once and computes means.
Feed == INSTANCE WeatherFeed WITH
            heard    <- Restrict(reports, {s \in DOMAIN reports : reports[s].age <= MaxAge}),
            mean     <- Means,
            outbound <- request,
            stored   <- influx

ImplementsWeatherFeed == Feed!Spec

=============================================================================
