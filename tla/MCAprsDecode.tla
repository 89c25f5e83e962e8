---------------------------- MODULE MCAprsDecode ----------------------------
(* Reports, what is left of them when they are cut short, and what becomes  *)
(* of them when one character is changed; numbers that are not written with *)
(* digits and a point only.                                                 *)
EXTENDS AprsDecode

Characters(text) == SubSeq([i \in 1 .. Len(text) |-> SubSeq(text, i, i)], 1, Len(text))

Report(name, lat, lon, value) ==
    [name |-> Characters(name), lat |-> <<lat>>, lon |-> <<lon>>, value |-> value]

\* All fields; southern and eastern, with a time, a blank gust, a high
\* luminosity and a comment; the fields after the wind in another order.
MCSent == {
    [line |-> Characters("VE3>A:!4530.50N/07540.25W_220/004g005t-05r001p020P003b10132h50L350\n"),
     stops |-> <<33, 37, 41, 45, 49, 53, 59, 62, 66>>,
     report |-> Report("VE3", <<273050, 6000>>, <<-454025, 6000>>,
        "WindDirection" :> <<220, 1>> @@ "WindSpeed" :> <<4, 1>> @@ "WindGust" :> <<5, 1>>
        @@ "Temperature" :> <<-5, 1>> @@ "RainHour" :> <<1, 100>> @@ "RainDay" :> <<20, 100>>
        @@ "RainMidnight" :> <<3, 100>> @@ "Pressure" :> <<10132, 10>>
        @@ "Humidity" :> <<50, 1>> @@ "Luminosity" :> <<350, 1>>)],
    [line |-> Characters("ZL>A:@092345z4530.50s/07540.25e_.../...g   t077l050 Rain\n"),
     stops |-> <<39, 43, 47, 51>>,
     report |-> Report("ZL", <<-273050, 6000>>, <<454025, 6000>>,
        "Temperature" :> <<77, 1>> @@ "Luminosity" :> <<1050, 1>>)],
    [line |-> Characters("K>A:=4530.50N/07540.25W_220/004h09b09990t000\n"),
     stops |-> <<31, 34, 40, 44>>,
     report |-> Report("K", <<273050, 6000>>, <<-454025, 6000>>,
        "WindDirection" :> <<220, 1>> @@ "WindSpeed" :> <<4, 1>>
        @@ "Humidity" :> <<9, 1>> @@ "Pressure" :> <<9990, 10>> @@ "Temperature" :> <<0, 1>>)] }

MCSentLines == {m.line : m \in MCSent}

Cut(l) == {Append(SubSeq(l, 1, k), Terminator) : k \in 0 .. Len(l) - 1}

Changed(l) == {[l EXCEPT ![k] = c] : k \in 1 .. Len(l) - 1, c \in {"t", "-"}}

MCOtherForms ==
    Characters("nan") :> <<0, 0>> @@ Characters("NaN") :> <<0, 0>>
    @@ Characters("inf") :> <<1, 0>> @@ Characters("2e3") :> <<2000, 1>>
    @@ Characters("0xf") :> <<15, 1>>

Unusual == {Characters(text) : text \in {
    "K>A:=4530.50N/07540.25W_nan/infg\t-1tnanr0xfp2e3h+9\n",
    "K>A:=45  infS/075  NaNW_220/004t077\n" }}

MCLines == Unusual \cup MCSentLines \cup UNION {Cut(l) : l \in MCSentLines}
               \cup UNION {Changed(m.line) : m \in {r \in MCSent : r.report.name = <<"K">>}}
               \cup {Characters("\n"), Characters("!\n"), Characters("VE3>A:>status\n")}

MCChars == {"N", "W", "0", "\n"}

=============================================================================
