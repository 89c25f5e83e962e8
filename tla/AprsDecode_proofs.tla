------------------------- MODULE AprsDecode_proofs -------------------------
(***************************************************************************)
(* Proofs about the decoder, for every set of lines: where its cursor is,  *)
(* what it reads beyond the end of a line, what it takes for a number, and *)
(* that it finds in a report what the station meant by it.                 *)
(* The conversions are folds and recursive functions: sets of numbers for  *)
(* which a claim holds stand in for the induction that no prover here can  *)
(* instantiate.                                                            *)
(***************************************************************************)
EXTENDS AprsDecode, FiniteSetTheorems, WellFoundedInduction, TLAPS

-----------------------------------------------------------------------------
(* Lemmas about the operators. *)

\* A set of natural numbers has a least element: Min is one.
LEMMA MinIsLeast ==
    ASSUME NEW S, S \subseteq Nat, S # {}
    PROVE  Min(S) \in S /\ \A y \in S : Min(S) =< y
<1> DEFINE Less == {ss \in Nat \X Nat : ss[1] < ss[2]}
<1>1. IsWellFoundedOn(Less, Nat)
    BY NatLessThanWellFounded, Zenon DEF OpToRel
<1>2. PICK x \in S : \A y \in S : <<y, x>> \notin Less
    <2> HIDE DEF Less
    <2> QED BY <1>1, WFMin
<1>3. ASSUME NEW y \in S
      PROVE  x =< y
    <2>1. x \in Nat /\ y \in Nat
        OBVIOUS
    <2>2. ~ (y < x)
        BY <1>2, <2>1
    <2> QED BY <2>1, <2>2
<1> QED BY <1>3 DEF Min

\* The greatest element of a set of numbers that has an upper bound.
LEMMA MaxIsGreatest ==
    ASSUME NEW n \in Nat, NEW S \in SUBSET (1 .. n), S # {}
    PROVE  Max(S) \in S /\ \A y \in S : Max(S) >= y
<1> DEFINE Above == {k \in Nat : \A y \in S : k >= y}
<1>1. n \in Above
    OBVIOUS
<1>2. Min(Above) \in Above /\ \A y \in Above : Min(Above) =< y
    <2>1. Above \subseteq Nat /\ Above # {}
        BY <1>1
    <2> HIDE DEF Above
    <2> QED BY <2>1, MinIsLeast
<1> DEFINE m == Min(Above)
<1>3. m \in Nat /\ \A y \in S : m >= y
    BY <1>2
<1>4. m \in S
    <2>1. SUFFICES ASSUME m \notin S  PROVE FALSE
        OBVIOUS
    <2>2. m # 0
        <3> HIDE DEF m
        <3>1. PICK y \in S : TRUE
            OBVIOUS
        <3>2. y \in 1 .. n /\ m >= y
            BY <1>3
        <3> QED BY <1>3, <3>2
    <2>3. m - 1 \in Above
        <3> HIDE DEF m
        <3> QED BY <1>3, <2>1, <2>2
    <2> QED BY <1>2, <1>3, <2>3
<1> HIDE DEF m
<1>5. \E x \in S : \A y \in S : x >= y
    BY <1>3, <1>4
<1> QED BY <1>5 DEF Max

\* A set that holds 0, and with a number the next one, holds every number.
LEMMA Induction ==
    ASSUME NEW S, 0 \in S, \A n \in Nat : n \in S => n + 1 \in S
    PROVE  \A n \in Nat : n \in S
<1> DEFINE Others == Nat \ S
<1>1. SUFFICES ASSUME Others # {}  PROVE FALSE
    OBVIOUS
<1>2. Min(Others) \in Others /\ \A y \in Others : Min(Others) =< y
    BY <1>1, MinIsLeast
<1> DEFINE m == Min(Others)
<1>3. m \in Nat \ S /\ \A y \in Others : m =< y
    BY <1>2
<1> HIDE DEF m
<1>4. m # 0 /\ m - 1 \in Nat /\ m - 1 \notin Others
    BY <1>3
<1> QED BY <1>3, <1>4

\* A line is not empty, and its last character is the terminator.
LEMMA LineFacts ==
    ASSUME line \in Lines
    PROVE  /\ line \in Seq(STRING)
           /\ Len(line) \in Nat \ {0}
           /\ line[Len(line)] = Terminator
BY DecodeAssumption

\* find and npos + 1 give a position of the line.
LEMMA PositionIsNat ==
    ASSUME line \in Lines, NEW c
    PROVE  PositionAfter(c) \in Nat
<1> DEFINE found == {i \in DOMAIN line : line[i] = c}
<1>1. found \subseteq Nat
    BY LineFacts
<1>2. CASE found = {}
    BY <1>2 DEF PositionAfter
<1>3. CASE found # {}
    <2>1. Min(found) \in found
        BY <1>1, <1>3, MinIsLeast
    <2> QED BY <2>1, <1>1, <1>3 DEF PositionAfter
<1> QED BY <1>2, <1>3

\* The direction has three digits and is followed by one character.
LEMMA WindLengthIs4 == WindLength = 4
<1>1. /\ DOMAIN WeatherItemList = 1 .. 13
      /\ WeatherItemList[1].wxSym = "WindDirection"
      /\ WeatherItemList[1].digits = 3
    BY DEF WeatherItemList, Item
<1>2. \A i \in 1 .. 13 :
        (/\ WeatherItemList[i].wxSym = "WindDirection"
         /\ \A j \in 1 .. i - 1 : WeatherItemList[j].wxSym # "WindDirection") <=> i = 1
    BY <1>1
<1>3. Row("WindDirection") = 1
    BY <1>1, <1>2 DEF Row
<1> QED BY <1>1, <1>3 DEF WindLength

-----------------------------------------------------------------------------
(* The position of the cursor, relative to the beginning of the position.  *)

\* Up to the weather, every field begins at a fixed distance from Body.
CursorInv ==
    /\ line \in Lines
    /\ pc = "discriminator" => p0 = PositionAfter(":")
    /\ pc = "dateTime" => p0 = Body - DateTimeLength
    /\ pc = "latitude" => p0 = Body
    /\ pc = "symTable" => p0 = Body + 8
    /\ pc = "longitude" => p0 = Body + 9
    /\ pc = "symCode" => p0 = Body + 18
    /\ pc = "wind" => p0 = Body + 19
    /\ pc = "threw" => Len(line) < Body + 23

\* Body is a number, and moves only with the line.
LEMMA BodyIsNat ==
    ASSUME line \in Lines
    PROVE  Body \in Nat
BY PositionIsNat DEF Body, DateTimeLength

LEMMA CursorInvInductive ==
    /\ Init => CursorInv
    /\ CursorInv /\ [Next]_vars => CursorInv'
<1>1. Init => CursorInv
    BY DEF Init, CursorInv
<1>2. ASSUME CursorInv, [Next]_vars
      PROVE  CursorInv'
    <2>0. /\ line \in Lines /\ line' = line
          /\ Body' = Body /\ Body \in Nat /\ Len(line) \in Nat
          /\ PositionAfter(":")' = PositionAfter(":") /\ PositionAfter(":") \in Nat
        <3>1. line' = line
            BY <1>2 DEF Next, vars, Name, Discriminator, DateTime, Latitude, Longitude,
                DecodeCoordinate, Symbol, Wind, Weather, EndOfWeather
        <3> QED BY <1>2, <3>1, BodyIsNat, PositionIsNat, LineFacts
                DEF CursorInv, Body, PositionAfter
    <2>1. CASE Name
        BY <1>2, <2>0, <2>1 DEF Name, CursorInv
    <2>2. CASE Discriminator
        BY <1>2, <2>0, <2>2 DEF Discriminator, Return, CursorInv, Body, DateTimeLength
    <2>3. CASE DateTime
        BY <1>2, <2>0, <2>3 DEF DateTime, DateTimeLength, CursorInv
    <2>4. CASE Latitude
        BY <1>2, <2>0, <2>4 DEF Latitude, DecodeCoordinate, DegreeLength, MinuteLength,
            Return, Throw, CursorInv
    <2>5. CASE Longitude
        BY <1>2, <2>0, <2>5 DEF Longitude, DecodeCoordinate, DegreeLength, MinuteLength,
            Return, Throw, CursorInv
    <2>6. CASE Symbol("symTable", "longitude")
        BY <1>2, <2>0, <2>6 DEF Symbol, CursorInv
    <2>7. CASE Symbol("symCode", "wind")
        BY <1>2, <2>0, <2>7 DEF Symbol, CursorInv
    <2>8. CASE Wind
        BY <1>2, <2>0, <2>8, WindLengthIs4 DEF Wind, Throw, CursorInv
    <2>9. CASE Weather
        BY <1>2, <2>0, <2>9 DEF Weather, CursorInv
    <2>10. CASE EndOfWeather
        BY <1>2, <2>0, <2>10 DEF EndOfWeather, Return, CursorInv
    <2>11. CASE UNCHANGED vars
        BY <1>2, <2>0, <2>11 DEF vars, CursorInv
    <2> QED BY <1>2, <2>1, <2>2, <2>3, <2>4, <2>5, <2>6, <2>7, <2>8, <2>9, <2>10, <2>11
            DEF Next
<1> QED BY <1>1, <1>2

LEMMA CursorCorrect == Spec => []CursorInv
BY CursorInvInductive, PTL DEF Spec

\* Whatever a line holds, decode throws only if it is shorter than a header, a
\* position and a wind direction.
THEOREM LongReportsAreDecoded == Spec => []LongReportsDecode
<1>1. CursorInv => LongReportsDecode
    BY WindLengthIs4, BodyIsNat DEF CursorInv, LongReportsDecode, ShortestReport,
        DegreeLength, MinuteLength
<1> QED BY <1>1, CursorCorrect, PTL

-----------------------------------------------------------------------------
(* What is read beyond the end of a line decides nothing. *)

\* The terminator is no part of a number.
LEMMA TerminatorIsNoDigit ==
    /\ Terminator \notin Digit
    /\ Terminator # Point
    /\ Terminator \in Space
BY Zenon DEF Terminator, Digit, Point, Space

\* strtod skips what is before the first character that is not a space.
LEMMA SpacesFact ==
    ASSUME NEW str \in Seq(STRING)
    PROVE  /\ Spaces(str) \in 0 .. Len(str)
           /\ Spaces(str) < Len(str) => str[Spaces(str) + 1] \notin Space
<1> DEFINE others == {i \in 1 .. Len(str) : str[i] \notin Space} \cup {Len(str) + 1}
<1>1. Min(others) \in others
    BY MinIsLeast
<1>2. \A i \in 1 .. Min(others) - 1 : str[i] \in Space
    <2>1. \A y \in others : Min(others) =< y
        BY MinIsLeast
    <2>2. TAKE i \in 1 .. Min(others) - 1
    <2>3. i \notin others
        BY <1>1, <2>1
    <2>4. i \in 1 .. Len(str)
        BY <1>1
    <2> QED BY <2>3, <2>4
<1>3. LET k == Min(others) - 1
      IN  /\ k \in 0 .. Len(str)
          /\ \A i \in 1 .. k : str[i] \in Space
          /\ k < Len(str) => str[k + 1] \notin Space
    <2> HIDE DEF others
    <2>1. Min(others) \in 1 .. Len(str) + 1
        BY <1>1 DEF others
    <2> QED BY <1>1, <1>2, <2>1 DEF others
<1> QED BY <1>3 DEF Spaces

\* A text that strtod takes in another form has a character, ends with no space
\* and is not made of points and blanks.
LEMMA FormIsText ==
    ASSUME NEW text \in DOMAIN OtherForms
    PROVE  /\ text # <<>> /\ text[Len(text)] \notin Space
           /\ \E i \in DOMAIN text : text[i] \notin {Point, " "}
           /\ IsDouble(OtherForms[text])
BY FormsAssumption

\* What is neither digits and a point nor one of the other forms is refused.
LEMMA OtherwiseRefused ==
    ASSUME NEW str, ~IsNumeral(Numeral(str)), Numeral(str) \notin DOMAIN OtherForms
    PROVE  SafeConvertDouble(str) = <<>>
BY Zenon DEF SafeConvertDouble

\* strtod does not take the whole of a string that ends with the terminator.
LEMMA TerminatedIsNoNumber ==
    ASSUME NEW str \in Seq(STRING), str # <<>> => str[Len(str)] = Terminator
    PROVE  SafeConvertDouble(str) = <<>>
<1> DEFINE k == Spaces(str)
           f == k + Signs(str) + 1
<1>1. k \in 0 .. Len(str) /\ Len(str) \in Nat
    BY SpacesFact
<1>2. Signs(str) \in {0, 1} /\ (k = Len(str) => Signs(str) = 0)
    BY <1>1 DEF Signs
<1>3. CASE k = Len(str)
    <2>1. Numeral(str) = <<>>
        BY <1>1, <1>2, <1>3 DEF Numeral
    <2>2. ~IsNumeral(Numeral(str))
        BY <2>1 DEF IsNumeral
    <2>3. Numeral(str) \notin DOMAIN OtherForms
        BY <2>1, FormIsText, Zenon
    <2> QED BY <2>2, <2>3, OtherwiseRefused
<1>4. CASE k < Len(str)
    <2>1. k + 1 < Len(str)
        BY <1>1, <1>4, SpacesFact, TerminatorIsNoDigit
    <2>2. f \in 1 .. Len(str)
        BY <1>1, <1>2, <2>1
    <2>3. /\ Numeral(str) = SubSeq(str, f, Len(str))
          /\ Len(Numeral(str)) = Len(str) - f + 1
          /\ Len(Numeral(str)) \in DOMAIN Numeral(str)
          /\ Numeral(str)[Len(Numeral(str))] = Terminator
        BY <1>1, <2>2 DEF Numeral
    <2>4. ~IsNumeral(Numeral(str))
        BY <2>3, TerminatorIsNoDigit DEF IsNumeral
    <2>5. Numeral(str) \notin DOMAIN OtherForms
        BY <2>3, TerminatorIsNoDigit, FormIsText, Zenon
    <2> QED BY <2>4, <2>5, OtherwiseRefused
<1> QED BY <1>1, <1>3, <1>4

\* A field that reaches the end of the line, or begins there, ends with the
\* terminator.
LEMMA LastFieldIsNoNumber ==
    ASSUME line \in Lines, NEW p \in Nat, NEW length \in Nat,
           p <= Len(line), p + length >= Len(line)
    PROVE  SafeConvertDouble(Substr(p, length)) = <<>>
<1>1. Substr(p, length) = SubSeq(line, p + 1, Len(line))
    BY LineFacts DEF Substr
<1>2. Substr(p, length) \in Seq(STRING)
    BY <1>1, LineFacts
<1>3. Substr(p, length) # <<>> => Substr(p, length)[Len(Substr(p, length))] = Terminator
    <2>1. Len(Substr(p, length)) = Len(line) - p
        BY <1>1, LineFacts
    <2>2. p < Len(line) => SubSeq(line, p + 1, Len(line))[Len(line) - p] = line[Len(line)]
        BY LineFacts
    <2>3. Substr(p, length) # <<>> => p < Len(line)
        BY <1>2, <2>1, LineFacts
    <2> QED BY <1>1, <2>1, <2>2, <2>3, LineFacts
<1> QED BY <1>2, <1>3, TerminatedIsNoNumber

\* The hemisphere of a coordinate is never a character beyond the end of the
\* line: the minutes before it would hold the terminator.
THEOREM OutsideIsIgnored == Spec => OutsideDecidesNothing
<1> DEFINE Short(which) == /\ pc = which
                           /\ p0 + DegreeLength[which] + MinuteLength > Len(line)
           Rejected == pc' = "threw" \/ status' \in {"ErrorLatitude", "ErrorLongitude"}
<1>1. ASSUME CursorInv, [Next]_vars, NEW which \in DOMAIN DegreeLength, Short(which),
             ~ UNCHANGED vars
      PROVE  Rejected
    <2>1. line \in Lines /\ Body \in Nat /\ Len(line) \in Nat
        BY <1>1, BodyIsNat, LineFacts DEF CursorInv
    <2>2. which \in {"latitude", "longitude"} /\ p0 \in Nat
        BY <1>1, <2>1 DEF CursorInv, DegreeLength
    <2>3. DegreeLength[which] \in Nat /\ MinuteLength = 5
        BY <2>2 DEF DegreeLength, MinuteLength
    <2>4. PICK field, next, error :
             /\ error \in {"ErrorLatitude", "ErrorLongitude"}
             /\ DecodeCoordinate(which, field, next, error)
        <3>1. CASE which = "latitude"
            <4>1. Latitude
                BY <1>1, <3>1 DEF Next, Name, Discriminator, DateTime, Longitude,
                    DecodeCoordinate, Symbol, Wind, Weather, EndOfWeather
            <4> QED BY <4>1, <3>1 DEF Latitude
        <3>2. CASE which = "longitude"
            <4>1. Longitude
                BY <1>1, <3>2 DEF Next, Name, Discriminator, DateTime, Latitude,
                    DecodeCoordinate, Symbol, Wind, Weather, EndOfWeather
            <4> QED BY <4>1, <3>2 DEF Longitude
        <3> QED BY <2>2, <3>1, <3>2
    <2> DEFINE m == p0 + DegreeLength[which]
    <2>5. CASE p0 > Len(line) \/ m > Len(line)
        BY <2>4, <2>5 DEF DecodeCoordinate, Throw
    <2>6. CASE ~ (p0 > Len(line) \/ m > Len(line))
        <3>1. SafeConvertDouble(Substr(m, MinuteLength)) = <<>>
            BY <1>1, <2>1, <2>2, <2>3, <2>6, LastFieldIsNoNumber
        <3>2. \A degrees, c : Coordinate(which, degrees, <<>>, c) = <<>>
            BY DEF Coordinate
        <3> QED BY <2>4, <2>6, <3>1, <3>2 DEF DecodeCoordinate, Return
    <2> QED BY <2>5, <2>6
<1>2. CursorInv /\ [Next]_vars =>
        [\A which \in DOMAIN DegreeLength : Short(which) => Rejected]_vars
    BY <1>1
<1> QED BY <1>2, CursorCorrect, PTL DEF Spec, OutsideDecidesNothing

-----------------------------------------------------------------------------
(* Conversions: what a string stands for is a number. *)

\* A digit has its value.
LEMMA DigitValues == DigitValue \in [Digit -> 0 .. 9]
<1>1. \A c \in Digit : c # "0" => \E n \in 1 .. 9 : Figures[n] = c
    BY DEF Digit, Figures
<1> QED BY <1>1 DEF DigitValue

\* g holds the first powers of ten, up to the n-th.
Powers(n, g) == g = [k \in 0 .. n |-> IF k = 0 THEN 1 ELSE 10 * g[k - 1]]

\* There are such powers, and they do not depend on n.
LEMMA PowersExist == \A n \in Nat : \E g : Powers(n, g)
<1> DEFINE Done == {n \in Nat : \E g : Powers(n, g)}
<1>1. 0 \in Done
    <2>1. Powers(0, [k \in 0 .. 0 |-> 1])
        BY DEF Powers
    <2> QED BY <2>1
<1>2. ASSUME NEW n \in Nat, n \in Done
      PROVE  n + 1 \in Done
    <2>1. PICK g : Powers(n, g)
        BY <1>2
    <2> DEFINE h == [k \in 0 .. n + 1 |-> IF k = 0 THEN 1 ELSE 10 * g[k - 1]]
    <2>2. \A k \in 0 .. n : h[k] = g[k]
        <3>1. \A k \in 0 .. n : g[k] = IF k = 0 THEN 1 ELSE 10 * g[k - 1]
            BY <2>1 DEF Powers
        <3> QED BY <3>1
    <2>3. \A k \in 0 .. n + 1 : k # 0 => k - 1 \in 0 .. n
        OBVIOUS
    <2>4. h = [k \in 0 .. n + 1 |-> h[k]]
        OBVIOUS
    <2>5. \A k \in 0 .. n + 1 : h[k] = IF k = 0 THEN 1 ELSE 10 * g[k - 1]
        OBVIOUS
    <2> HIDE DEF h
    <2>6. \A k \in 0 .. n + 1 : h[k] = IF k = 0 THEN 1 ELSE 10 * h[k - 1]
        BY <2>2, <2>3, <2>5
    <2>7. Powers(n + 1, h)
        BY <2>4, <2>6 DEF Powers
    <2> QED BY <2>7
<1>3. \A n \in Nat : n \in Done
    <2> HIDE DEF Done
    <2> QED BY <1>1, <1>2, Induction
<1> QED BY <1>3

LEMMA PowersAgree ==
    ASSUME NEW m \in Nat, NEW n \in Nat, m =< n, NEW g, NEW h, Powers(m, g), Powers(n, h)
    PROVE  g[m] = h[m]
<1> DEFINE Same == {k \in Nat : k =< m => g[k] = h[k]}
<1>1. /\ \A k \in 0 .. m : g[k] = IF k = 0 THEN 1 ELSE 10 * g[k - 1]
      /\ \A k \in 0 .. n : h[k] = IF k = 0 THEN 1 ELSE 10 * h[k - 1]
    BY DEF Powers
<1>2. 0 \in Same
    BY <1>1
<1>3. ASSUME NEW k \in Nat, k \in Same
      PROVE  k + 1 \in Same
    <2>1. SUFFICES ASSUME k + 1 =< m  PROVE g[k + 1] = h[k + 1]
        OBVIOUS
    <2>2. g[k] = h[k] /\ k + 1 \in 0 .. m /\ k + 1 \in 0 .. n /\ (k + 1) - 1 = k /\ k + 1 # 0
        BY <1>3, <2>1
    <2> QED BY <1>1, <2>2
<1>4. \A k \in Nat : k \in Same
    <2> HIDE DEF Same
    <2> QED BY <1>2, <1>3, Induction
<1> QED BY <1>4

\* TenTo obeys its recursion.
LEMMA TenToSteps ==
    /\ TenTo[0] = 1
    /\ \A n \in Nat : TenTo[n + 1] = 10 * TenTo[n]
<1> DEFINE f == [n \in Nat |-> (CHOOSE g : Powers(n, g))[n]]
<1>1. \A n \in Nat : \E g : Powers(n, g) /\ f[n] = g[n]
    <2> TAKE n \in Nat
    <2>1. Powers(n, CHOOSE g : Powers(n, g))
        BY PowersExist
    <2> QED BY <2>1
<1>2. f = [n \in Nat |-> f[n]]
    OBVIOUS
<1> HIDE DEF f
<1>3. ASSUME NEW n \in Nat
      PROVE  f[n] = IF n = 0 THEN 1 ELSE 10 * f[n - 1]
    <2>1. PICK g : Powers(n, g) /\ f[n] = g[n]
        BY <1>1
    <2>2. g[n] = IF n = 0 THEN 1 ELSE 10 * g[n - 1]
        BY <2>1 DEF Powers
    <2>3. ASSUME n # 0
          PROVE  f[n - 1] = g[n - 1]
        <3>1. n - 1 \in Nat /\ n - 1 =< n
            BY <2>3
        <3>2. PICK h : Powers(n - 1, h) /\ f[n - 1] = h[n - 1]
            BY <1>1, <3>1
        <3> QED BY <2>1, <3>1, <3>2, PowersAgree
    <2> QED BY <2>1, <2>2, <2>3
<1>4. f = [n \in Nat |-> IF n = 0 THEN 1 ELSE 10 * f[n - 1]]
    BY <1>2, <1>3
<1>5. TenTo = [n \in Nat |-> IF n = 0 THEN 1 ELSE 10 * TenTo[n - 1]]
    BY <1>4, Zenon DEF TenTo
<1>6. ASSUME NEW n \in Nat
      PROVE  TenTo[n + 1] = 10 * TenTo[n]
    <2>1. n + 1 \in Nat /\ n + 1 # 0 /\ (n + 1) - 1 = n
        OBVIOUS
    <2> QED BY <1>5, <2>1
<1> QED BY <1>5, <1>6

\* Its values are positive.
LEMMA PowersOfTen == \A n \in Nat : TenTo[n] \in Nat \ {0}
<1> DEFINE S == {n \in Nat : TenTo[n] \in Nat \ {0}}
<1>1. 0 \in S
    BY TenToSteps
<1>2. ASSUME NEW n \in Nat, n \in S
      PROVE  n + 1 \in S
    BY <1>2, TenToSteps
<1>3. \A n \in Nat : n \in S
    <2> HIDE DEF S
    <2> QED BY <1>1, <1>2, Induction
<1> QED BY <1>3

\* it holds the folds of Natural over the sets of positions in D.
Folds(str, D, it) ==
    it = [s \in D |->
            IF s = {} THEN 0
            ELSE IF str[Max(s)] = Point THEN it[s \ {Max(s)}]
            ELSE 10 * it[s \ {Max(s)}] + DigitValue[str[Max(s)]]]

\* A set without its greatest element ends earlier.
LEMMA WithoutMax ==
    ASSUME NEW n \in Nat, NEW s \in SUBSET (1 .. n + 1), s # {}
    PROVE  Max(s) \in s /\ s \ {Max(s)} \in SUBSET (1 .. n)
<1>1. n + 1 \in Nat
    OBVIOUS
<1>2. Max(s) \in s /\ \A y \in s : Max(s) >= y
    BY <1>1, MaxIsGreatest
<1> DEFINE m == Max(s)
<1>3. m \in 1 .. n + 1 /\ \A y \in s : m >= y
    BY <1>2
<1> HIDE DEF m
<1>4. \A y \in s \ {m} : y \in 1 .. n
    BY <1>3
<1> QED BY <1>2, <1>4 DEF m

\* There are such folds, whatever the string: each set is its greatest position
\* and a set that ends before it.
LEMMA FoldsExist ==
    ASSUME NEW str
    PROVE  \A n \in Nat : \E it : Folds(str, SUBSET (1 .. n), it)
<1> DEFINE Fold(s, it) == IF s = {} THEN 0
                          ELSE IF str[Max(s)] = Point THEN it[s \ {Max(s)}]
                          ELSE 10 * it[s \ {Max(s)}] + DigitValue[str[Max(s)]]
           Done == {n \in Nat : \E it : Folds(str, SUBSET (1 .. n), it)}
<1>1. 0 \in Done
    <2>1. \A s \in SUBSET (1 .. 0) : s = {}
        OBVIOUS
    <2>2. Folds(str, SUBSET (1 .. 0), [s \in SUBSET (1 .. 0) |-> 0])
        BY <2>1 DEF Folds
    <2> QED BY <2>2
<1>2. ASSUME NEW n \in Nat, n \in Done
      PROVE  n + 1 \in Done
    <2>1. PICK g : Folds(str, SUBSET (1 .. n), g)
        BY <1>2
    <2> DEFINE h == [s \in SUBSET (1 .. n + 1) |-> Fold(s, g)]
    <2>2. \A s \in SUBSET (1 .. n) : h[s] = g[s]
        <3>1. \A s \in SUBSET (1 .. n) : g[s] = Fold(s, g)
            BY <2>1 DEF Folds
        <3>2. \A s \in SUBSET (1 .. n) : s \in SUBSET (1 .. n + 1)
            OBVIOUS
        <3> QED BY <3>1, <3>2
    <2>3. h = [s \in SUBSET (1 .. n + 1) |-> h[s]]
        OBVIOUS
    <2>4. \A s \in SUBSET (1 .. n + 1) : h[s] = Fold(s, g)
        OBVIOUS
    <2> HIDE DEF h
    <2>5. \A s \in SUBSET (1 .. n + 1) : h[s] = Fold(s, h)
        BY <2>2, <2>4, WithoutMax
    <2>6. Folds(str, SUBSET (1 .. n + 1), h)
        BY <2>3, <2>5 DEF Folds
    <2> QED BY <2>6
<1>3. \A n \in Nat : n \in Done
    <2> HIDE DEF Done
    <2> QED BY <1>1, <1>2, Induction
<1> QED BY <1>3

\* What digits and points stand for is a number.
LEMMA NaturalIsNat ==
    ASSUME NEW str \in Seq(STRING), \A i \in DOMAIN str : str[i] \in Digit \cup {Point}
    PROVE  Natural(str) \in Nat
<1> DEFINE it == CHOOSE g : Folds(str, SUBSET DOMAIN str, g)
           n  == Len(str)
<1>1. n \in Nat /\ DOMAIN str = 1 .. n
    OBVIOUS
<1>2. Natural(str) = it[DOMAIN str]
    BY DEF Natural, FoldLeft, MapThenFoldSet, Folds
<1>3. Folds(str, SUBSET (1 .. n), it)
    BY <1>1, FoldsExist
<1> HIDE DEF it, n
<1> DEFINE S == {k \in Nat : k =< n => \A s \in SUBSET (1 .. k) : it[s] \in Nat}
<1>4. \A s \in SUBSET (1 .. n) :
        it[s] = IF s = {} THEN 0
                ELSE IF str[Max(s)] = Point THEN it[s \ {Max(s)}]
                ELSE 10 * it[s \ {Max(s)}] + DigitValue[str[Max(s)]]
    BY <1>3 DEF Folds
<1>5. 0 \in S
    <2>1. \A s \in SUBSET (1 .. 0) : s = {}
        OBVIOUS
    <2>2. it[{}] = 0
        BY <1>4
    <2>3. \A s \in SUBSET (1 .. 0) : it[s] \in Nat
        <3> TAKE s \in SUBSET (1 .. 0)
        <3>1. s = {}
            BY <2>1
        <3> QED BY <2>2, <3>1
    <2> QED BY <2>3
<1>6. ASSUME NEW k \in Nat, k \in S, k + 1 =< n, NEW s \in SUBSET (1 .. k + 1)
      PROVE  it[s] \in Nat
    <2>1. s \in SUBSET (1 .. n)
        BY <1>1, <1>6
    <2>0. it[s] = IF s = {} THEN 0
                  ELSE IF str[Max(s)] = Point THEN it[s \ {Max(s)}]
                  ELSE 10 * it[s \ {Max(s)}] + DigitValue[str[Max(s)]]
        BY <1>4, <2>1
    <2> HIDE DEF S
    <2>2. CASE s = {}
        BY <2>0, <2>2
    <2>3. CASE s # {}
        <3>1. Max(s) \in s /\ s \ {Max(s)} \in SUBSET (1 .. k)
            BY <2>3, WithoutMax
        <3>2. it[s \ {Max(s)}] \in Nat
            <4>1. k =< n /\ k \in S
                BY <1>1, <1>6
            <4> QED BY <3>1, <4>1 DEF S
        <3>3. str[Max(s)] = Point \/ DigitValue[str[Max(s)]] \in Nat
            <4>1. Max(s) \in DOMAIN str
                BY <1>1, <2>1, <3>1
            <4>2. str[Max(s)] \in Digit \cup {Point}
                BY <4>1
            <4> HIDE DEF n
            <4> QED BY <4>2, DigitValues
        <3> QED BY <2>0, <2>3, <3>2, <3>3
    <2> QED BY <2>2, <2>3
<1>7. ASSUME NEW k \in Nat, k \in S
      PROVE  k + 1 \in S
    <2>1. k + 1 =< n => \A s \in SUBSET (1 .. k + 1) : it[s] \in Nat
        <3> HIDE DEF S
        <3> QED BY <1>6, <1>7
    <2> QED BY <2>1
<1>8. \A k \in Nat : k \in S
    <2> HIDE DEF S
    <2> QED BY <1>5, <1>7, Induction
<1> QED BY <1>1, <1>2, <1>8

\* The part of a string that strtod takes for the number is a string.
LEMMA NumeralIsString ==
    ASSUME NEW str \in Seq(STRING)
    PROVE  Numeral(str) \in Seq(STRING)
<1>1. Spaces(str) \in 0 .. Len(str) /\ Signs(str) \in {0, 1} /\ Len(str) \in Nat
    BY SpacesFact DEF Signs
<1>2. Spaces(str) = Len(str) => Signs(str) = 0
    BY <1>1 DEF Signs
<1> QED BY <1>1, <1>2 DEF Numeral

\* What strtod makes of digits and a point is a number.
LEMMA NumeralIsNumber ==
    ASSUME NEW str \in Seq(STRING), IsNumeral(Numeral(str))
    PROVE  IsDouble(Double(str))
<1> DEFINE digits == Numeral(str)
           after == {i \in DOMAIN digits : \E j \in 1 .. i - 1 : digits[j] = Point}
<1>1. digits \in Seq(STRING)
    BY NumeralIsString
<1>2. IsNumeral(digits)
    OBVIOUS
<1> HIDE DEF digits
<1>3. Natural(digits) \in Nat
    <2>1. \A i \in DOMAIN digits : digits[i] \in Digit \cup {Point}
        BY <1>2 DEF IsNumeral
    <2> QED BY <1>1, <2>1, NaturalIsNat
<1>4. Cardinality(after) \in Nat
    <2>1. IsFiniteSet(DOMAIN digits)
        <3>1. DOMAIN digits = 1 .. Len(digits) /\ Len(digits) \in Int /\ 1 \in Int
            BY <1>1
        <3> QED BY <3>1, FS_Interval
    <2>2. after \subseteq DOMAIN digits
        OBVIOUS
    <2> HIDE DEF after
    <2> QED BY <2>1, <2>2, FS_Subset, FS_CardinalityType
<1>5. TenTo[Cardinality(after)] \in Nat \ {0}
    BY <1>4, PowersOfTen
<1>6. \/ Double(str) = <<-Natural(digits), TenTo[Cardinality(after)]>>
      \/ Double(str) = <<Natural(digits), TenTo[Cardinality(after)]>>
    BY DEF Double, Signed, digits
<1> HIDE DEF after
<1> QED BY <1>3, <1>5, <1>6 DEF IsDouble

\* strtod returns a number, an infinity or NaN, or nothing.
LEMMA ConvertedIsDouble ==
    ASSUME NEW str \in Seq(STRING), SafeConvertDouble(str) # <<>>
    PROVE  IsDouble(SafeConvertDouble(str)[1])
<1>1. CASE IsNumeral(Numeral(str))
    <2>1. SafeConvertDouble(str) = <<Double(str)>>
        BY <1>1, Zenon DEF SafeConvertDouble
    <2>2. IsDouble(Double(str))
        BY <1>1, NumeralIsNumber
    <2> QED BY <2>1, <2>2
<1>2. CASE ~IsNumeral(Numeral(str))
    <2> DEFINE q == OtherForms[Numeral(str)]
    <2>1. Numeral(str) \in DOMAIN OtherForms
        BY <1>2, OtherwiseRefused
    <2>2. SafeConvertDouble(str) = <<Signed(str, q)>>
        BY <1>2, <2>1, Zenon DEF SafeConvertDouble
    <2>3. IsDouble(q)
        BY <2>1, FormIsText
    <2> HIDE DEF q
    <2>4. Signed(str, q) = <<-q[1], q[2]>> \/ Signed(str, q) = <<q[1], q[2]>>
        BY DEF Signed
    <2>5. IsDouble(Signed(str, q))
        BY <2>3, <2>4 DEF IsDouble
    <2> QED BY <2>2, <2>5
<1> QED BY <1>1, <1>2

\* from_chars returns an integer, or nothing.
LEMMA LongIsInt ==
    ASSUME NEW str \in Seq(STRING), SafeConvertLong(str) # <<>>
    PROVE  SafeConvertLong(str)[1] \in Int
<1> DEFINE minus  == str # <<>> /\ str[1] = "-"
           digits == IF minus THEN Tail(str) ELSE str
<1>1. digits \in Seq(STRING)
    <2>1. str # <<>> => Tail(str) \in Seq(STRING)
        OBVIOUS
    <2> QED BY <2>1
<1>2. /\ \A i \in DOMAIN digits : digits[i] \in Digit
      /\ \/ SafeConvertLong(str) = <<-Natural(digits)>>
         \/ SafeConvertLong(str) = <<Natural(digits)>>
    BY DEF SafeConvertLong
<1> HIDE DEF digits
<1>3. Natural(digits) \in Nat
    BY <1>1, <1>2, NaturalIsNat
<1> QED BY <1>2, <1>3

\* A field of the line is a string.
LEMMA SubstrIsString ==
    ASSUME line \in Lines, NEW p \in Nat, p =< Len(line), NEW length \in Nat
    PROVE  Substr(p, length) \in Seq(STRING)
<1> DEFINE last == IF p + length < Len(line) THEN p + length ELSE Len(line)
<1>1. line \in Seq(STRING) /\ last \in p .. Len(line)
    BY LineFacts
<1> HIDE DEF last
<1>2. SubSeq(line, p + 1, last) \in Seq(STRING)
    BY <1>1
<1> QED BY <1>2 DEF Substr, last

\* A coordinate is a number, an infinity or NaN, or nothing.
LEMMA CoordinateIsDouble ==
    ASSUME NEW which \in DOMAIN DegreeLength, NEW degrees \in Seq(STRING),
           NEW minutes \in Seq(STRING), NEW c,
           Coordinate(which, SafeConvertLong(degrees), SafeConvertDouble(minutes), c) # <<>>
    PROVE  IsDouble(Coordinate(which, SafeConvertLong(degrees), SafeConvertDouble(minutes), c)[1])
<1> DEFINE d == SafeConvertLong(degrees)
           m == SafeConvertDouble(minutes)
           n == m[1][1] + 60 * d[1] * m[1][2]
<1>1. d # <<>> /\ m # <<>>
    BY DEF Coordinate
<1>2. /\ d[1] \in Int /\ m[1][1] \in Int /\ m[1][2] \in Nat
      /\ m[1][2] = 0 => m[1][1] \in {-1, 0, 1}
    BY <1>1, LongIsInt, ConvertedIsDouble DEF IsDouble
<1>3. \/ Coordinate(which, d, m, c) = << <<n, 60 * m[1][2]>> >>
      \/ Coordinate(which, d, m, c) = << <<-n, 60 * m[1][2]>> >>
    BY DEF Coordinate
<1>4. /\ n \in Int /\ 60 * m[1][2] \in Nat
      /\ 60 * m[1][2] = 0 => n \in {-1, 0, 1}
    <2> HIDE DEF d, m
    <2>1. n \in Int /\ 60 * m[1][2] \in Nat /\ 60 * d[1] \in Int
        BY <1>2
    <2>2. 60 * m[1][2] = 0 => m[1][2] = 0
        BY <1>2
    <2>3. m[1][2] = 0 => 60 * d[1] * m[1][2] = 0
        BY <2>1
    <2> QED BY <1>2, <2>1, <2>2, <2>3
<1> HIDE DEF d, m, n
<1>5. IsDouble(<<n, 60 * m[1][2]>>) /\ IsDouble(<<-n, 60 * m[1][2]>>)
    BY <1>4 DEF IsDouble
<1>6. IsDouble(Coordinate(which, d, m, c)[1])
    BY <1>3, <1>5
<1> QED BY <1>6 DEF d, m

-----------------------------------------------------------------------------
(* The table. *)

\* A packet has no digits for the symbols that are not decodable.
LEMMA TableFacts ==
    /\ DOMAIN WeatherItemList = 1 .. 13
    /\ \A i \in 1 .. 13 : /\ WeatherItemList[i].wxSym \in WxSym
                          /\ WeatherItemList[i].digits \in Nat
                          /\ WeatherItemList[i].factor \in Nat \ {0}
                          /\ WeatherItemList[i].wxSym \notin Decodable =>
                               WeatherItemList[i].digits = 0
BY DEF WeatherItemList, Item, WxSym, Decodable

\* find_if finds the first row of a symbol that the table has.
LEMMA RowIsFirst ==
    ASSUME NEW k \in 1 .. 13
    PROVE  /\ Row(WeatherItemList[k].wxSym) \in 1 .. 13
           /\ WeatherItemList[Row(WeatherItemList[k].wxSym)].wxSym = WeatherItemList[k].wxSym
<1> DEFINE sym  == WeatherItemList[k].wxSym
           rows == {i \in 1 .. 13 : WeatherItemList[i].wxSym = sym}
<1>1. Min(rows) \in rows /\ \A i \in rows : Min(rows) =< i
    <2>1. rows \subseteq Nat /\ k \in rows
        OBVIOUS
    <2> HIDE DEF rows
    <2> QED BY <2>1, MinIsLeast
<1> DEFINE m == Min(rows)
<1>2. m \in 1 .. 13 /\ WeatherItemList[m].wxSym = sym
    BY <1>1
<1>3. \A j \in 1 .. m - 1 : WeatherItemList[j].wxSym # sym
    <2> TAKE j \in 1 .. m - 1
    <2>1. j \in 1 .. 13 /\ ~ (m =< j)
        <3> HIDE DEF m
        <3> QED BY <1>2
    <2>2. j \notin rows
        BY <1>1, <2>1
    <2> QED BY <2>1, <2>2
<1> HIDE DEF m, rows
<1>4. \E i \in DOMAIN WeatherItemList :
        /\ WeatherItemList[i].wxSym = sym
        /\ \A j \in 1 .. i - 1 : WeatherItemList[j].wxSym # sym
    BY <1>2, <1>3, TableFacts
<1>5. /\ Row(sym) \in DOMAIN WeatherItemList
      /\ WeatherItemList[Row(sym)].wxSym = sym
    <2> HIDE DEF sym
    <2> QED BY <1>4 DEF Row
<1> QED BY <1>5, TableFacts

\* A map of numbers, infinities and NaN for symbols that a packet can carry.
AreValues(value) ==
    /\ DOMAIN value \subseteq Decodable
    /\ value = [s \in DOMAIN value |-> value[s]]
    /\ \A s \in DOMAIN value : IsDouble(value[s])

\* A field of the weather leaves such a map, whatever is in it.
LEMMA DecodedIsValue ==
    ASSUME line \in Lines, NEW value, AreValues(value), NEW k \in 1 .. 13,
           NEW p \in Nat, p =< Len(line), NEW flag
    PROVE  AreValues(DecodeWeatherValue(value, p, WeatherItemList[k].wxSym, flag,
                                        WeatherItemList[k].factor))
<1> DEFINE sym    == WeatherItemList[k].wxSym
           factor == WeatherItemList[k].factor
           digits == WeatherItemList[Row(sym)].digits
           str    == Substr(p, digits)
           res    == SafeConvertDouble(str)
           high   == IF flag = "l" THEN 1000 ELSE 0
           q      == <<res[1][1] + high * factor * res[1][2], factor * res[1][2]>>
           after  == [s \in DOMAIN value \cup {sym} |-> IF s = sym THEN q ELSE value[s]]
<1>1. /\ digits \in Nat
      /\ factor \in Nat \ {0}
      /\ sym \notin Decodable => digits = 0
    BY RowIsFirst, TableFacts
<1>2. DecodeWeatherValue(value, p, sym, flag, factor) = IF res = <<>> THEN value ELSE after
    BY DEF DecodeWeatherValue
<1>3. str \in Seq(STRING)
    <2> HIDE DEF digits
    <2> QED BY <1>1, SubstrIsString
<1>4. CASE res # <<>>
    <2>1. sym \in Decodable
        <3>1. SUFFICES ASSUME digits = 0  PROVE FALSE
            BY <1>1
        <3>2. str = <<>>
            <4> HIDE DEF digits
            <4> QED BY <3>1, LineFacts DEF Substr
        <3> HIDE DEF str
        <3>3. res = <<>>
            BY <1>3, <3>2, TerminatedIsNoNumber
        <3> QED BY <1>4, <3>3
    <2>2. IsDouble(res[1])
        <3> HIDE DEF str
        <3> QED BY <1>3, <1>4, ConvertedIsDouble
    <2>3. IsDouble(q)
        <3>1. /\ res[1][1] \in Int /\ res[1][2] \in Nat /\ high \in Int
              /\ res[1][2] = 0 => res[1][1] \in {-1, 0, 1}
            BY <2>2 DEF IsDouble
        <3> HIDE DEF res, factor, high
        <3>2. high * factor \in Int
            BY <1>1, <3>1
        <3>3. /\ factor * res[1][2] \in Nat /\ high * factor * res[1][2] \in Int
              /\ res[1][2] = 0 => high * factor * res[1][2] = 0
            BY <1>1, <3>1, <3>2
        <3>4. factor * res[1][2] = 0 => res[1][2] = 0
            BY <1>1, <3>1
        <3> QED BY <3>1, <3>3, <3>4 DEF IsDouble
    <2> HIDE DEF sym, q
    <2>4. AreValues(after)
        BY <2>1, <2>3 DEF AreValues
    <2> QED BY <1>2, <1>4, <2>4 DEF sym
<1>5. CASE res = <<>>
    BY <1>2, <1>5
<1> QED BY <1>4, <1>5

-----------------------------------------------------------------------------
(* Types. *)

\* What the report holds, and where the weather begins.
ReportInv ==
    /\ pc \in {"name", "discriminator", "dateTime", "latitude", "symTable",
               "longitude", "symCode", "wind", "weather", "done", "threw"}
    /\ status \in {"None", "WxPacket", "DecodingError", "ErrorLatitude", "ErrorLongitude"}
    /\ p0 \in Nat
    /\ pc = "weather" => p0 > 0
    /\ report = [name |-> report.name, lat |-> report.lat, lon |-> report.lon,
                 value |-> report.value]
    /\ report.lat # <<>> => IsDouble(report.lat[1])
    /\ report.lon # <<>> => IsDouble(report.lon[1])
    /\ AreValues(report.value)

LEMMA ReportInvInductive ==
    /\ Init => ReportInv
    /\ CursorInv /\ ReportInv /\ [Next]_vars => ReportInv'
<1>1. ASSUME Init
      PROVE  ReportInv
    <2>1. AreValues(<<>>)
        BY DEF AreValues
    <2> QED BY <1>1, <2>1 DEF Init, NoReport, ReportInv
<1>2. ASSUME CursorInv, ReportInv, [Next]_vars
      PROVE  ReportInv'
    <2>0. line \in Lines /\ line \in Seq(STRING) /\ Len(line) \in Nat /\ Body \in Nat
        BY <1>2, BodyIsNat, LineFacts DEF CursorInv
    <2>1. CASE Name
        <3>1. PositionAfter(":") \in Nat
            BY <2>0, PositionIsNat
        <3> QED BY <1>2, <2>1, <3>1 DEF Name, ReportInv
    <2>2. CASE Discriminator
        BY <1>2, <2>2 DEF Discriminator, Return, ReportInv
    <2>3. CASE DateTime
        BY <1>2, <2>3 DEF DateTime, DateTimeLength, ReportInv
    <2>4. ASSUME NEW which \in DOMAIN DegreeLength, NEW field \in {"lat", "lon"}, NEW next, NEW error,
                 next \in {"symTable", "symCode"}, error \in {"ErrorLatitude", "ErrorLongitude"},
                 DecodeCoordinate(which, field, next, error)
          PROVE  ReportInv'
        <3> DEFINE m == p0 + DegreeLength[which]
                   res(c) == Coordinate(which, SafeConvertLong(Substr(p0, DegreeLength[which])),
                                        SafeConvertDouble(Substr(m, MinuteLength)), c)
        <3>1. m \in Nat /\ DegreeLength[which] \in Nat /\ MinuteLength = 5
            BY <1>2 DEF ReportInv, DegreeLength, MinuteLength
        <3>2. CASE p0 > Len(line) \/ m > Len(line)
            BY <1>2, <2>4, <3>2 DEF DecodeCoordinate, Throw, ReportInv
        <3>3. CASE ~ (p0 > Len(line) \/ m > Len(line))
            <4>1. PICK c : /\ p0' = m + MinuteLength + 1
                           /\ \/ /\ res(c) # <<>>
                                 /\ report' = [report EXCEPT ![field] = res(c)]
                                 /\ pc' = next
                                 /\ UNCHANGED status
                              \/ Return(error) /\ UNCHANGED report
                BY <2>4, <3>3 DEF DecodeCoordinate
            <4>2. res(c) # <<>> => IsDouble(res(c)[1])
                <5>1. /\ Substr(p0, DegreeLength[which]) \in Seq(STRING)
                      /\ Substr(m, MinuteLength) \in Seq(STRING)
                    <6>1. p0 \in Nat /\ p0 =< Len(line) /\ m =< Len(line)
                        <7>1. p0 \in Nat
                            BY <1>2 DEF ReportInv
                        <7> HIDE DEF m
                        <7> QED BY <2>0, <3>1, <3>3, <7>1
                    <6> HIDE DEF m
                    <6> QED BY <2>0, <3>1, <6>1, SubstrIsString
                <5> QED BY <5>1, CoordinateIsDouble
            <4> HIDE DEF m, res
            <4> QED BY <1>2, <2>4, <3>1, <4>1, <4>2 DEF Return, ReportInv
        <3> QED BY <3>2, <3>3
    <2>5. CASE Latitude \/ Longitude
        BY <2>4, <2>5 DEF Latitude, Longitude, DegreeLength
    <2>6. CASE Symbol("symTable", "longitude") \/ Symbol("symCode", "wind")
        BY <1>2, <2>6 DEF Symbol, ReportInv
    <2>7. CASE Wind
        <3>1. CASE p0 + WindLength > Len(line)
            BY <1>2, <2>7, <3>1 DEF Wind, Throw, ReportInv
        <3>2. CASE ~ (p0 + WindLength > Len(line))
            <4> DEFINE one == DecodeWeatherValue(report.value, p0, "WindDirection", Nul, 1)
                       two == DecodeWeatherValue(one, p0 + WindLength, "WindSpeed", Nul, 1)
            <4>1. /\ 1 \in 1 .. 13 /\ 2 \in 1 .. 13
                  /\ WeatherItemList[1].wxSym = "WindDirection" /\ WeatherItemList[1].factor = 1
                  /\ WeatherItemList[2].wxSym = "WindSpeed" /\ WeatherItemList[2].factor = 1
                BY DEF WeatherItemList, Item
            <4>2. p0 \in Nat /\ p0 + 4 =< Len(line) /\ AreValues(report.value)
                BY <1>2, <2>0, <3>2, WindLengthIs4 DEF ReportInv
            <4>3. AreValues(one)
                BY <2>0, <4>1, <4>2, DecodedIsValue
            <4> HIDE DEF one
            <4>4. AreValues(two)
                <5>1. p0 + WindLength \in Nat /\ p0 + WindLength =< Len(line)
                    BY <4>2, WindLengthIs4
                <5> QED BY <2>0, <4>1, <4>3, <5>1, DecodedIsValue
            <4> HIDE DEF two
            <4>5. /\ report' = [report EXCEPT !.value = two]
                  /\ p0' = p0 + 7 /\ pc' = "weather" /\ UNCHANGED status
                BY <2>7, <3>2, <4>2, WindLengthIs4 DEF Wind, one, two
            <4> QED BY <1>2, <4>2, <4>4, <4>5 DEF ReportInv
        <3> QED BY <3>1, <3>2
    <2>8. CASE Weather
        <3> DEFINE flag == line[p0 + 1]
                   k    == Min(Flagged(flag))
                   item == WeatherItemList[k]
                   v    == DecodeWeatherValue(report.value, p0 + 1, item.wxSym, flag, item.factor)
        <3>1. k \in 1 .. 13
            <4>1. Flagged(flag) \subseteq Nat /\ Flagged(flag) # {} /\ Flagged(flag) \subseteq 1 .. 13
                <5>1. Flagged(flag) # {}
                    BY <2>8 DEF Weather
                <5>2. Flagged(flag) \subseteq 1 .. 13
                    BY TableFacts DEF Flagged
                <5> HIDE DEF flag
                <5> QED BY <5>1, <5>2
            <4> QED BY <4>1, MinIsLeast
        <3>2. p0 + 1 \in Nat /\ p0 + 1 =< Len(line) /\ AreValues(report.value)
            BY <1>2, <2>0, <2>8 DEF ReportInv, Weather
        <3>3. AreValues(v)
            <4> HIDE DEF k
            <4> QED BY <2>0, <3>1, <3>2, DecodedIsValue
        <3>4. WeatherItemList[Row(item.wxSym)].digits \in Nat
            <4> HIDE DEF k
            <4> QED BY <3>1, RowIsFirst, TableFacts
        <3>5. /\ report' = [report EXCEPT !.value = v]
              /\ p0' = p0 + 1 + WeatherItemList[Row(item.wxSym)].digits
              /\ UNCHANGED <<pc, status>>
            BY <2>8 DEF Weather
        <3> HIDE DEF v, item
        <3> QED BY <1>2, <3>2, <3>3, <3>4, <3>5 DEF ReportInv
    <2>9. CASE EndOfWeather
        BY <1>2, <2>0, <2>9 DEF EndOfWeather, Return, ReportInv
    <2>10. CASE UNCHANGED vars
        BY <1>2, <2>10 DEF vars, ReportInv
    <2> QED BY <1>2, <2>1, <2>2, <2>3, <2>5, <2>6, <2>7, <2>8, <2>9, <2>10 DEF Next
<1> QED BY <1>1, <1>2

\* Whatever the line, what decode stores is a number, an infinity or NaN, in a
\* field for which packets have a flag: none for dew point or humidex, whose
\* empty field behind the terminator is not converted.
THEOREM ReportsAreTyped == Spec => []DecodeTypeOK
<1>1. CursorInv /\ ReportInv => DecodeTypeOK
    BY DEF CursorInv, ReportInv, AreValues, DecodeTypeOK
<1> QED BY <1>1, CursorCorrect, ReportInvInductive, PTL DEF Spec

-----------------------------------------------------------------------------
(* A text stands for the number it was written for. *)

\* Quotients and remainders.
LEMMA DivFacts ==
    ASSUME NEW x \in Nat, NEW d \in Nat \ {0}
    PROVE  x \div d \in Nat /\ d * (x \div d) =< x /\ x < d * (x \div d) + d
    OBVIOUS

\* A factor that is greater by one at least makes a product that is greater by d at least.
LEMMA Grows ==
    ASSUME NEW d \in Nat, NEW a \in Nat, NEW b \in Nat, a < b
    PROVE  d * a + d =< d * b
<1> DEFINE c == b - a - 1
<1>1. c \in Nat /\ b = a + 1 + c
    OBVIOUS
<1> HIDE DEF c
<1>2. d * b = d * (a + 1) + d * c /\ d * c \in Nat
    BY <1>1
<1>3. d * (a + 1) = d * a + d /\ d * a \in Nat
    OBVIOUS
<1> QED BY <1>2, <1>3

\* A number that fits is the quotient.
LEMMA DivUnique ==
    ASSUME NEW x \in Nat, NEW d \in Nat \ {0}, NEW q \in Nat, d * q =< x, x < d * q + d
    PROVE  x \div d = q
<1> DEFINE p == x \div d
<1>1. p \in Nat /\ d * p =< x /\ x < d * p + d
    BY DivFacts
<1> HIDE DEF p
<1>2. p < q => d * p + d =< d * q
    BY <1>1, Grows
<1>3. q < p => d * q + d =< d * p
    BY <1>1, Grows
<1>4. d * p \in Nat /\ d * q \in Nat
    BY <1>1
<1>5. p = q
    BY <1>1, <1>2, <1>3, <1>4
<1> QED BY <1>5 DEF p

\* The quotient, from that by ten times as much and one more digit.
LEMMA Tenths ==
    ASSUME NEW x \in Nat, NEW d \in Nat \ {0}
    PROVE  x \div d = 10 * (x \div (10 * d)) + ((x \div d) % 10)
<1>1. PICK p \in Nat : p = x \div d /\ d * p =< x /\ x < d * p + d
    BY DivFacts
<1>2. PICK h \in Nat, r \in 0 .. 9 : r = p % 10 /\ p = 10 * h + r
    <2>1. \A y \in Nat : y \div 10 \in Nat /\ y % 10 \in 0 .. 9 /\ y = 10 * (y \div 10) + (y % 10)
        OBVIOUS
    <2> QED BY <2>1
<1>3. d * (10 * h) = (10 * d) * h /\ d * (10 * h) \in Nat
    BY <1>2
<1>4. d * p = d * (10 * h) + d * r
    BY <1>2
<1>5. 0 =< d * r /\ d * r + d =< 10 * d /\ d * r \in Nat
    <2>1. r \in Nat /\ r < 10
        BY <1>2
    <2>2. d * r + d =< d * 10
        BY <2>1, Grows
    <2> QED BY <2>1, <2>2
<1>6. (10 * d) * h =< x /\ x < (10 * d) * h + 10 * d
    BY <1>1, <1>3, <1>4, <1>5
<1>7. x \div (10 * d) = h
    BY <1>2, <1>6, DivUnique
<1>8. p = 10 * (x \div (10 * d)) + r
    BY <1>2, <1>7
<1> QED BY <1>1, <1>2, <1>8

\* A figure stands for its digit.
LEMMA FigureIsDigit ==
    ASSUME NEW d \in 0 .. 9
    PROVE  Figure(d) \in Digit /\ DigitValue[Figure(d)] = d
<1>1. CASE d = 0
    BY <1>1 DEF Figure, Digit, DigitValue
<1>2. CASE d # 0
    <2>1. d \in 1 .. 9 /\ Figure(d) = Figures[d]
        BY <1>2 DEF Figure
    <2>2. Figures[d] \in Digit /\ Figures[d] # "0"
        BY <2>1 DEF Figures, Digit
    <2>3. \A n \in 1 .. 9 : Figures[n] = Figures[d] => n = d
        BY <2>1 DEF Figures
    <2>4. DigitValue[Figures[d]] = CHOOSE n \in 1 .. 9 : Figures[n] = Figures[d]
        BY <2>2 DEF DigitValue
    <2> HIDE DEF Figures
    <2> QED BY <2>1, <2>2, <2>3, <2>4
<1> QED BY <1>1, <1>2

\* None is a space, a sign or a point.
LEMMA DigitIsNoSign ==
    ASSUME NEW c \in Digit
    PROVE  c \notin Space /\ c \notin {"-", "+"} /\ c # Point
<1>1. c # Terminator
    BY TerminatorIsNoDigit
<1>2. c # " " /\ c # "-" /\ c # "+" /\ c # Point
    BY Zenon DEF Digit, Point
<1>3. c \notin {"\t", "\f", "\r", "VT"}
    BY Zenon DEF Digit
<1> QED BY <1>1, <1>2, <1>3 DEF Space

\* The greatest number up to n is n.
LEMMA MaxOfInterval ==
    ASSUME NEW n \in Nat \ {0}
    PROVE  Max(1 .. n) = n /\ (1 .. n) \ {Max(1 .. n)} = 1 .. n - 1
<1> DEFINE m == Max(1 .. n)
<1>1. m \in 1 .. n /\ \A y \in 1 .. n : m >= y
    <2>1. 1 .. n \in SUBSET (1 .. n) /\ 1 .. n # {} /\ n \in Nat
        OBVIOUS
    <2> QED BY <2>1, MaxIsGreatest
<1> HIDE DEF m
<1>2. m = n
    BY <1>1
<1>3. (1 .. n) \ {n} = 1 .. n - 1
    OBVIOUS
<1> QED BY <1>2, <1>3 DEF m

\* g holds what the first characters of a string stand for, and the first n are the string.
Values(str, n, g) ==
    /\ Natural(str) = g[n]
    /\ g[0] = 0
    /\ \A k \in 0 .. n - 1 : g[k + 1] = IF str[k + 1] = Point THEN g[k]
                                       ELSE 10 * g[k] + DigitValue[str[k + 1]]

\* What a string stands for, digit by digit.
LEMMA NaturalSteps ==
    ASSUME NEW n \in Nat, NEW str, DOMAIN str = 1 .. n
    PROVE  \E g : Values(str, n, g)
<1> DEFINE it == CHOOSE h : Folds(str, SUBSET DOMAIN str, h)
           g  == [k \in 0 .. n |-> it[1 .. k]]
<1>1. Natural(str) = it[DOMAIN str]
    BY DEF Natural, FoldLeft, MapThenFoldSet, Folds
<1>2. Folds(str, SUBSET (1 .. n), it)
    BY FoldsExist
<1> HIDE DEF it
<1>3. \A s \in SUBSET (1 .. n) :
        it[s] = IF s = {} THEN 0
                ELSE IF str[Max(s)] = Point THEN it[s \ {Max(s)}]
                ELSE 10 * it[s \ {Max(s)}] + DigitValue[str[Max(s)]]
    BY <1>2 DEF Folds
<1>4. g[n] = it[1 .. n]
    OBVIOUS
<1>5. g[0] = 0
    <2>1. 1 .. 0 = {} /\ {} \in SUBSET (1 .. n)
        OBVIOUS
    <2>2. it[{}] = 0
        BY <1>3, <2>1
    <2> QED BY <2>1, <2>2
<1>6. ASSUME NEW k \in 0 .. n - 1
      PROVE  g[k + 1] = IF str[k + 1] = Point THEN g[k]
                        ELSE 10 * g[k] + DigitValue[str[k + 1]]
    <2> DEFINE s == 1 .. k + 1
    <2>1. k + 1 \in Nat \ {0} /\ k + 1 \in 0 .. n /\ k \in 0 .. n /\ (k + 1) - 1 = k
        OBVIOUS
    <2>2. Max(s) = k + 1 /\ s \ {Max(s)} = 1 .. k
        <3>1. Max(s) = k + 1 /\ s \ {Max(s)} = 1 .. (k + 1) - 1
            BY <2>1, MaxOfInterval
        <3> QED BY <2>1, <3>1
    <2>3. s \in SUBSET (1 .. n) /\ k + 1 \in s
        BY <2>1
    <2>4. g[k + 1] = it[s] /\ g[k] = it[1 .. k]
        BY <2>1
    <2> HIDE DEF s, g
    <2>5. it[s] = IF str[Max(s)] = Point THEN it[s \ {Max(s)}]
                  ELSE 10 * it[s \ {Max(s)}] + DigitValue[str[Max(s)]]
        BY <1>3, <2>3
    <2> QED BY <2>2, <2>4, <2>5
<1> HIDE DEF g
<1>7. Values(str, n, g)
    BY <1>1, <1>4, <1>5, <1>6 DEF Values
<1> QED BY <1>7

\* The digits of a number stand for it.
LEMMA DecimalIsNatural ==
    ASSUME NEW k \in Nat, NEW n \in Nat, n < TenTo[k]
    PROVE  /\ Decimal(n, k) \in Seq(Digit) /\ Len(Decimal(n, k)) = k
           /\ Natural(Decimal(n, k)) = n
<1> DEFINE str == Decimal(n, k)
           digit(i) == (n \div TenTo[k - i]) % 10
<1>1. ASSUME NEW i \in 0 .. k
      PROVE  k - i \in Nat /\ TenTo[k - i] \in Nat \ {0} /\ n \div TenTo[k - i] \in Nat
    <2>1. k - i \in Nat
        OBVIOUS
    <2>2. TenTo[k - i] \in Nat \ {0}
        BY <2>1, PowersOfTen
    <2> QED BY <2>1, <2>2, DivFacts
<1>2. ASSUME NEW i \in 1 .. k
      PROVE  digit(i) \in 0 .. 9 /\ str[i] = Figure(digit(i))
    <2>1. \A y \in Nat : y % 10 \in 0 .. 9
        OBVIOUS
    <2>2. i \in 0 .. k
        OBVIOUS
    <2>3. n \div TenTo[k - i] \in Nat
        BY <1>1, <2>2
    <2> QED BY <2>1, <2>3 DEF Decimal
<1> HIDE DEF digit
<1>3. \A i \in 1 .. k : str[i] \in Digit /\ DigitValue[str[i]] = digit(i)
    BY <1>2, FigureIsDigit
<1>4. str = [i \in 1 .. k |-> str[i]]
    BY DEF Decimal
<1> HIDE DEF str
<1>5. str \in Seq(Digit) /\ Len(str) = k
    BY <1>3, <1>4
<1>0. PICK g : Values(str, k, g)
    <2>1. DOMAIN str = 1 .. k
        BY <1>4
    <2> QED BY <2>1, NaturalSteps
<1>6. /\ Natural(str) = g[k] /\ g[0] = 0
      /\ \A i \in 0 .. k - 1 : g[i + 1] = IF str[i + 1] = Point THEN g[i]
                                          ELSE 10 * g[i] + DigitValue[str[i + 1]]
    BY <1>0 DEF Values
<1> DEFINE S == {i \in Nat : i =< k => g[i] = n \div TenTo[k - i]}
<1>7. 0 \in S
    <2>1. k - 0 = k /\ n \div TenTo[k] = 0
        BY PowersOfTen, DivUnique
    <2> QED BY <1>6, <2>1
<1>8. ASSUME NEW i \in Nat, i \in S
      PROVE  i + 1 \in S
    <2>1. SUFFICES ASSUME i + 1 =< k  PROVE g[i + 1] = n \div TenTo[k - (i + 1)]
        OBVIOUS
    <2> DEFINE d == TenTo[k - (i + 1)]
    <2>2. k - (i + 1) \in Nat /\ (k - (i + 1)) + 1 = k - i /\ i + 1 \in 1 .. k /\ i \in 0 .. k - 1
        BY <2>1
    <2>3. d \in Nat \ {0} /\ TenTo[k - i] = 10 * d
        BY <2>2, PowersOfTen, TenToSteps
    <2>4. g[i] = n \div (10 * d)
        BY <1>8, <2>1, <2>3
    <2>5. digit(i + 1) = (n \div d) % 10
        BY DEF digit
    <2>6. g[i + 1] = 10 * g[i] + digit(i + 1)
        BY <1>3, <1>6, <2>2, DigitIsNoSign
    <2> HIDE DEF d
    <2>7. n \div d = 10 * (n \div (10 * d)) + ((n \div d) % 10)
        BY <2>3, Tenths
    <2>8. g[i + 1] = n \div d
        BY <2>4, <2>5, <2>6, <2>7
    <2> QED BY <2>8 DEF d
<1>9. k \in S
    <2> HIDE DEF S
    <2> QED BY <1>7, <1>8, Induction
<1>10. g[k] = n
    <2>1. k - k = 0
        OBVIOUS
    <2>2. n \div 1 = n
        BY DivUnique
    <2> QED BY <1>9, <2>1, <2>2, TenToSteps
<1> QED BY <1>5, <1>6, <1>10 DEF str

\* from_chars takes digits, and returns the number.
LEMMA LongOfDigits ==
    ASSUME NEW k \in Nat \ {0}, NEW n \in Nat, n < TenTo[k]
    PROVE  SafeConvertLong(Decimal(n, k)) = <<n>>
<1> DEFINE str == Decimal(n, k)
<1>1. str \in Seq(Digit) /\ Len(str) = k /\ Natural(str) = n
    BY DecimalIsNatural
<1> HIDE DEF str
<1>2. str # <<>> /\ str[1] \in Digit /\ \A i \in DOMAIN str : str[i] \in Digit
    BY <1>1
<1>3. str[1] # "-"
    BY <1>2, DigitIsNoSign
<1> QED BY <1>1, <1>2, <1>3 DEF SafeConvertLong, str

\* strtod skips nothing before a character that is not a space.
LEMMA NoSpaces ==
    ASSUME NEW str \in Seq(STRING), Len(str) > 0, str[1] \notin Space
    PROVE  Spaces(str) = 0
<1>1. /\ Spaces(str) \in 0 .. Len(str)
      /\ \A i \in 1 .. Spaces(str) : str[i] \in Space
    <2> DEFINE fits(k) == /\ \A i \in 1 .. k : str[i] \in Space
                          /\ k < Len(str) => str[k + 1] \notin Space
    <2>1. 0 \in 0 .. Len(str) /\ fits(0)
        OBVIOUS
    <2>2. Spaces(str) = CHOOSE k \in 0 .. Len(str) : fits(k)
        BY DEF Spaces
    <2> HIDE DEF fits
    <2>3. Spaces(str) \in 0 .. Len(str) /\ fits(Spaces(str))
        BY <2>1, <2>2
    <2> QED BY <2>3 DEF fits
<1>2. Spaces(str) > 0 => 1 \in 1 .. Spaces(str)
    BY <1>1
<1> QED BY <1>1, <1>2

\* What strtod makes of its digits: decimals are those behind the point.
LEMMA DoubleOf ==
    ASSUME NEW text, NEW digits, digits = Numeral(text), NEW k \in Nat,
           NEW after, after = {i \in DOMAIN digits : \E j \in 1 .. i - 1 : digits[j] = Point},
           Cardinality(after) = k
    PROVE  /\ Signs(text) = 0 => Double(text) = <<Natural(digits), TenTo[k]>>
           /\ Signs(text) = 1 /\ text[Spaces(text) + 1] = "-" =>
                Double(text) = <<-Natural(digits), TenTo[k]>>
<1>1. Double(text) = <<IF Signs(text) = 1 /\ text[Spaces(text) + 1] = "-"
                         THEN -Natural(digits) ELSE Natural(digits), TenTo[k]>>
    BY Zenon DEF Double, Signed
<1> QED BY <1>1

\* strtod takes digits, with or without a minus, and returns the number.
LEMMA DoubleOfDigits ==
    ASSUME NEW text \in Seq(STRING), NEW n \in Int, Writes(text, n)
    PROVE  SafeConvertDouble(text) = << <<n, 1>> >>
<1>1. \A k \in Nat \ {0}, m \in Nat : m < TenTo[k] =>
        LET str == Decimal(m, k)
        IN  /\ str \in Seq(Digit) /\ Len(str) = k /\ Natural(str) = m /\ IsNumeral(str)
            /\ {i \in DOMAIN str : \E j \in 1 .. i - 1 : str[j] = Point} = {}
    <2> TAKE k \in Nat \ {0}, m \in Nat
    <2> HAVE m < TenTo[k]
    <2> DEFINE str == Decimal(m, k)
    <2>1. str \in Seq(Digit) /\ Len(str) = k /\ Natural(str) = m
        BY DecimalIsNatural
    <2> HIDE DEF str
    <2>2. \A i \in DOMAIN str : str[i] \in Digit
        BY <2>1
    <2>3. 1 \in DOMAIN str
        BY <2>1
    <2>4. IsNumeral(str)
        BY <2>2, <2>3 DEF IsNumeral
    <2>5. \A i \in DOMAIN str : \A j \in 1 .. i - 1 : str[j] # Point
        BY <2>1, <2>2, DigitIsNoSign
    <2> QED BY <2>1, <2>4, <2>5 DEF str
<1>2. Cardinality({}) = 0 /\ TenTo[0] = 1
    BY FS_EmptySet, TenToSteps
<1>3. CASE /\ Len(text) > 0 /\ n \in 0 .. TenTo[Len(text)] - 1
           /\ text = Decimal(n, Len(text))
    <2>1. Len(text) \in Nat \ {0} /\ n \in Nat /\ n < TenTo[Len(text)]
        BY <1>3, PowersOfTen
    <2>2. /\ text \in Seq(Digit) /\ Natural(text) = n /\ IsNumeral(text)
          /\ {i \in DOMAIN text : \E j \in 1 .. i - 1 : text[j] = Point} = {}
        BY <1>1, <1>3, <2>1
    <2>3. text[1] \notin Space /\ text[1] \notin {"-", "+"}
        BY <2>1, <2>2, DigitIsNoSign
    <2>4. Spaces(text) = 0 /\ Signs(text) = 0
        BY <2>1, <2>3, NoSpaces DEF Signs
    <2>5. Numeral(text) = text
        BY <2>4 DEF Numeral
    <2>6. Double(text) = <<n, 1>>
        BY <1>2, <2>2, <2>4, <2>5, DoubleOf
    <2> QED BY <2>2, <2>5, <2>6 DEF SafeConvertDouble
<1>4. CASE /\ Len(text) > 1 /\ -n \in 0 .. TenTo[Len(text) - 1] - 1
           /\ text = <<"-">> \o Decimal(-n, Len(text) - 1)
    <2> DEFINE k == Len(text) - 1
               str == Decimal(-n, k)
    <2>1. k \in Nat \ {0} /\ -n \in Nat /\ -n < TenTo[k]
        <3>1. k \in Nat \ {0}
            BY <1>4
        <3>2. TenTo[k] \in Nat \ {0} /\ -n \in 0 .. TenTo[k] - 1
            BY <1>4, <3>1, PowersOfTen
        <3> HIDE DEF k
        <3> QED BY <3>1, <3>2
    <2>2. /\ str \in Seq(Digit) /\ Len(str) = k /\ Natural(str) = -n /\ IsNumeral(str)
          /\ {i \in DOMAIN str : \E j \in 1 .. i - 1 : str[j] = Point} = {}
        BY <1>1, <2>1
    <2>3. text = <<"-">> \o str /\ Len(text) = k + 1
        BY <1>4
    <2> HIDE DEF str, k
    <2>4. text[1] = "-" /\ "-" \notin Space
        <3>1. "-" \notin Space
            BY Zenon DEF Space, Terminator
        <3> QED BY <2>1, <2>2, <2>3, <3>1
    <2>5. Spaces(text) = 0 /\ Signs(text) = 1
        <3>1. Len(text) > 0
            BY <2>1, <2>3
        <3>2. Spaces(text) = 0
            BY <2>4, <3>1, NoSpaces
        <3> QED BY <2>4, <3>1, <3>2 DEF Signs
    <2>6. Numeral(text) = str
        <3>1. Numeral(text) = SubSeq(text, 2, k + 1)
            BY <2>3, <2>5 DEF Numeral
        <3>2. \A i \in 1 .. k : text[i + 1] = str[i]
            BY <2>1, <2>2, <2>3
        <3>3. SubSeq(text, 2, k + 1) = [i \in 1 .. k |-> text[i + 1]]
            BY <2>1, <2>3
        <3>4. str = [i \in 1 .. k |-> str[i]]
            BY <2>1, <2>2
        <3> QED BY <3>1, <3>2, <3>3, <3>4
    <2>7. -Natural(str) = n
        BY <2>2
    <2>8. Double(text) = <<n, 1>>
        <3>1. text[Spaces(text) + 1] = "-"
            BY <2>4, <2>5
        <3>2. Double(text) = <<-Natural(str), TenTo[0]>>
            BY <1>2, <2>2, <2>5, <2>6, <3>1, DoubleOf
        <3> QED BY <1>2, <2>7, <3>2
    <2> QED BY <2>2, <2>6, <2>8 DEF SafeConvertDouble
<1> QED BY <1>3, <1>4 DEF Writes

\* strtod takes nothing of a blank field.
LEMMA BlankIsNoNumber ==
    ASSUME NEW text \in Seq(STRING), Blank(text)
    PROVE  SafeConvertDouble(text) = <<>>
<1>1. \A i \in DOMAIN text : text[i] \notin Digit
    BY DigitIsNoSign DEF Blank, Space
<1>2. ASSUME NEW i \in DOMAIN Numeral(text)
      PROVE  Numeral(text)[i] \notin Digit /\ Numeral(text)[i] \in {Point, " "}
    <2>1. Spaces(text) \in Nat /\ Signs(text) \in {0, 1} /\ Len(text) \in Nat
        BY SpacesFact DEF Signs
    <2> DEFINE f == Spaces(text) + Signs(text) + 1
    <2>2. f \in Nat \ {0} /\ Numeral(text) = SubSeq(text, f, Len(text))
        BY <2>1 DEF Numeral
    <2> HIDE DEF f
    <2>3. Numeral(text)[i] = text[f + i - 1] /\ f + i - 1 \in DOMAIN text
        BY <1>2, <2>1, <2>2
    <2> QED BY <1>1, <2>3 DEF Blank
<1>3. ~IsNumeral(Numeral(text))
    BY <1>2 DEF IsNumeral
<1>4. Numeral(text) \notin DOMAIN OtherForms
    BY <1>2, FormIsText, Zenon
<1> QED BY <1>3, <1>4, OtherwiseRefused

\* A hundred.
LEMMA TenToTwo == TenTo[2] = 100
<1>1. TenTo[0 + 1] = 10 * TenTo[0] /\ TenTo[1 + 1] = 10 * TenTo[1]
    BY TenToSteps
<1> QED BY <1>1, TenToSteps

\* Digits have values, and are not the point.
LEMMA DigitFacts ==
    \A c \in Digit : DigitValue[c] \in Nat /\ c # Point
<1> TAKE c \in Digit
<1>1. DigitValue[c] \in 0 .. 9
    BY DigitValues
<1> QED BY <1>1, DigitIsNoSign

\* The values of a sequence.
LEMMA StringValues ==
    ASSUME NEW S, NEW str \in Seq(S), NEW n \in Nat, Len(str) = n
    PROVE  \E g : Values(str, n, g)
<1>1. DOMAIN str = 1 .. n
    OBVIOUS
<1> QED BY <1>1, NaturalSteps, Zenon

\* Two digits, one by one.
LEMMA TwoDigits ==
    ASSUME NEW n \in 0 .. 99
    PROVE  /\ Decimal(n, 2) \in Seq(Digit) /\ Len(Decimal(n, 2)) = 2
           /\ Decimal(n, 2)[1] \in Digit /\ Decimal(n, 2)[2] \in Digit
           /\ 10 * DigitValue[Decimal(n, 2)[1]] + DigitValue[Decimal(n, 2)[2]] = n
<1> DEFINE str == Decimal(n, 2)
<1>1. str \in Seq(Digit) /\ Len(str) = 2 /\ Natural(str) = n
    <2>1. 2 \in Nat /\ n \in Nat /\ n < TenTo[2]
        BY TenToTwo
    <2> QED BY <2>1, DecimalIsNatural
<1> HIDE DEF str
<1>2. PICK g : Values(str, 2, g)
    BY <1>1, StringValues
<1>3. str[1] \in Digit /\ str[2] \in Digit
    BY <1>1
<1>4. /\ str[1] # Point /\ str[2] # Point
      /\ DigitValue[str[1]] \in Nat /\ DigitValue[str[2]] \in Nat
    BY <1>3, DigitFacts
<1>5. g[1] = 10 * g[0] + DigitValue[str[1]] /\ g[2] = 10 * g[1] + DigitValue[str[2]]
    <2>1. 0 \in 0 .. 2 - 1 /\ 1 \in 0 .. 2 - 1 /\ 0 + 1 = 1 /\ 1 + 1 = 2
        OBVIOUS
    <2> QED BY <1>2, <1>4, <2>1 DEF Values
<1>6. 10 * DigitValue[str[1]] + DigitValue[str[2]] = n
    <2>1. Natural(str) = g[2] /\ g[0] = 0
        BY <1>2 DEF Values
    <2> QED BY <1>1, <1>4, <1>5, <2>1
<1> QED BY <1>1, <1>3, <1>6 DEF str

\* A sequence behind two others.
Joined(x, w, y) == x \o w \o y

LEMMA JoinedFacts ==
    ASSUME NEW S, NEW x \in Seq(S), NEW w \in Seq(S), NEW y \in Seq(S)
    PROVE  /\ Len(Joined(x, w, y)) = Len(x) + Len(w) + Len(y)
           /\ \A i \in 1 .. Len(x) : Joined(x, w, y)[i] = x[i]
           /\ \A i \in 1 .. Len(w) : Joined(x, w, y)[Len(x) + i] = w[i]
           /\ \A i \in 1 .. Len(y) : Joined(x, w, y)[Len(x) + Len(w) + i] = y[i]
BY DEF Joined

\* Two elements.
LEMMA PairHasTwo ==
    ASSUME NEW i, NEW j, i # j
    PROVE  Cardinality({i} \cup {j}) = 2
<1> DEFINE s == {i}
<1>1. Cardinality(s) = 1 /\ IsFiniteSet(s) /\ j \notin s
    BY FS_Singleton
<1> HIDE DEF s
<1>2. Cardinality(s \cup {j}) = Cardinality(s) + 1
    BY <1>1, FS_AddElement
<1>3. Cardinality(s \cup {j}) = 2
    BY <1>1, <1>2
<1> QED BY <1>3 DEF s

\* Two digits, a point and two digits stand for hundredths.
LEMMA DoubleOfHundredths ==
    ASSUME NEW a \in Nat, NEW b \in Nat, NEW text \in Seq(STRING), Len(text) = 5,
           text[1] \in Digit, text[2] \in Digit, text[3] = Point,
           text[4] \in Digit, text[5] \in Digit,
           10 * DigitValue[text[1]] + DigitValue[text[2]] = a,
           10 * DigitValue[text[4]] + DigitValue[text[5]] = b
    PROVE  SafeConvertDouble(text) = << <<100 * a + b, 100>> >>
<1> DEFINE v(c) == DigitValue[c]
           after == {i \in DOMAIN text : \E j \in 1 .. i - 1 : text[j] = Point}
<1> HIDE DEF after
<1>2. Len(text) = 5 /\ text[3] = Point
    OBVIOUS
<1>3. text[1] \in Digit /\ text[2] \in Digit /\ text[4] \in Digit /\ text[5] \in Digit
    OBVIOUS
<1>4. /\ text[1] # Point /\ text[2] # Point /\ text[4] # Point /\ text[5] # Point
      /\ v(text[1]) \in Nat /\ v(text[2]) \in Nat /\ v(text[4]) \in Nat /\ v(text[5]) \in Nat
    BY <1>3, DigitFacts
<1>5. 10 * v(text[1]) + v(text[2]) = a /\ 10 * v(text[4]) + v(text[5]) = b
    OBVIOUS
<1>6. Natural(text) = 100 * a + b
    <2>1. PICK g : Values(text, 5, g)
        BY StringValues
    <2>2. /\ 0 \in 0 .. 5 - 1 /\ 1 \in 0 .. 5 - 1 /\ 2 \in 0 .. 5 - 1
          /\ 3 \in 0 .. 5 - 1 /\ 4 \in 0 .. 5 - 1
          /\ 0 + 1 = 1 /\ 1 + 1 = 2 /\ 2 + 1 = 3 /\ 3 + 1 = 4 /\ 4 + 1 = 5
        OBVIOUS
    <2>3. g[1] = 10 * g[0] + v(text[1]) /\ g[2] = 10 * g[1] + v(text[2])
        BY <1>4, <2>1, <2>2 DEF Values
    <2>4. g[3] = g[2]
        BY <1>2, <2>1, <2>2 DEF Values
    <2>5. g[4] = 10 * g[3] + v(text[4]) /\ g[5] = 10 * g[4] + v(text[5])
        BY <1>4, <2>1, <2>2 DEF Values
    <2> HIDE DEF v
    <2>6. Natural(text) = g[5] /\ g[0] = 0
        BY <2>1 DEF Values
    <2>7. g[1] = v(text[1])
        BY <1>4, <2>3, <2>6
    <2>8. g[3] = a
        BY <1>4, <1>5, <2>3, <2>4, <2>7
    <2>9. g[4] = 10 * a + v(text[4])
        BY <2>5, <2>8
    <2>10. g[5] = 10 * (10 * a + v(text[4])) + v(text[5])
        BY <2>5, <2>9
    <2>11. 10 * (10 * a + v(text[4])) + v(text[5]) = 100 * a + b
        <3>1. \A p, q \in Nat : 10 * (10 * a + p) + q = 100 * a + (10 * p + q)
            OBVIOUS
        <3>2. 10 * (10 * a + v(text[4])) + v(text[5]) = 100 * a + (10 * v(text[4]) + v(text[5]))
            BY <1>4, <3>1
        <3> QED BY <1>5, <3>2
    <2> QED BY <2>6, <2>10, <2>11
<1> HIDE DEF v
<1>7. Spaces(text) = 0 /\ Signs(text) = 0
    <2>1. Len(text) > 0 /\ text[1] \notin Space /\ text[1] \notin {"-", "+"}
        BY <1>2, <1>3, DigitIsNoSign
    <2>2. Spaces(text) = 0
        BY <2>1, NoSpaces
    <2> QED BY <2>1, <2>2 DEF Signs
<1>8. Numeral(text) = text
    <2>1. SubSeq(text, 1, Len(text)) = text
        OBVIOUS
    <2>2. Numeral(text) = SubSeq(text, 0 + 0 + 1, Len(text))
        BY <1>7, Zenon DEF Numeral
    <2>3. 0 + 0 + 1 = 1
        OBVIOUS
    <2> QED BY <2>1, <2>2, <2>3
<1>9. \A j \in 1 .. 5 : (text[j] = Point <=> j = 3) /\ (j # 3 => text[j] \in Digit)
    <2> TAKE j \in 1 .. 5
    <2>1. j = 1 \/ j = 2 \/ j = 3 \/ j = 4 \/ j = 5
        OBVIOUS
    <2> QED BY <1>2, <1>3, <1>4, <2>1
<1>10. IsNumeral(text)
    <2>1. 1 \in DOMAIN text
        BY <1>2
    <2> QED BY <1>2, <1>3, <1>9, <2>1 DEF IsNumeral
<1>11. after = {4} \cup {5}
    <2>1. ASSUME NEW i
          PROVE  i \in after <=> i \in {4} \cup {5}
        <3>1. i \in after <=> i \in 1 .. 5 /\ \E j \in 1 .. i - 1 : text[j] = Point
            <4>1. i \in DOMAIN text <=> i \in 1 .. 5
                BY <1>2
            <4> QED BY <4>1, Zenon DEF after
        <3>2. i \in 1 .. 5 =>
                ((\E j \in 1 .. i - 1 : text[j] = Point) <=> 3 \in 1 .. i - 1)
            BY <1>9
        <3> QED BY <3>1, <3>2
    <2> QED BY <2>1
<1>12. Cardinality({4} \cup {5}) = 2
    <2>1. 4 # 5
        OBVIOUS
    <2> QED BY <2>1, PairHasTwo
<1>13. Double(text) = <<100 * a + b, 100>>
    <2>1. Cardinality(after) = 2
        BY <1>11, <1>12, Zenon
    <2> HIDE DEF after
    <2>2. Double(text) = <<Natural(text), TenTo[2]>>
        <3>1. 2 \in Nat /\ after = {i \in DOMAIN text : \E j \in 1 .. i - 1 : text[j] = Point}
            BY DEF after
        <3> QED BY <1>7, <1>8, <2>1, <3>1, DoubleOf
    <2> QED BY <1>6, <2>2, TenToTwo
<1> QED BY <1>8, <1>10, <1>13 DEF SafeConvertDouble

\* The minutes of a coordinate.
LEMMA DoubleOfMinutes ==
    ASSUME NEW a \in 0 .. 99, NEW b \in 0 .. 99, NEW text \in Seq(STRING),
           text = Minutes(a, b)
    PROVE  SafeConvertDouble(text) = << <<100 * a + b, 100>> >>
<1> DEFINE x == Decimal(a, 2)
           y == Decimal(b, 2)
           w == <<Point>>
           z == Joined(x, w, y)
<1>1. /\ x \in Seq(Digit) /\ Len(x) = 2 /\ 10 * DigitValue[x[1]] + DigitValue[x[2]] = a
      /\ y \in Seq(Digit) /\ Len(y) = 2 /\ 10 * DigitValue[y[1]] + DigitValue[y[2]] = b
    BY TwoDigits
<1>4. x[1] \in Digit /\ x[2] \in Digit /\ y[1] \in Digit /\ y[2] \in Digit
    BY TwoDigits
<1>2. text = z
    BY Zenon DEF Minutes, Joined
<1> DEFINE T == Digit \cup {Point}
<1>3. w \in Seq(T) /\ Len(w) = 1 /\ w[1] = Point
    OBVIOUS
<1> HIDE DEF x, y, w
<1>5. x \in Seq(T) /\ y \in Seq(T)
    <2>1. \A s \in Seq(Digit) : s \in Seq(T)
        OBVIOUS
    <2> QED BY <1>1, <2>1
<1> HIDE DEF T
<1>6. /\ Len(z) = 5
      /\ z[1] = x[1] /\ z[2] = x[2] /\ z[3] = w[1] /\ z[4] = y[1] /\ z[5] = y[2]
    <2>0. x \in Seq(T) /\ w \in Seq(T) /\ y \in Seq(T)
        BY <1>3, <1>5
    <2>1. /\ Len(z) = Len(x) + Len(w) + Len(y)
          /\ \A i \in 1 .. Len(x) : z[i] = x[i]
          /\ \A i \in 1 .. Len(w) : z[Len(x) + i] = w[i]
          /\ \A i \in 1 .. Len(y) : z[Len(x) + Len(w) + i] = y[i]
        BY <2>0, JoinedFacts
    <2> HIDE DEF z
    <2>2. /\ 1 \in 1 .. Len(x) /\ 2 \in 1 .. Len(x) /\ 1 \in 1 .. Len(w)
          /\ 1 \in 1 .. Len(y) /\ 2 \in 1 .. Len(y)
          /\ Len(x) + 1 = 3 /\ Len(x) + Len(w) + 1 = 4 /\ Len(x) + Len(w) + 2 = 5
          /\ Len(x) + Len(w) + Len(y) = 5
        BY <1>1, <1>3
    <2> QED BY <2>1, <2>2
<1> HIDE DEF z
<1>7. z \in Seq(STRING)
    BY <1>2, Zenon
<1>8. SafeConvertDouble(z) = << <<100 * a + b, 100>> >>
    <2>1. /\ z[1] \in Digit /\ z[2] \in Digit /\ z[3] = Point
          /\ z[4] \in Digit /\ z[5] \in Digit
          /\ 10 * DigitValue[z[1]] + DigitValue[z[2]] = a
          /\ 10 * DigitValue[z[4]] + DigitValue[z[5]] = b
        BY <1>1, <1>3, <1>4, <1>6, Zenon
    <2>2. a \in Nat /\ b \in Nat
        OBVIOUS
    <2> QED BY <1>6, <1>7, <2>1, <2>2, DoubleOfHundredths
<1> QED BY <1>2, <1>8, Zenon

\* A field within the line is what substr returns.
LEMMA FieldIsSubstr ==
    ASSUME line \in Lines, NEW p \in Nat, NEW length \in Nat, p + length =< Len(line)
    PROVE  /\ Substr(p, length) = Field(line, p, length)
           /\ Substr(p, length) \in Seq(STRING)
<1>1. line \in Seq(STRING) /\ Len(line) \in Nat
    BY LineFacts
<1>2. (IF p + length < Len(line) THEN p + length ELSE Len(line)) = p + length
    BY <1>1
<1>3. Substr(p, length) = SubSeq(line, p + 1, p + length)
    BY <1>2 DEF Substr
<1>4. p =< Len(line)
    BY <1>1
<1> QED BY <1>3, <1>4, SubstrIsString DEF Field

\* A coordinate on the line is decoded.
LEMMA CoordinateIsDecoded ==
    ASSUME line \in Lines, NEW p \in Nat, NEW which \in DOMAIN DegreeLength, NEW q,
           HasCoordinate(line, p, which, q),
           p + DegreeLength[which] + MinuteLength < Len(line)
    PROVE  \A c \in CharAt(p + DegreeLength[which] + MinuteLength) :
             Coordinate(which, SafeConvertLong(Substr(p, DegreeLength[which])),
                        SafeConvertDouble(Substr(p + DegreeLength[which], MinuteLength)), c)
               = <<q>>
<1> DEFINE length == DegreeLength[which]
           m == p + length
           e == m + MinuteLength
           c == line[e + 1]
<1>1. length \in Nat \ {0} /\ MinuteLength = 5 /\ Len(line) \in Nat /\ m \in Nat
    BY LineFacts DEF DegreeLength, MinuteLength
<1>2. PICK d \in 0 .. TenTo[length] - 1 :
        /\ Field(line, p, length) = Decimal(d, length)
        /\ \E h, k \in 0 .. 99 :
             /\ Field(line, m, MinuteLength) = Minutes(h, k)
             /\ \/ q = <<100 * (60 * d + h) + k, 60 * 100>> /\ c \in Positive[which]
                \/ q = <<-(100 * (60 * d + h) + k), 60 * 100>> /\ c \in Negative[which]
    BY Zenon DEF HasCoordinate
<1>3. PICK h \in 0 .. 99, k \in 0 .. 99 :
        /\ Field(line, m, MinuteLength) = Minutes(h, k)
        /\ \/ q = <<100 * (60 * d + h) + k, 60 * 100>> /\ c \in Positive[which]
           \/ q = <<-(100 * (60 * d + h) + k), 60 * 100>> /\ c \in Negative[which]
    <2> HIDE DEF m, c
    <2> QED BY <1>2
<1> DEFINE n == 100 * (60 * d + h) + k
<1>4. e \in Nat /\ e < Len(line)
    BY <1>1
<1>5. CharAt(e) = {c}
    <2> HIDE DEF e
    <2> QED BY <1>4 DEF CharAt
<1>6. TenTo[length] \in Nat
    BY <1>1, PowersOfTen
<1>7. d \in Nat /\ d < TenTo[length]
    <2> HIDE DEF length
    <2> QED BY <1>6
<1>8. p + length =< Len(line) /\ m + MinuteLength =< Len(line)
    BY <1>1, <1>4
<1> HIDE DEF c, e
<1>9. SafeConvertLong(Substr(p, length)) = <<d>>
    <2> HIDE DEF length
    <2>1. Substr(p, length) = Field(line, p, length)
        BY <1>1, <1>8, FieldIsSubstr
    <2>2. Substr(p, length) = Decimal(d, length)
        BY <1>2, <2>1
    <2>3. SafeConvertLong(Decimal(d, length)) = <<d>>
        BY <1>1, <1>7, LongOfDigits
    <2> QED BY <2>2, <2>3, Zenon
<1>10. SafeConvertDouble(Substr(m, MinuteLength)) = << <<100 * h + k, 100>> >>
    <2> HIDE DEF m
    <2>1. /\ Substr(m, MinuteLength) = Field(line, m, MinuteLength)
          /\ Substr(m, MinuteLength) \in Seq(STRING)
        BY <1>1, <1>8, FieldIsSubstr
    <2>2. Substr(m, MinuteLength) = Minutes(h, k)
        BY <1>3, <2>1
    <2> QED BY <2>1, <2>2, DoubleOfMinutes
<1>11. Coordinate(which, <<d>>, << <<100 * h + k, 100>> >>, c) = <<q>>
    <2> HIDE DEF length, m
    <2>1. c \in Positive[which] \cup Negative[which]
        BY <1>3
    <2>2. Coordinate(which, <<d>>, << <<100 * h + k, 100>> >>, c) =
             << <<IF c \in Positive[which] THEN (100 * h + k) + 60 * d * 100
                  ELSE -((100 * h + k) + 60 * d * 100), 60 * 100>> >>
        BY <2>1 DEF Coordinate
    <2>3. (100 * h + k) + 60 * d * 100 = n
        BY <1>7
    <2>4. c \in Negative[which] => c \notin Positive[which]
        <3>1. which = "latitude" \/ which = "longitude"
            BY DEF DegreeLength
        <3> QED BY <3>1 DEF Positive, Negative
    <2>5. q = <<IF c \in Positive[which] THEN n ELSE -n, 60 * 100>>
        BY <1>3, <2>4
    <2> QED BY <2>2, <2>3, <2>5
<1> QED BY <1>5, <1>9, <1>10, <1>11 DEF e

-----------------------------------------------------------------------------
(* A report is decoded. *)

\* The position after the first of a character.
LEMMA PositionIsFirst ==
    ASSUME line \in Lines, NEW c, NEW i \in DOMAIN line, line[i] = c,
           \A j \in 1 .. i - 1 : line[j] # c
    PROVE  PositionAfter(c) = i
<1> DEFINE found == {j \in DOMAIN line : line[j] = c}
<1>1. found \subseteq Nat /\ i \in found /\ i \in Nat
    BY LineFacts
<1>2. \A j \in found : j >= i
    BY LineFacts
<1>3. PositionAfter(c) = Min(found)
    BY <1>1 DEF PositionAfter
<1> HIDE DEF found
<1>4. Min(found) \in found /\ \A y \in found : Min(found) =< y
    BY <1>1, MinIsLeast
<1>5. Min(found) = i
    <2> DEFINE k == Min(found)
    <2>1. k \in Nat /\ k >= i /\ k =< i
        BY <1>1, <1>2, <1>4
    <2> HIDE DEF k
    <2>2. k = i
        BY <1>1, <2>1
    <2> QED BY <2>2 DEF k
<1> QED BY <1>3, <1>5

\* The header of a report.
LEMMA HeaderFacts ==
    ASSUME line \in Lines, NEW m, line = m.line, NEW p \in DOMAIN line, HasHeader(m, p)
    PROVE  /\ TerminatedBy(">") = m.report.name
           /\ line[PositionAfter(":") + 1] \in {"!", "=", "@", "/"}
           /\ Body = p
<1>1. PICK g \in DOMAIN line, c \in DOMAIN line :
        /\ line[g] = ">" /\ \A i \in 1 .. g - 1 : line[i] # ">"
        /\ line[c] = ":" /\ \A i \in 1 .. c - 1 : line[i] # ":"
        /\ m.report.name = SubSeq(line, 1, g - 1)
        /\ \/ p = c + 1 /\ line[c + 1] \in {"!", "="}
           \/ p = c + 1 + DateTimeLength /\ line[c + 1] \in {"@", "/"}
    BY DEF HasHeader
<1>2. PositionAfter(">") = g /\ PositionAfter(":") = c
    BY <1>1, PositionIsFirst
<1>3. g # 0
    BY LineFacts
<1>4. TerminatedBy(">") = m.report.name
    BY <1>1, <1>2, <1>3 DEF TerminatedBy
<1>5. line[c + 1] \in {"!", "="} => line[c + 1] \notin {"@", "/"}
    BY Zenon
<1>6. Body = c + 1 + (IF line[c + 1] \in {"@", "/"} THEN DateTimeLength ELSE 0)
    BY <1>2 DEF Body
<1>7. c \in Nat
    BY LineFacts
<1>8. Body = p
    <2> HIDE DEF DateTimeLength
    <2>1. CASE p = c + 1 /\ line[c + 1] \in {"!", "="}
        BY <1>5, <1>6, <1>7, <2>1
    <2>2. CASE p = c + 1 + DateTimeLength /\ line[c + 1] \in {"@", "/"}
        BY <1>6, <2>2
    <2> QED BY <1>1, <2>1, <2>2
<1> QED BY <1>1, <1>2, <1>4, <1>8

\* Rows of one symbol have fields of one width.
LEMMA RowWidth ==
    \A i \in 1 .. 13 :
        WeatherItemList[Row(WeatherItemList[i].wxSym)].digits = WeatherItemList[i].digits
<1>1. \A i, j \in 1 .. 13 : WeatherItemList[i].wxSym = WeatherItemList[j].wxSym =>
                             WeatherItemList[i].digits = WeatherItemList[j].digits
    BY DEF WeatherItemList, Item
<1> QED BY <1>1, RowIsFirst

\* What a report says of some symbols.
Part(m, S) == [s \in DOMAIN m.report.value \cap S |-> m.report.value[s]]

\* With one more symbol.
With(S, i) == S \cup {WeatherItemList[i].wxSym}

\* A field adds what the report says of its symbol.
LEMMA ValueIsDecoded ==
    ASSUME line \in Lines, NEW m, line = m.line, NEW i \in 1 .. 13, NEW p \in Nat, NEW S,
           HasValue(m, p, i), p + WeatherItemList[i].digits =< Len(line), NEW flag,
           flag = "l" <=> WeatherItemList[i].wxFlag = "l"
    PROVE  DecodeWeatherValue(Part(m, S), p, WeatherItemList[i].wxSym, flag,
                              WeatherItemList[i].factor)
             = Part(m, With(S, i))
<1> DEFINE sym    == WeatherItemList[i].wxSym
           factor == WeatherItemList[i].factor
           digits == WeatherItemList[i].digits
           text   == Field(line, p, digits)
           H      == IF flag = "l" THEN 1000 ELSE 0
           high   == IF WeatherItemList[i].wxFlag = "l" THEN 1000 * factor ELSE 0
           value  == Part(m, S)
           all    == m.report.value
           q      == all[sym]
           D      == DOMAIN all
           res    == SafeConvertDouble(text)
<1>1. /\ digits \in Nat /\ factor \in Nat \ {0}
      /\ WeatherItemList[Row(sym)].digits = digits
    BY TableFacts, RowWidth
<1>2. /\ sym \in D => q \in Int \X {factor} /\ Writes(text, q[1] - high)
      /\ sym \notin D => Blank(text)
    BY DEF HasValue
<1>3. Substr(p, WeatherItemList[Row(sym)].digits) = text /\ text \in Seq(STRING)
    <2>1. p + digits =< Len(line)
        OBVIOUS
    <2> HIDE DEF digits
    <2>2. Substr(p, digits) = text /\ text \in Seq(STRING)
        BY <1>1, <2>1, FieldIsSubstr
    <2> QED BY <1>1, <2>2
<1>4. high = H * factor /\ H \in Nat
    BY <1>1
<1>5. DecodeWeatherValue(value, p, sym, flag, factor) =
        IF res = <<>> THEN value
        ELSE [s \in DOMAIN value \cup {sym} |->
                IF s = sym THEN <<res[1][1] + H * factor * res[1][2], factor * res[1][2]>>
                ELSE value[s]]
    BY <1>3 DEF DecodeWeatherValue
<1> HIDE DEF sym, factor, digits, text, H, high, res
<1>6. CASE sym \in D
    <2>1. q[1] \in Int /\ q = <<q[1], factor>> /\ Writes(text, q[1] - high)
        <3> HIDE DEF D, q
        <3> QED BY <1>2, <1>6
    <2> DEFINE n == q[1] - high
    <2>2. H * factor \in Nat
        BY <1>1, <1>4
    <2>3. n \in Int
        <3> HIDE DEF q
        <3> QED BY <1>4, <2>1, <2>2
    <2>4. res = << <<n, 1>> >>
        <3> HIDE DEF n
        <3>1. Writes(text, n)
            BY <2>1 DEF n
        <3> QED BY <1>3, <2>3, <3>1, DoubleOfDigits DEF res
    <2>5. res # <<>> /\ res[1][1] = n /\ res[1][2] = 1
        <3> HIDE DEF n
        <3> QED BY <2>4
    <2>6. n + H * factor * 1 = q[1] /\ factor * 1 = factor
        <3> HIDE DEF q
        <3> QED BY <1>1, <1>4, <2>1, <2>2
    <2>7. <<res[1][1] + H * factor * res[1][2], factor * res[1][2]>> = q
        <3> HIDE DEF n, q
        <3>1. res[1][1] + H * factor * res[1][2] = q[1] /\ factor * res[1][2] = factor
            BY <2>5, <2>6
        <3> QED BY <2>1, <3>1
    <2> HIDE DEF n
    <2>8. DecodeWeatherValue(value, p, sym, flag, factor) =
            [s \in DOMAIN value \cup {sym} |-> IF s = sym THEN q ELSE value[s]]
        BY <1>5, <2>5, <2>7, Zenon
    <2>9. DOMAIN value \cup {sym} = D \cap (S \cup {sym})
        BY <1>6 DEF Part
    <2>10. [s \in DOMAIN value \cup {sym} |-> IF s = sym THEN q ELSE value[s]]
             = Part(m, S \cup {sym})
        BY <1>6 DEF Part
    <2> QED BY <2>8, <2>10, Zenon DEF sym, factor, With
<1>7. CASE sym \notin D
    <2>1. res = <<>>
        BY <1>2, <1>3, <1>7, BlankIsNoNumber DEF res
    <2>2. DecodeWeatherValue(value, p, sym, flag, factor) = value
        BY <1>5, <2>1, Zenon
    <2>3. D \cap S = D \cap (S \cup {sym})
        BY <1>7
    <2>4. value = Part(m, S \cup {sym})
        BY <1>7 DEF Part
    <2> QED BY <2>2, <2>4, Zenon DEF sym, factor, With
<1> QED BY <1>6, <1>7

\* The stops of a report are places within its line.
LEMMA StopsAreWithin ==
    ASSUME line \in Lines, NEW m, line = m.line, m.stops \in Seq(Nat), m.stops # <<>>,
           HasWeather(m)
    PROVE  \A k \in 1 .. Len(m.stops) : m.stops[k] \in Nat /\ m.stops[k] < Len(line)
<1> DEFINE st == m.stops
           n  == Len(st)
           width(k) == WeatherItemList[RowAt(m, k)].digits
<1>1. n \in Nat \ {0} /\ \A k \in 1 .. n : st[k] \in Nat
    OBVIOUS
<1>2. \A k \in 1 .. n - 1 : RowAt(m, k) \in 1 .. 13 /\ width(k) \in Nat
    <2> TAKE k \in 1 .. n - 1
    <2>1. Flagged(m.line[st[k] + 1]) # {} /\ Flagged(m.line[st[k] + 1]) \subseteq 1 .. 13
        BY TableFacts DEF HasWeather, Flagged
    <2>2. RowAt(m, k) \in 1 .. 13
        <3> DEFINE rows == Flagged(m.line[st[k] + 1])
        <3>0. \A R : R \subseteq 1 .. 13 => R \subseteq Nat
            OBVIOUS
        <3>1. rows # {} /\ rows \subseteq 1 .. 13 /\ rows \subseteq Nat
            BY <2>1, <3>0, Zenon
        <3> HIDE DEF rows
        <3>2. Min(rows) \in 1 .. 13
            BY <3>1, MinIsLeast
        <3> QED BY <3>2, Zenon DEF RowAt, rows
    <2> QED BY <2>2, TableFacts
<1>3. \A k \in 1 .. n - 1 : st[k + 1] = st[k] + 1 + width(k)
    BY DEF HasWeather
<1>4. st[n] < Len(line) /\ Len(line) \in Nat
    <2>1. st[n - 1 + 1] < Len(m.line)
        BY DEF HasWeather
    <2> QED BY <1>1, <2>1, LineFacts
<1> HIDE DEF st, n, width
<1> DEFINE T == {j \in Nat : j < n => st[n - j] < Len(line)}
<1>5. 0 \in T
    BY <1>1, <1>4
<1>6. ASSUME NEW j \in Nat, j \in T
      PROVE  j + 1 \in T
    <2>1. SUFFICES ASSUME j + 1 < n  PROVE st[n - (j + 1)] < Len(line)
        OBVIOUS
    <2> DEFINE k == n - (j + 1)
    <2>2. k \in 1 .. n - 1 /\ k + 1 = n - j /\ k \in 1 .. n /\ k + 1 \in 1 .. n /\ j < n
        BY <1>1, <2>1
    <2>3. st[k + 1] < Len(line)
        BY <1>6, <2>2
    <2> HIDE DEF k
    <2>4. st[k] < Len(line)
        BY <1>1, <1>2, <1>3, <1>4, <2>2, <2>3
    <2> QED BY <2>4 DEF k
<1>7. \A j \in Nat : j \in T
    <2> HIDE DEF T
    <2> QED BY <1>5, <1>6, Induction
<1>8. ASSUME NEW k \in 1 .. n
      PROVE  st[k] < Len(line)
    <2>1. n - k \in Nat /\ n - k < n /\ n - (n - k) = k
        BY <1>1
    <2> QED BY <1>7, <2>1
<1> QED BY <1>1, <1>8 DEF st, n

\* What a report is, on its line.
LEMMA ReportFacts ==
    ASSUME line \in Lines, NEW m \in Sent, line = m.line
    PROVE  /\ TerminatedBy(">") = m.report.name
           /\ line[PositionAfter(":") + 1] \in {"!", "=", "@", "/"}
           /\ HasCoordinate(line, Body, "latitude", m.report.lat[1])
           /\ HasCoordinate(line, Body + 9, "longitude", m.report.lon[1])
           /\ HasValue(m, Body + 19, 1) /\ HasValue(m, Body + 23, 2)
           /\ Len(m.stops) \in Nat \ {0} /\ m.stops[1] = Body + 26 /\ Body + 26 < Len(line)
           /\ \A k \in 1 .. Len(m.stops) : m.stops[k] \in Nat /\ m.stops[k] < Len(line)
           /\ HasWeather(m)
           /\ m.report = [name |-> m.report.name, lat |-> <<m.report.lat[1]>>,
                          lon |-> <<m.report.lon[1]>>,
                          value |-> [s \in DOMAIN m.report.value |-> m.report.value[s]]]
<1>1. IsReport(m)
    BY SentAssumption
<1>2. PICK p \in DOMAIN line :
         /\ HasHeader(m, p)
         /\ HasCoordinate(m.line, p, "latitude", m.report.lat[1])
         /\ HasCoordinate(m.line, p + 9, "longitude", m.report.lon[1])
         /\ HasValue(m, p + 19, 1) /\ HasValue(m, p + 23, 2)
         /\ m.stops[1] = p + 26
    BY <1>1 DEF IsReport
<1>3. /\ TerminatedBy(">") = m.report.name
      /\ line[PositionAfter(":") + 1] \in {"!", "=", "@", "/"}
      /\ Body = p
    BY <1>2, HeaderFacts
<1>4. m.stops \in Seq(Nat) /\ m.stops # <<>> /\ HasWeather(m)
    BY <1>1 DEF IsReport
<1>5. Len(m.stops) \in Nat \ {0}
    BY <1>4
<1>6. \A k \in 1 .. Len(m.stops) : m.stops[k] \in Nat /\ m.stops[k] < Len(line)
    BY <1>4, StopsAreWithin
<1>7. 1 \in 1 .. Len(m.stops)
    BY <1>5
<1>8. m.report = [name |-> m.report.name, lat |-> <<m.report.lat[1]>>,
                  lon |-> <<m.report.lon[1]>>,
                  value |-> [s \in DOMAIN m.report.value |-> m.report.value[s]]]
    BY <1>1, Zenon DEF IsReport
<1>9. /\ HasCoordinate(line, Body, "latitude", m.report.lat[1])
      /\ HasCoordinate(line, Body + 9, "longitude", m.report.lon[1])
      /\ HasValue(m, Body + 19, 1) /\ HasValue(m, Body + 23, 2)
      /\ m.stops[1] = Body + 26
    BY <1>2, <1>3, Zenon
<1>10. Body + 26 < Len(line)
    BY <1>6, <1>7, <1>9
<1> QED BY <1>3, <1>4, <1>5, <1>6, <1>8, <1>9, <1>10, Zenon

\* What has been decoded of the report m: its fields, one by one, with what the
\* station says in them, and no error.  In the weather, the fields up to a stop.
DecodedSoFar(m) ==
    /\ pc \notin {"name", "threw"} => report.name = m.report.name
    /\ pc \in {"symTable", "longitude", "symCode", "wind", "weather", "done"} =>
         report.lat = m.report.lat
    /\ pc \in {"symCode", "wind", "weather", "done"} => report.lon = m.report.lon
    /\ pc \notin {"weather", "done"} => report.value = <<>>
    /\ pc = "weather" =>
         \E k \in 1 .. Len(m.stops) :
           /\ report.value = Part(m, Symbols(m, k - 1))
           /\ p0 = m.stops[k] \/ (k = Len(m.stops) /\ p0 = Len(line))
    /\ pc = "done" => status = "WxPacket" /\ report.value = m.report.value
    /\ pc # "threw"

SentInv == \A m \in Sent : line = m.line => DecodedSoFar(m)

\* The wind of a report.
LEMMA WindIsDecoded ==
    ASSUME line \in Lines, NEW m \in Sent, line = m.line
    PROVE  DecodeWeatherValue(
             DecodeWeatherValue(<<>>, Body + 19, "WindDirection", Nul, 1),
             Body + 23, "WindSpeed", Nul, 1) = Part(m, Symbols(m, 0))
<1>1. /\ WeatherItemList[1].wxSym = "WindDirection" /\ WeatherItemList[1].factor = 1
      /\ WeatherItemList[1].digits = 3 /\ WeatherItemList[1].wxFlag = "c"
      /\ WeatherItemList[2].wxSym = "WindSpeed" /\ WeatherItemList[2].factor = 1
      /\ WeatherItemList[2].digits = 3 /\ WeatherItemList[2].wxFlag = "s"
    BY DEF WeatherItemList, Item
<1>2. Nul # "l" /\ "c" # "l" /\ "s" # "l"
    BY Zenon DEF Nul
<1>3. /\ HasValue(m, Body + 19, 1) /\ HasValue(m, Body + 23, 2) /\ Body + 26 < Len(line)
      /\ Body \in Nat /\ Len(line) \in Nat /\ 1 \in 1 .. 13 /\ 2 \in 1 .. 13
    <2>1. 1 \in 1 .. 13 /\ 2 \in 1 .. 13
        OBVIOUS
    <2> QED BY <2>1, ReportFacts, BodyIsNat, LineFacts
<1>4. /\ Body + 19 \in Nat /\ Body + 19 + WeatherItemList[1].digits =< Len(line)
      /\ Body + 23 \in Nat /\ Body + 23 + WeatherItemList[2].digits =< Len(line)
    BY <1>1, <1>3
<1>5. Part(m, {}) = <<>>
    BY DEF Part
<1>6. DecodeWeatherValue(Part(m, {}), Body + 19, WeatherItemList[1].wxSym, Nul,
                         WeatherItemList[1].factor)
        = Part(m, With({}, 1))
    <2>1. Nul = "l" <=> WeatherItemList[1].wxFlag = "l"
        BY <1>1, <1>2
    <2> QED BY <1>3, <1>4, <2>1, ValueIsDecoded
<1>7. \A S : DecodeWeatherValue(Part(m, S), Body + 23, WeatherItemList[2].wxSym, Nul,
                                WeatherItemList[2].factor)
               = Part(m, With(S, 2))
    <2>1. Nul = "l" <=> WeatherItemList[2].wxFlag = "l"
        BY <1>1, <1>2
    <2> QED BY <1>3, <1>4, <2>1, ValueIsDecoded
<1>8. With(With({}, 1), 2) = Symbols(m, 0)
    <2>1. {WeatherItemList[RowAt(m, j)].wxSym : j \in 1 .. 0} = {}
        OBVIOUS
    <2> QED BY <1>1, <2>1 DEF Symbols, With
<1> QED BY <1>1, <1>5, <1>6, <1>7, <1>8, Zenon

\* A field of the weather adds what the report says of its symbol, and moves the cursor to
\* the next stop; the terminator of the line, whose row has no width, adds nothing.
LEMMA WeatherIsDecoded ==
    ASSUME line \in Lines, NEW m \in Sent, line = m.line, NEW k \in 1 .. Len(m.stops)
    PROVE  LET p    == m.stops[k]
               flag == line[p + 1]
               item == WeatherItemList[Min(Flagged(flag))]
               next == p + 1 + WeatherItemList[Row(item.wxSym)].digits
               v    == DecodeWeatherValue(Part(m, Symbols(m, k - 1)), p + 1, item.wxSym, flag,
                                          item.factor)
           IN  /\ k < Len(m.stops) =>
                    /\ Flagged(flag) # {}
                    /\ v = Part(m, Symbols(m, (k + 1) - 1)) /\ next = m.stops[k + 1]
               /\ k = Len(m.stops) /\ Flagged(flag) # {} =>
                    v = Part(m, Symbols(m, k - 1)) /\ next = Len(line)
<1> DEFINE st   == m.stops
           n    == Len(st)
           p    == st[k]
           flag == line[p + 1]
           i    == Min(Flagged(flag))
           item == WeatherItemList[i]
           next == p + 1 + WeatherItemList[Row(item.wxSym)].digits
           v    == DecodeWeatherValue(Part(m, Symbols(m, k - 1)), p + 1, item.wxSym, flag,
                                      item.factor)
<1>1. /\ n \in Nat \ {0} /\ HasWeather(m) /\ Len(line) \in Nat
      /\ \A j \in 1 .. n : st[j] \in Nat /\ st[j] < Len(line)
    BY ReportFacts, LineFacts
<1>2. ASSUME Flagged(flag) # {}
      PROVE  /\ i \in 1 .. 13 /\ item.wxFlag = flag
             /\ WeatherItemList[Row(item.wxSym)].digits = item.digits
    <2>1. Flagged(flag) \subseteq 1 .. 13 /\ \A j \in Flagged(flag) : WeatherItemList[j].wxFlag = flag
        BY TableFacts DEF Flagged
    <2>2. Flagged(flag) \subseteq Nat
        BY <2>1
    <2>3. i \in Flagged(flag)
        <3> HIDE DEF flag
        <3> QED BY <1>2, <2>2, MinIsLeast
    <2> HIDE DEF i, flag
    <2> QED BY <2>1, <2>3, RowWidth
<1>3. ASSUME k < n
      PROVE  /\ Flagged(flag) # {}
             /\ v = Part(m, Symbols(m, (k + 1) - 1)) /\ next = st[k + 1]
    <2>1. k \in 1 .. n - 1 /\ k + 1 \in 1 .. n
        BY <1>1, <1>3
    <2>2. RowAt(m, k) = i
        BY Zenon DEF RowAt
    <2>3. /\ Flagged(flag) # {}
          /\ HasValue(m, p + 1, i)
          /\ st[k + 1] = p + 1 + item.digits
        <3>1. /\ Flagged(m.line[st[k] + 1]) # {}
              /\ HasValue(m, st[k] + 1, RowAt(m, k))
              /\ st[k + 1] = st[k] + 1 + WeatherItemList[RowAt(m, k)].digits
            <4> HIDE DEF flag, i, p
            <4> QED BY <1>1, <2>1 DEF HasWeather
        <3> QED BY <2>2, <3>1, Zenon
    <2>4. /\ i \in 1 .. 13 /\ item.wxFlag = flag
          /\ WeatherItemList[Row(item.wxSym)].digits = item.digits
        BY <1>2, <2>3
    <2>5. p \in Nat /\ p + 1 \in Nat /\ p + 1 + item.digits =< Len(line)
        <3>1. p \in Nat /\ st[k + 1] \in Nat /\ st[k + 1] < Len(line)
            BY <1>1, <2>1
        <3>2. st[k + 1] = p + 1 + item.digits /\ Len(line) \in Nat
            BY <1>1, <2>3
        <3> HIDE DEF p, item, st
        <3>3. p + 1 + item.digits =< Len(line)
            BY <3>1, <3>2
        <3> QED BY <3>1, <3>3
    <2>6. v = Part(m, Symbols(m, k - 1) \cup {item.wxSym})
        <3>1. flag = "l" <=> WeatherItemList[i].wxFlag = "l"
            BY <2>4
        <3>2. HasValue(m, p + 1, i) /\ p + 1 \in Nat
              /\ p + 1 + WeatherItemList[i].digits =< Len(line) /\ i \in 1 .. 13
            BY <2>3, <2>4, <2>5
        <3> DEFINE u == p + 1
                   S == Symbols(m, k - 1)
        <3> HIDE DEF flag, i, p
        <3>3. HasValue(m, u, i) /\ u \in Nat /\ u + WeatherItemList[i].digits =< Len(line)
            BY <3>2
        <3> HIDE DEF u, S
        <3>4. DecodeWeatherValue(Part(m, S), u, WeatherItemList[i].wxSym, flag,
                                 WeatherItemList[i].factor)
                = Part(m, With(S, i))
            <4>1. i \in 1 .. 13
                BY <3>2
            <4> HIDE DEF v, next, item, n, st
            <4> QED BY <3>1, <3>3, <4>1, ValueIsDecoded
        <3> QED BY <3>4, Zenon DEF u, S, With
    <2>7. Symbols(m, k - 1) \cup {item.wxSym} = Symbols(m, (k + 1) - 1)
        <3>1. \A j : j \in 1 .. (k + 1) - 1 <=> j \in 1 .. k - 1 \/ j = k
            BY <1>1
        <3> DEFINE sym(j) == WeatherItemList[RowAt(m, j)].wxSym
        <3>2. item.wxSym = sym(k)
            BY <2>2
        <3> HIDE DEF item, sym
        <3>3. {sym(j) : j \in 1 .. k - 1} \cup {sym(k)} = {sym(j) : j \in 1 .. (k + 1) - 1}
            BY <3>1
        <3> QED BY <3>2, <3>3 DEF Symbols, sym
    <2> HIDE DEF flag, i, p, v, next
    <2>8. v = Part(m, Symbols(m, (k + 1) - 1))
        BY <2>6, <2>7, Zenon
    <2>9. next = st[k + 1]
        BY <2>3, <2>4 DEF next
    <2> QED BY <2>3, <2>8, <2>9
<1>4. ASSUME k = n, Flagged(flag) # {}
      PROVE  v = Part(m, Symbols(m, k - 1)) /\ next = Len(line)
    <2>1. p + 1 = Len(line)
        BY <1>1, <1>4 DEF HasWeather
    <2>2. flag = Terminator
        BY <2>1, LineFacts
    <2>3. item.wxFlag = Terminator /\ i \in 1 .. 13
          /\ WeatherItemList[Row(item.wxSym)].digits = item.digits
        BY <1>2, <1>4, <2>2
    <2>4. \A j \in 1 .. 13 : WeatherItemList[j].wxFlag = Terminator =>
                             WeatherItemList[j].digits = 0
        BY DEF WeatherItemList, Item, Terminator
    <2>5. WeatherItemList[Row(item.wxSym)].digits = 0
        <3> HIDE DEF i
        <3> QED BY <2>3, <2>4
    <2>6. Substr(p + 1, 0) = <<>>
        <3> HIDE DEF p
        <3> QED BY <2>1, LineFacts DEF Substr
    <2>7. SafeConvertDouble(<<>>) = <<>>
        <3>1. <<>> \in Seq(STRING) /\ Blank(<<>>)
            BY DEF Blank
        <3> QED BY <3>1, BlankIsNoNumber, Zenon
    <2> HIDE DEF flag, p, item
    <2>8. v = Part(m, Symbols(m, k - 1))
        BY <2>5, <2>6, <2>7, Zenon DEF DecodeWeatherValue
    <2>9. next = Len(line)
        BY <1>1, <2>1, <2>5
    <2> QED BY <2>8, <2>9
<1> QED BY <1>3, <1>4

\* The types of a report's coordinates: degrees, minutes and a hemisphere that are on the line.
LEMMA CoordinateOfReport ==
    ASSUME line \in Lines, NEW m \in Sent, line = m.line,
           NEW which \in DOMAIN DegreeLength, NEW field, NEW next, NEW error, NEW q,
           p0 \in Nat, HasCoordinate(line, p0, which, q),
           p0 + DegreeLength[which] + MinuteLength < Len(line),
           DecodeCoordinate(which, field, next, error)
    PROVE  /\ report' = [report EXCEPT ![field] = <<q>>]
           /\ pc' = next /\ UNCHANGED <<line, status>>
<1> DEFINE length == DegreeLength[which]
           e      == p0 + length
           res(c) == Coordinate(which, SafeConvertLong(Substr(p0, length)),
                                SafeConvertDouble(Substr(e, MinuteLength)), c)
<1>1. \A c \in CharAt(e + MinuteLength) : res(c) = <<q>>
    BY CoordinateIsDecoded
<1>2. ~ (p0 > Len(line) \/ e > Len(line))
    <2>1. length \in Nat /\ MinuteLength \in Nat /\ Len(line) \in Nat
        BY LineFacts DEF DegreeLength, MinuteLength
    <2> HIDE DEF length
    <2>2. p0 + length + MinuteLength < Len(line)
        BY DEF length
    <2> QED BY <2>1, <2>2
<1> HIDE DEF res, e, length
<1>3. UNCHANGED line /\ \E c \in CharAt(e + MinuteLength) :
        IF res(c) # <<>>
          THEN report' = [report EXCEPT ![field] = res(c)] /\ pc' = next /\ UNCHANGED status
          ELSE Return(error) /\ UNCHANGED report
    BY <1>2 DEF DecodeCoordinate, res, e, length
<1>4. <<q>> # <<>>
    OBVIOUS
<1> QED BY <1>1, <1>3, <1>4

LEMMA SentInvInductive ==
    /\ Init => SentInv
    /\ CursorInv /\ ReportInv /\ SentInv /\ [Next]_vars => SentInv'
<1>1. Init => SentInv
    BY DEF Init, NoReport, SentInv, DecodedSoFar
<1>2. ASSUME CursorInv, ReportInv, SentInv, [Next]_vars, NEW m \in Sent, line' = m.line
      PROVE  DecodedSoFar(m)'
    <2>0. /\ line' = line /\ line = m.line /\ line \in Lines /\ DecodedSoFar(m)
          /\ p0 \in Nat /\ Body \in Nat /\ Len(line) \in Nat
          /\ report = [name |-> report.name, lat |-> report.lat, lon |-> report.lon,
                       value |-> report.value]
        <3>1. line' = line
            BY <1>2 DEF Next, vars, Name, Discriminator, DateTime, Latitude, Longitude,
                DecodeCoordinate, Symbol, Wind, Weather, EndOfWeather
        <3> QED BY <1>2, <3>1, BodyIsNat, LineFacts DEF CursorInv, ReportInv, SentInv
    <2> DEFINE st == m.stops
               n  == Len(st)
    <2>a. /\ TerminatedBy(">") = m.report.name
          /\ line[PositionAfter(":") + 1] \in {"!", "=", "@", "/"}
          /\ HasCoordinate(line, Body, "latitude", m.report.lat[1])
          /\ HasCoordinate(line, Body + 9, "longitude", m.report.lon[1])
          /\ n \in Nat \ {0} /\ st[1] = Body + 26 /\ Body + 26 < Len(line)
          /\ \A k \in 1 .. n : st[k] \in Nat /\ st[k] < Len(line)
          /\ HasWeather(m)
        BY <2>0, ReportFacts
    <2>b. m.report = [name |-> m.report.name, lat |-> <<m.report.lat[1]>>,
                      lon |-> <<m.report.lon[1]>>,
                      value |-> [s \in DOMAIN m.report.value |-> m.report.value[s]]]
        BY <2>0, ReportFacts
    <2>c. m.report.lat = <<m.report.lat[1]>> /\ m.report.lon = <<m.report.lon[1]>>
        BY <2>b
    <2>1. CASE Name
        BY <2>0, <2>1, <2>a DEF Name, DecodedSoFar
    <2>2. CASE Discriminator
        <3>1. line[p0 + 1] \in {"!", "=", "@", "/"}
            BY <1>2, <2>2, <2>a DEF Discriminator, CursorInv
        <3>2. /\ pc = "discriminator" /\ pc' \in {"latitude", "dateTime"}
              /\ UNCHANGED <<report, line>>
            BY <2>2, <3>1 DEF Discriminator
        <3> QED BY <2>0, <3>2 DEF DecodedSoFar
    <2>3. CASE DateTime
        BY <2>0, <2>3 DEF DateTime, DecodedSoFar
    <2>4. CASE Latitude
        <3>1. pc = "latitude" /\ p0 = Body
            BY <1>2, <2>4 DEF Latitude, DecodeCoordinate, CursorInv
        <3>2. p0 + DegreeLength["latitude"] + MinuteLength < Len(line)
            BY <2>0, <2>a, <3>1 DEF DegreeLength, MinuteLength
        <3>3. /\ report' = [report EXCEPT !.lat = <<m.report.lat[1]>>]
              /\ pc' = "symTable" /\ UNCHANGED <<line, status>>
            <4>1. "latitude" \in DOMAIN DegreeLength
                BY DEF DegreeLength
            <4>2. HasCoordinate(line, p0, "latitude", m.report.lat[1])
                BY <2>a, <3>1
            <4> QED BY <2>0, <2>4, <3>2, <4>1, <4>2, CoordinateOfReport DEF Latitude
        <3> QED BY <2>0, <2>c, <3>1, <3>3 DEF DecodedSoFar
    <2>5. CASE Longitude
        <3>1. pc = "longitude" /\ p0 = Body + 9
            BY <1>2, <2>5 DEF Longitude, DecodeCoordinate, CursorInv
        <3>2. p0 + DegreeLength["longitude"] + MinuteLength < Len(line)
            BY <2>0, <2>a, <3>1 DEF DegreeLength, MinuteLength
        <3>3. /\ report' = [report EXCEPT !.lon = <<m.report.lon[1]>>]
              /\ pc' = "symCode" /\ UNCHANGED <<line, status>>
            <4>1. "longitude" \in DOMAIN DegreeLength
                BY DEF DegreeLength
            <4>2. HasCoordinate(line, p0, "longitude", m.report.lon[1])
                BY <2>a, <3>1
            <4> QED BY <2>0, <2>5, <3>2, <4>1, <4>2, CoordinateOfReport DEF Longitude
        <3> QED BY <2>0, <2>c, <3>1, <3>3 DEF DecodedSoFar
    <2>6. CASE Symbol("symTable", "longitude") \/ Symbol("symCode", "wind")
        BY <2>0, <2>6 DEF Symbol, DecodedSoFar
    <2>7. CASE Wind
        <3>1. pc = "wind" /\ p0 = Body + 19 /\ report.value = <<>>
            BY <1>2, <2>0, <2>7 DEF Wind, CursorInv, DecodedSoFar
        <3>2. ~ (p0 + WindLength > Len(line)) /\ p0 + WindLength = Body + 23
              /\ p0 + 2 * WindLength - 1 = Body + 26
            BY <2>0, <2>a, <3>1, WindLengthIs4
        <3>3. /\ report' = [report EXCEPT !.value =
                    DecodeWeatherValue(DecodeWeatherValue(<<>>, Body + 19, "WindDirection", Nul, 1),
                                       Body + 23, "WindSpeed", Nul, 1)]
              /\ p0' = Body + 26 /\ pc' = "weather" /\ UNCHANGED <<line, status>>
            BY <2>7, <3>1, <3>2 DEF Wind
        <3>4. report' = [report EXCEPT !.value = Part(m, Symbols(m, 0))]
            BY <2>0, <3>3, WindIsDecoded, Zenon
        <3>5. report'.value = Part(m, Symbols(m, 0)) /\ report'.name = report.name
              /\ report'.lat = report.lat /\ report'.lon = report.lon
            BY <2>0, <3>4
        <3>6. 1 \in 1 .. n /\ 1 - 1 = 0 /\ p0' = st[1]
            BY <2>a, <3>3
        <3>7. \E k \in 1 .. n : report'.value = Part(m, Symbols(m, k - 1)) /\ p0' = st[k]
            BY <3>5, <3>6
        <3> QED BY <2>0, <3>1, <3>3, <3>5, <3>7 DEF DecodedSoFar
    <2>8. ASSUME pc = "weather"
          PROVE  \E k \in 1 .. n : /\ report.value = Part(m, Symbols(m, k - 1))
                                   /\ p0 = st[k] \/ (k = n /\ p0 = Len(line))
        BY <2>0, <2>8 DEF DecodedSoFar
    <2>9. CASE Weather
        <3> DEFINE flag  == line[p0 + 1]
                   item  == WeatherItemList[Min(Flagged(flag))]
                   next  == p0 + 1 + WeatherItemList[Row(item.wxSym)].digits
                   v(w)  == DecodeWeatherValue(w, p0 + 1, item.wxSym, flag, item.factor)
                   Sy(k) == Part(m, Symbols(m, k - 1))
        <3>1. /\ pc = "weather" /\ p0 < Len(line) /\ Flagged(flag) # {}
              /\ report' = [report EXCEPT !.value = v(report.value)]
              /\ p0' = next /\ UNCHANGED <<line, pc, status>>
            BY <2>9 DEF Weather
        <3>2. PICK k \in 1 .. n : report.value = Sy(k) /\ p0 = st[k]
            BY <2>0, <2>8, <3>1
        <3>3. /\ k < n => v(Sy(k)) = Sy(k + 1) /\ next = st[k + 1]
              /\ k = n => v(Sy(k)) = Sy(k) /\ next = Len(line)
            BY <2>0, <3>1, <3>2, WeatherIsDecoded, Zenon
        <3> HIDE DEF flag, item, next, v, Sy, st, n
        <3>4. report'.value = v(Sy(k)) /\ report'.name = report.name
              /\ report'.lat = report.lat /\ report'.lon = report.lon
            BY <2>0, <3>1, <3>2
        <3>5. \E j \in 1 .. n : report'.value = Sy(j) /\ (p0' = st[j] \/ (j = n /\ p0' = Len(line)))
            <4>1. k = n \/ (k < n /\ k + 1 \in 1 .. n)
                BY <2>a, <3>2
            <4> QED BY <3>1, <3>2, <3>3, <3>4, <4>1
        <3> QED BY <2>0, <3>1, <3>4, <3>5 DEF DecodedSoFar, Sy, st, n
    <2>11. CASE EndOfWeather
        <3>1. /\ pc = "weather" /\ (p0 < Len(line) => Flagged(line[p0 + 1]) = {})
              /\ pc' = "done" /\ status' = "WxPacket" /\ UNCHANGED <<line, report>>
            BY <2>11 DEF EndOfWeather, Return
        <3>2. PICK k \in 1 .. n : /\ report.value = Part(m, Symbols(m, k - 1))
                                  /\ p0 = st[k] \/ (k = n /\ p0 = Len(line))
            BY <2>8, <3>1
        <3>3. k = n
            <4>1. SUFFICES ASSUME p0 = st[k], k < n  PROVE FALSE
                BY <2>a, <3>2
            <4>2. p0 < Len(line)
                BY <2>a, <4>1
            <4>3. Flagged(line[p0 + 1]) # {}
                BY <2>0, <4>1, WeatherIsDecoded
            <4> QED BY <3>1, <4>2, <4>3
        <3>4. DOMAIN m.report.value \subseteq Symbols(m, n - 1)
            BY <2>a DEF HasWeather
        <3>5. m.report.value = [s \in DOMAIN m.report.value |-> m.report.value[s]]
            <4> DEFINE f == [s \in DOMAIN m.report.value |-> m.report.value[s]]
            <4> HIDE DEF f
            <4>1. m.report.value = f
                BY <2>b DEF f
            <4> QED BY <4>1 DEF f
        <3>6. Part(m, Symbols(m, n - 1)) = m.report.value
            BY <3>4, <3>5 DEF Part
        <3>7. report.value = m.report.value
            BY <3>2, <3>3, <3>6, Zenon
        <3> QED BY <2>0, <3>1, <3>7 DEF DecodedSoFar
    <2>10. CASE UNCHANGED vars
        BY <2>0, <2>10 DEF vars, DecodedSoFar
    <2> QED BY <1>2, <2>1, <2>2, <2>3, <2>4, <2>5, <2>6, <2>7, <2>9, <2>10, <2>11 DEF Next
<1> QED BY <1>1, <1>2 DEF SentInv

\* Whatever the values, in whatever order its fields are sent and whichever are blank,
\* decode finds in the line of a report what the station meant by it.
THEOREM SentIsDecoded == Spec => []DecodesWhatWasSent
<1>1. ASSUME CursorInv, ReportInv, SentInv
      PROVE  DecodesWhatWasSent
    <2>1. SUFFICES ASSUME NEW m \in Sent, line = m.line, pc = "done"
                   PROVE  status = "WxPacket" /\ report = m.report
        BY DEF DecodesWhatWasSent
    <2>2. /\ status = "WxPacket" /\ report.name = m.report.name /\ report.lat = m.report.lat
          /\ report.lon = m.report.lon /\ report.value = m.report.value
        BY <1>1, <2>1 DEF SentInv, DecodedSoFar
    <2>3. report = [name |-> report.name, lat |-> report.lat, lon |-> report.lon,
                    value |-> report.value]
        BY <1>1 DEF ReportInv
    <2>4. m.report = [name |-> m.report.name, lat |-> <<m.report.lat[1]>>,
                      lon |-> <<m.report.lon[1]>>,
                      value |-> [s \in DOMAIN m.report.value |-> m.report.value[s]]]
        BY <1>1, <2>1, ReportFacts DEF CursorInv
    <2>5. m.report = [name |-> m.report.name, lat |-> m.report.lat, lon |-> m.report.lon,
                      value |-> m.report.value]
        BY <2>4
    <2> QED BY <2>2, <2>3, <2>5, Zenon
<1> QED BY <1>1, CursorInvInductive, ReportInvInductive, SentInvInductive, PTL DEF Spec

-----------------------------------------------------------------------------
(* decode comes to an end. *)

\* The fields that are still to come before the weather.
Stages == [name |-> 9, discriminator |-> 8, dateTime |-> 7, latitude |-> 6, symTable |-> 5,
           longitude |-> 4, symCode |-> 3, wind |-> 2, weather |-> 1, done |-> 0, threw |-> 0]

\* What is left to decode: fields, and characters once the weather has begun.
Remaining ==
    Stages[pc] + (IF pc \in {"done", "threw"} THEN 0
                  ELSE IF pc # "weather" THEN Len(line)
                  ELSE IF p0 < Len(line) THEN Len(line) - p0 ELSE 0)

\* A step that leaves less to decode.
Advance == Remaining \in Nat /\ Remaining' \in Nat /\ Remaining' < Remaining

\* Every step of decode leaves less to decode.
DecodeAdvances == [][Advance]_vars

\* The loop of decode over the weather cannot go round for ever: the cursor moves over at
\* least the flag of a field, also where the field is 0 wide.  A line takes at most nine
\* steps more than it has characters.
THEOREM DecodeTakesBoundedSteps == Spec => DecodeAdvances
<1>1. ASSUME CursorInv, ReportInv, [Next]_vars
      PROVE  [Advance]_vars
    <2>0. Len(line) \in Nat /\ p0 \in Nat
        BY <1>1, LineFacts DEF CursorInv, ReportInv
    <2>1. ASSUME pc \in DOMAIN Stages \ {"weather", "done", "threw"}, UNCHANGED line,
                 pc' \in DOMAIN Stages, Stages[pc'] < Stages[pc],
                 pc' = "weather" => p0' \in Nat
          PROVE  Advance
        <3>1. Stages[pc] \in Nat /\ Stages[pc'] \in Nat
            BY <2>1 DEF Stages
        <3>2. Remaining = Stages[pc] + Len(line)
            BY <2>1 DEF Remaining
        <3>3. PICK rest \in 0 .. Len(line) : Remaining' = Stages[pc'] + rest
            <4>1. CASE pc' \in {"done", "threw"}
                BY <2>0, <4>1 DEF Remaining
            <4>2. CASE pc' = "weather"
                BY <2>0, <2>1, <4>2 DEF Remaining
            <4>3. CASE pc' \notin {"done", "threw", "weather"}
                BY <2>0, <2>1, <4>3 DEF Remaining
            <4> QED BY <4>1, <4>2, <4>3
        <3> QED BY <2>0, <2>1, <3>1, <3>2, <3>3 DEF Advance
    <2>2. CASE Name \/ Discriminator \/ DateTime
        BY <2>1, <2>2 DEF Name, Discriminator, DateTime, Return, Stages
    <2>3. CASE Latitude
        <3>1. pc = "latitude" /\ pc' \in {"symTable", "done", "threw"} /\ UNCHANGED line
            BY <2>3 DEF Latitude, DecodeCoordinate, Return, Throw
        <3> QED BY <2>1, <3>1 DEF Stages
    <2>4. CASE Longitude
        <3>1. pc = "longitude" /\ pc' \in {"symCode", "done", "threw"} /\ UNCHANGED line
            BY <2>4 DEF Longitude, DecodeCoordinate, Return, Throw
        <3> QED BY <2>1, <3>1 DEF Stages
    <2>5. CASE Symbol("symTable", "longitude") \/ Symbol("symCode", "wind")
        BY <2>1, <2>5 DEF Symbol, Stages
    <2>6. CASE Wind
        <3>1. /\ pc = "wind" /\ pc' \in {"weather", "threw"} /\ UNCHANGED line
              /\ pc' = "weather" => p0' \in Nat
            BY <2>0, <2>6, WindLengthIs4 DEF Wind, Throw
        <3> QED BY <2>1, <3>1 DEF Stages
    <2>7. CASE Weather
        <3> DEFINE item  == WeatherItemList[Min(Flagged(line[p0 + 1]))]
                   width == WeatherItemList[Row(item.wxSym)].digits
        <3>1. Flagged(line[p0 + 1]) # {} /\ Flagged(line[p0 + 1]) \subseteq 1 .. 13
            BY <2>7, TableFacts DEF Weather, Flagged
        <3>2. Min(Flagged(line[p0 + 1])) \in 1 .. 13
            BY <3>1, MinIsLeast
        <3>3. width \in Nat
            BY <3>2, RowIsFirst, TableFacts
        <3>4. /\ pc = "weather" /\ p0 < Len(line) /\ UNCHANGED <<line, pc>>
              /\ p0' = p0 + 1 + width
            BY <2>7 DEF Weather
        <3> HIDE DEF width
        <3> QED BY <2>0, <3>3, <3>4 DEF Advance, Remaining, Stages
    <2>8. CASE EndOfWeather
        <3>1. pc = "weather" /\ pc' = "done"
            BY <2>8 DEF EndOfWeather, Return
        <3> QED BY <2>0, <3>1 DEF Advance, Remaining, Stages
    <2>9. CASE UNCHANGED vars
        BY <2>9
    <2> QED BY <1>1, <2>2, <2>3, <2>4, <2>5, <2>6, <2>7, <2>8, <2>9 DEF Next
<1> QED BY <1>1, CursorCorrect, ReportInvInductive, PTL DEF Spec, DecodeAdvances

=============================================================================
