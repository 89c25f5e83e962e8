---------------------- MODULE WeatherAggregator_proofs ----------------------
(***************************************************************************)
(* Proofs about the aggregator, for every set of stations, every set of    *)
(* readings and every MaxAge.  The sums are folds over finite sets: the    *)
(* first part of the module proves what a sum is, by induction on the set. *)
(***************************************************************************)
EXTENDS WeatherAggregator, FiniteSetTheorems, WellFoundedInduction, TLAPS

-----------------------------------------------------------------------------
(* Induction.  The library's theorems take the induction hypothesis as an  *)
(* operator, which no prover here can instantiate; these take it as a set. *)

\* A set that holds 0, and with a number the next one, holds every number.
LEMMA Induction ==
    ASSUME NEW S, 0 \in S, \A n \in Nat : n \in S => n + 1 \in S
    PROVE  \A n \in Nat : n \in S
<1> DEFINE Less == {ss \in Nat \X Nat : ss[1] < ss[2]}
<1>1. IsWellFoundedOn(Less, Nat)
  BY NatLessThanWellFounded, Zenon DEF OpToRel
<1>2. SUFFICES ASSUME Nat \ S # {}  PROVE FALSE
  OBVIOUS
<1>3. PICK x \in Nat \ S : \A y \in Nat \ S : <<y, x>> \notin Less
  <2> HIDE DEF Less
  <2> QED BY <1>1, <1>2, WFMin
<1>4. x # 0 /\ x - 1 \in Nat /\ x - 1 \notin S
  BY <1>3
<1>5. <<x - 1, x>> \in Less
  BY <1>3, <1>4
<1> QED BY <1>3, <1>4, <1>5

\* A family of sets that holds every subset of S that is in it as soon as the
\* sets with one element less are holds S and all its subsets.
LEMMA FiniteInduction ==
    ASSUME NEW S, IsFiniteSet(S), NEW F,
           \A T \in SUBSET S : (\A x \in T : T \ {x} \in F) => T \in F
    PROVE  \A T \in SUBSET S : T \in F
<1> DEFINE Done == {n \in Nat : \A T \in SUBSET S : Cardinality(T) = n => T \in F}
<1>1. \A T \in SUBSET S : IsFiniteSet(T) /\ Cardinality(T) \in Nat
  BY FS_Subset, FS_CardinalityType
<1>2. 0 \in Done
  BY <1>1, FS_EmptySet
<1>3. ASSUME NEW n \in Nat, n \in Done
      PROVE  n + 1 \in Done
  <2>1. SUFFICES ASSUME NEW T \in SUBSET S, Cardinality(T) = n + 1, NEW x \in T
        PROVE  T \ {x} \in F
    OBVIOUS
  <2>2. Cardinality(T \ {x}) = n
    BY <1>1, <2>1, FS_RemoveElement
  <2> QED BY <1>3, <2>2
<1>4. \A n \in Nat : n \in Done
  <2> HIDE DEF Done
  <2> QED BY <1>2, <1>3, Induction
<1> QED BY <1>1, <1>4

-----------------------------------------------------------------------------
(* Sums: what SumFunctionOnSet computes, whatever order it takes. *)

\* The element that the fold takes first.
First(s) == CHOOSE x \in s : TRUE

\* iter holds the sums of f over the sets in D.
Sums(f, D, iter) ==
    iter = [s \in D |-> IF s = {} THEN 0 ELSE f[First(s)] + iter[s \ {First(s)}]]

\* There are such sums, for the subsets of a finite set.
LEMMA SumsExist ==
    ASSUME NEW f, NEW S, IsFiniteSet(S)
    PROVE  \E iter : Sums(f, SUBSET S, iter)
<1> DEFINE Small(n) == {t \in SUBSET S : Cardinality(t) <= n}
           Done == {n \in Nat : \E iter : Sums(f, Small(n), iter)}
<1>1. \A t \in SUBSET S : /\ IsFiniteSet(t)
                          /\ Cardinality(t) \in Nat
                          /\ Cardinality(t) <= Cardinality(S)
  BY FS_Subset, FS_CardinalityType
<1>2. \A t \in SUBSET S : t # {} => /\ t \ {First(t)} \in SUBSET S
                                    /\ Cardinality(t \ {First(t)}) = Cardinality(t) - 1
  BY <1>1, FS_RemoveElement DEF First
<1>3. 0 \in Done
  <2>1. \A t \in Small(0) : t = {}
    BY <1>1, FS_EmptySet
  <2>2. Sums(f, Small(0), [s \in Small(0) |-> 0])
    BY <2>1 DEF Sums
  <2> QED BY <2>2
<1>4. ASSUME NEW n \in Nat, n \in Done
      PROVE  n + 1 \in Done
  <2>1. PICK g : Sums(f, Small(n), g)
    BY <1>4
  <2> DEFINE h == [s \in Small(n + 1) |->
                     IF s = {} THEN 0 ELSE f[First(s)] + g[s \ {First(s)}]]
  <2>2. \A t \in Small(n) : h[t] = g[t]
    <3>1. \A t \in Small(n) : g[t] = IF t = {} THEN 0 ELSE f[First(t)] + g[t \ {First(t)}]
      BY <2>1 DEF Sums
    <3> QED BY <1>1, <3>1
  <2>3. \A s \in Small(n + 1) : s # {} => s \ {First(s)} \in Small(n)
    BY <1>1, <1>2
  <2>4. \A s \in Small(n + 1) : s # {} => g[s \ {First(s)}] = h[s \ {First(s)}]
    <3> HIDE DEF h, Small
    <3> QED BY <2>2, <2>3
  <2>5. Sums(f, Small(n + 1), h)
    <3>1. /\ h = [s \in Small(n + 1) |-> h[s]]
          /\ \A s \in Small(n + 1) :
               h[s] = IF s = {} THEN 0 ELSE f[First(s)] + g[s \ {First(s)}]
      OBVIOUS
    <3> HIDE DEF h, Small
    <3> QED BY <2>4, <3>1 DEF Sums
  <2> HIDE DEF h
  <2> QED BY <2>5
<1>5. \A n \in Nat : n \in Done
  <2> HIDE DEF Done
  <2> QED BY <1>3, <1>4, Induction
<1>6. Small(Cardinality(S)) = SUBSET S
  BY <1>1
<1> QED BY <1>5, <1>6, FS_CardinalityType

\* There is one sum for every set.
LEMMA SumsAgree ==
    ASSUME NEW f, NEW S, IsFiniteSet(S), NEW T \in SUBSET S, NEW g, NEW h,
           Sums(f, SUBSET S, g), Sums(f, SUBSET T, h)
    PROVE  g[T] = h[T]
<1> DEFINE F == {s \in SUBSET T : g[s] = h[s]}
<1>1. \A s \in SUBSET T :
        /\ g[s] = IF s = {} THEN 0 ELSE f[First(s)] + g[s \ {First(s)}]
        /\ h[s] = IF s = {} THEN 0 ELSE f[First(s)] + h[s \ {First(s)}]
  BY DEF Sums
<1>2. \A s \in SUBSET T : s # {} => First(s) \in s
  BY DEF First
<1>3. \A s \in SUBSET T : (\A x \in s : s \ {x} \in F) => s \in F
  BY <1>1, <1>2
<1>4. IsFiniteSet(T)
  BY FS_Subset
<1>5. \A s \in SUBSET T : s \in F
  <2> HIDE DEF F
  <2> QED BY <1>3, <1>4, FiniteInduction
<1> QED BY <1>5

\* The equation of the fold.
LEMMA SumStep ==
    ASSUME NEW f, NEW S, IsFiniteSet(S)
    PROVE  SumFunctionOnSet(f, S) =
             IF S = {} THEN 0 ELSE f[First(S)] + SumFunctionOnSet(f, S \ {First(S)})
<1>1. ASSUME NEW T, IsFiniteSet(T)
      PROVE  \E g : Sums(f, SUBSET T, g) /\ SumFunctionOnSet(f, T) = g[T]
  <2> DEFINE iter == CHOOSE g : Sums(f, SUBSET T, g)
  <2>1. SumFunctionOnSet(f, T) = iter[T]
    BY DEF SumFunctionOnSet, FoldFunctionOnSet, MapThenFoldSet, First, Sums
  <2>2. Sums(f, SUBSET T, iter)
    BY <1>1, SumsExist
  <2> QED BY <2>1, <2>2
<1>2. PICK g : Sums(f, SUBSET S, g) /\ SumFunctionOnSet(f, S) = g[S]
  BY <1>1
<1>3. g[S] = IF S = {} THEN 0 ELSE f[First(S)] + g[S \ {First(S)}]
  BY <1>2 DEF Sums
<1> DEFINE T == S \ {First(S)}
<1>4. IsFiniteSet(T) /\ T \in SUBSET S
  BY FS_RemoveElement
<1> HIDE DEF T
<1>5. PICK h : Sums(f, SUBSET T, h) /\ SumFunctionOnSet(f, T) = h[T]
  BY <1>1, <1>4
<1>6. g[T] = h[T]
  BY <1>2, <1>4, <1>5, SumsAgree
<1> QED BY <1>2, <1>3, <1>5, <1>6 DEF T

\* A sum of integers is an integer.
LEMMA SumIsInt ==
    ASSUME NEW f, NEW S, IsFiniteSet(S), \A x \in S : f[x] \in Int
    PROVE  SumFunctionOnSet(f, S) \in Int
<1> DEFINE F == {T \in SUBSET S : SumFunctionOnSet(f, T) \in Int}
<1>1. ASSUME NEW T \in SUBSET S, \A x \in T : T \ {x} \in F
      PROVE  T \in F
  <2>1. IsFiniteSet(T) /\ (T # {} => First(T) \in T)
    BY FS_Subset DEF First
  <2>2. SumFunctionOnSet(f, T) =
          IF T = {} THEN 0 ELSE f[First(T)] + SumFunctionOnSet(f, T \ {First(T)})
    BY <2>1, SumStep
  <2>3. T # {} => f[First(T)] \in Int /\ SumFunctionOnSet(f, T \ {First(T)}) \in Int
    BY <1>1, <2>1
  <2> QED BY <2>2, <2>3
<1>2. \A T \in SUBSET S : T \in F
  <2> HIDE DEF F
  <2> QED BY <1>1, FiniteInduction
<1> QED BY <1>2

\* Any term can be taken out of a sum, not only the first.
LEMMA SumTakesOut ==
    ASSUME NEW f, NEW S, IsFiniteSet(S), \A x \in S : f[x] \in Int, NEW x \in S
    PROVE  SumFunctionOnSet(f, S) = f[x] + SumFunctionOnSet(f, S \ {x})
<1> DEFINE Total(T) == SumFunctionOnSet(f, T)
           TakesOut(T) == \A y \in T : Total(T) = f[y] + Total(T \ {y})
           F == {T \in SUBSET S : TakesOut(T)}
<1>1. \A T \in SUBSET S : IsFiniteSet(T) /\ Total(T) \in Int
  BY FS_Subset, SumIsInt
<1>2. ASSUME NEW T \in SUBSET S, \A y \in T : TakesOut(T \ {y}), NEW y \in T
      PROVE  Total(T) = f[y] + Total(T \ {y})
  <2> DEFINE c == First(T)
  <2>1. c \in T /\ Total(T) = f[c] + Total(T \ {c})
    BY <1>1, SumStep DEF First
  <2>2. CASE y # c
    <3>1. Total(T \ {c}) = f[y] + Total((T \ {c}) \ {y})
      BY <1>2, <2>1, <2>2
    <3>2. Total(T \ {y}) = f[c] + Total((T \ {y}) \ {c})
      BY <1>2, <2>1, <2>2
    <3>3. (T \ {c}) \ {y} = (T \ {y}) \ {c}
      OBVIOUS
    <3> DEFINE rest == Total((T \ {y}) \ {c})
    <3>4. rest \in Int /\ f[y] \in Int /\ f[c] \in Int
      <4> HIDE DEF Total
      <4> QED BY <1>1, <2>1
    <3>5. Total(T) = f[c] + (f[y] + rest) /\ Total(T \ {y}) = f[c] + rest
      BY <2>1, <3>1, <3>2, <3>3
    <3> HIDE DEF Total, c, rest
    <3> QED BY <3>4, <3>5
  <2> QED BY <2>1, <2>2
<1>3. \A T \in SUBSET S : (\A y \in T : T \ {y} \in F) => T \in F
  <2> HIDE DEF Total
  <2> QED BY <1>2
<1>4. \A T \in SUBSET S : T \in F
  <2> HIDE DEF F
  <2> QED BY <1>3, FiniteInduction
<1> QED BY <1>4

\* Sums of the same terms are the same.
LEMMA SumOfSame ==
    ASSUME NEW f, NEW g, NEW S, IsFiniteSet(S), \A x \in S : f[x] = g[x]
    PROVE  SumFunctionOnSet(f, S) = SumFunctionOnSet(g, S)
<1> DEFINE F == {T \in SUBSET S : SumFunctionOnSet(f, T) = SumFunctionOnSet(g, T)}
<1>1. ASSUME NEW T \in SUBSET S, \A x \in T : T \ {x} \in F
      PROVE  T \in F
  <2>1. IsFiniteSet(T) /\ (T # {} => First(T) \in T)
    BY FS_Subset DEF First
  <2>2. \A h \in {f, g} : SumFunctionOnSet(h, T) =
          IF T = {} THEN 0 ELSE h[First(T)] + SumFunctionOnSet(h, T \ {First(T)})
    BY <2>1, SumStep
  <2>3. T # {} => /\ f[First(T)] = g[First(T)]
                  /\ SumFunctionOnSet(f, T \ {First(T)}) = SumFunctionOnSet(g, T \ {First(T)})
    BY <1>1, <2>1
  <2> QED BY <2>2, <2>3
<1>2. \A T \in SUBSET S : T \in F
  <2> HIDE DEF F
  <2> QED BY <1>1, FiniteInduction
<1> QED BY <1>2

\* Terms that lie between a and b times their weights have a sum that lies
\* between a and b times the sum of the weights.
LEMMA SumIsBetween ==
    ASSUME NEW f, NEW w, NEW S, IsFiniteSet(S), NEW a \in Int, NEW b \in Int,
           \A x \in S : /\ f[x] \in Int /\ w[x] \in Int
                        /\ a * w[x] <= f[x] /\ f[x] <= b * w[x]
    PROVE  /\ a * SumFunctionOnSet(w, S) <= SumFunctionOnSet(f, S)
           /\ SumFunctionOnSet(f, S) <= b * SumFunctionOnSet(w, S)
<1> DEFINE Value(T) == SumFunctionOnSet(f, T)
           Weight(T) == SumFunctionOnSet(w, T)
           Between(T) == a * Weight(T) <= Value(T) /\ Value(T) <= b * Weight(T)
           F == {T \in SUBSET S : Between(T)}
<1>1. \A T \in SUBSET S : /\ IsFiniteSet(T) /\ Value(T) \in Int /\ Weight(T) \in Int
  BY FS_Subset, SumIsInt
<1>2. Value({}) = 0 /\ Weight({}) = 0
  BY SumStep, FS_EmptySet
<1>3. ASSUME NEW T \in SUBSET S, \A x \in T : Between(T \ {x})
      PROVE  Between(T)
  <2>1. CASE T = {}
    <3> HIDE DEF Value, Weight
    <3> QED BY <1>2, <2>1
  <2>2. CASE T # {}
    <3>1. PICK x \in T : TRUE
      BY <2>2
    <3>2. Value(T) = f[x] + Value(T \ {x}) /\ Weight(T) = w[x] + Weight(T \ {x})
      BY <1>1, SumTakesOut
    <3> DEFINE rest == T \ {x}
    <3>3. Value(rest) \in Int /\ Weight(rest) \in Int /\ Between(rest)
      BY <1>1, <1>3
    <3> HIDE DEF Value, Weight, rest
    <3>4. /\ a * (w[x] + Weight(rest)) = a * w[x] + a * Weight(rest)
          /\ b * (w[x] + Weight(rest)) = b * w[x] + b * Weight(rest)
      BY <3>3
    <3> QED BY <3>2, <3>3, <3>4 DEF rest
  <2> QED BY <2>1, <2>2
<1>4. \A T \in SUBSET S : (\A x \in T : T \ {x} \in F) => T \in F
  <2> HIDE DEF Between
  <2> QED BY <1>3
<1>5. \A T \in SUBSET S : T \in F
  <2> HIDE DEF F
  <2> QED BY <1>4, FiniteInduction
<1> QED BY <1>5

-----------------------------------------------------------------------------
(* What a step does to the map, and over what it sums. *)

Stores ==
    \E s \in Stations, r \in Readings :
        /\ reports' = Evict(Insert(reports, s, r))
        /\ DOMAIN mValueAggregate' = Aggregated(reports')
        /\ DOMAIN mHannAggregate' = Aggregated(reports')

Ages ==
    /\ reports' = [s \in DOMAIN reports |-> [reports[s] EXCEPT !.age = Older(@)]]
    /\ UNCHANGED <<mValueAggregate, mHannAggregate>>

Forgets == reports' = <<>> /\ mValueAggregate' = <<>> /\ mHannAggregate' = <<>>

TypedStep ==
    Stores \/ Ages \/ Forgets \/ UNCHANGED <<reports, mValueAggregate, mHannAggregate>>

LEMMA StepsAreTyped ==
    ASSUME [Next]_vars
    PROVE  TypedStep
BY DEF Next, Update, aggregateData, ValueSum, HannSum, BeginPush, EndPush, Tick, Die, vars,
       TypedStep, Stores, Ages, Forgets

-----------------------------------------------------------------------------
(* The types of the map and of the symbols that have sums.  The numbers and *)
(* the texts are typed below, where the sums and the text are known.        *)

MapTypeOK ==
    /\ DOMAIN reports \subseteq Stations
    /\ \A s \in DOMAIN reports :
          /\ DOMAIN reports[s] = {"mHannValue", "mWeatherValue", "age"}
          /\ reports[s].mHannValue \in 0 .. 4
          /\ reports[s].age \in 0 .. MaxAge + 1
          /\ DOMAIN reports[s].mWeatherValue \subseteq Decodable
    /\ DOMAIN mValueAggregate \subseteq Decodable
    /\ DOMAIN mHannAggregate = DOMAIN mValueAggregate

LEMMA EmptyIsTyped ==
    ASSUME reports = <<>>, mValueAggregate = <<>>, mHannAggregate = <<>>
    PROVE  MapTypeOK
BY DEF MapTypeOK

\* What is inserted and what is kept are reports, and both sums are over the
\* symbols that one of them has.
LEMMA StoredIsTyped ==
    ASSUME MapTypeOK, Stores
    PROVE  MapTypeOK'
<1> DEFINE IsReport(x) == /\ DOMAIN x = {"mHannValue", "mWeatherValue", "age"}
                          /\ x.mHannValue \in 0 .. 4
                          /\ x.age \in 0 .. MaxAge + 1
                          /\ DOMAIN x.mWeatherValue \subseteq Decodable
<1>1. PICK s \in Stations, r \in Readings : reports' = Evict(Insert(reports, s, r))
  BY DEF Stores
<1> DEFINE inserted == Insert(reports, s, r)
<1>2. IsReport(Report(r))
  BY AggregatorAssumption DEF Report, HannDistances, HannValue
<1>3. \A x \in DOMAIN reports : x \in Stations /\ IsReport(reports[x])
  BY DEF MapTypeOK
<1>4. \A x \in DOMAIN inserted : x \in Stations /\ IsReport(inserted[x])
  <2> HIDE DEF IsReport
  <2> QED
    BY <1>2, <1>3 DEF Insert
<1>5. /\ DOMAIN reports' \subseteq DOMAIN inserted
      /\ \A x \in DOMAIN reports' : reports'[x] = inserted[x]
  BY <1>1 DEF Evict, Restrict
<1>6. \A x \in DOMAIN reports' : x \in Stations /\ IsReport(reports'[x])
  <2> HIDE DEF IsReport, inserted
  <2> QED
    BY <1>4, <1>5
<1>7. Aggregated(reports') \subseteq Decodable
  BY <1>6 DEF Aggregated, Contributors
<1> QED
  BY <1>6, <1>7 DEF MapTypeOK, Stores

LEMMA StepIsTyped ==
    ASSUME MapTypeOK, TypedStep
    PROVE  MapTypeOK'
<1>1. CASE Stores
  BY <1>1, StoredIsTyped
<1>2. CASE Ages
  <2>1. \A n \in 0 .. MaxAge + 1 : Older(n) \in 0 .. MaxAge + 1
    BY AggregatorAssumption DEF Older
  <2> QED
    BY <1>2, <2>1 DEF Ages, MapTypeOK
<1>3. CASE Forgets
  BY <1>3 DEF Forgets, MapTypeOK
<1>4. CASE UNCHANGED <<reports, mValueAggregate, mHannAggregate>>
  BY <1>4 DEF MapTypeOK
<1> QED
  BY <1>1, <1>2, <1>3, <1>4 DEF TypedStep

LEMMA MapIsTyped == Spec => []MapTypeOK
<1>1. Init => MapTypeOK
  BY EmptyIsTyped DEF Init
<1>2. MapTypeOK /\ [Next]_vars => MapTypeOK'
  BY StepsAreTyped, StepIsTyped
<1> QED
  BY <1>1, <1>2, PTL DEF Spec

-----------------------------------------------------------------------------
(* The sums of the reports in the map. *)

IsReport(x) == /\ DOMAIN x = {"mHannValue", "mWeatherValue", "age"}
               /\ x.mHannValue \in Nat
               /\ \A sym \in DOMAIN x.mWeatherValue : x.mWeatherValue[sym] \in Int

\* A map of finitely many reports.
IsMap(m) == IsFiniteSet(DOMAIN m) /\ \A s \in DOMAIN m : IsReport(m[s])

\* The aggregates are the sums of the reports in the map: they are computed from
\* them when one is stored, and time changes only the ages.
SumsMatch ==
    /\ IsMap(reports)
    /\ mValueAggregate = ValueSum(reports)
    /\ mHannAggregate = HannSum(reports)

LEMMA NewReport == \A r \in Readings : IsReport(Report(r))
BY AggregatorAssumption DEF IsReport, Report, HannDistances, HannValue

\* Storing a report and erasing old ones leaves a map.
LEMMA StoringKeepsMap ==
    ASSUME NEW m, IsMap(m), NEW s, NEW r \in Readings
    PROVE  IsMap(Evict(Insert(m, s, r)))
<1> DEFINE all == Insert(m, s, r)
<1>1. DOMAIN all = DOMAIN m \cup {s} /\ IsFiniteSet(DOMAIN all)
  BY FS_AddElement DEF Insert, IsMap
<1>2. \A x \in DOMAIN all : IsReport(all[x])
  BY NewReport DEF Insert, IsMap
<1> HIDE DEF all
<1>3. DOMAIN Evict(all) \subseteq DOMAIN all /\ \A x \in DOMAIN Evict(all) : Evict(all)[x] = all[x]
  BY DEF Evict, Restrict
<1>4. IsFiniteSet(DOMAIN Evict(all))
  BY <1>1, <1>3, FS_Subset
<1> QED BY <1>2, <1>3, <1>4 DEF IsMap, all

\* The sums do not depend on the ages.
LEMMA AgesDoNotCount ==
    ASSUME NEW m, NEW n, DOMAIN n = DOMAIN m,
           \A s \in DOMAIN m : /\ n[s].mHannValue = m[s].mHannValue
                               /\ n[s].mWeatherValue = m[s].mWeatherValue
    PROVE  /\ Aggregated(n) = Aggregated(m)
           /\ ValueSum(n) = ValueSum(m) /\ HannSum(n) = HannSum(m)
<1>1. \A sym : Contributors(n, sym) = Contributors(m, sym)
  BY DEF Contributors
<1>2. Aggregated(n) = Aggregated(m) /\ \A sym : Terms(n, sym) = Terms(m, sym)
  BY <1>1 DEF Aggregated, Terms
<1>3. \A sym : \A t \in Terms(m, sym) : t[2] \in DOMAIN m
  BY DEF Terms, Contributors
<1>4. \A sym : [t \in Terms(n, sym) |-> n[t[2]].mHannValue]
               = [t \in Terms(m, sym) |-> m[t[2]].mHannValue]
  BY <1>2, <1>3
<1>5. \A sym : [t \in Terms(n, sym) |-> n[t[2]].mWeatherValue[sym] * n[t[2]].mHannValue]
               = [t \in Terms(m, sym) |-> m[t[2]].mWeatherValue[sym] * m[t[2]].mHannValue]
  BY <1>2, <1>3
<1> QED BY <1>2, <1>4, <1>5 DEF ValueSum, HannSum

LEMMA SumsMatchInductive ==
    /\ Init => SumsMatch
    /\ SumsMatch /\ [Next]_vars => SumsMatch'
<1>1. ASSUME reports = <<>>, mValueAggregate = <<>>, mHannAggregate = <<>>
      PROVE  SumsMatch
  <2>1. Aggregated(reports) = {}
    BY <1>1 DEF Aggregated, Contributors
  <2>2. ValueSum(reports) = <<>> /\ HannSum(reports) = <<>>
    BY <2>1 DEF ValueSum, HannSum
  <2> QED BY <1>1, <2>2, FS_EmptySet DEF SumsMatch, IsMap
<1>2. ASSUME SumsMatch, NEW s \in Stations, NEW r \in Readings, Update(s, r)
      PROVE  SumsMatch'
  BY <1>2, StoringKeepsMap DEF Update, aggregateData, SumsMatch
<1>3. ASSUME SumsMatch, Tick
      PROVE  SumsMatch'
  <2>1. /\ DOMAIN reports' = DOMAIN reports
        /\ \A s \in DOMAIN reports :
             /\ reports'[s].mHannValue = reports[s].mHannValue
             /\ reports'[s].mWeatherValue = reports[s].mWeatherValue
    BY <1>3 DEF Tick, SumsMatch, IsMap, IsReport
  <2> QED BY <1>3, <2>1, AgesDoNotCount DEF Tick, SumsMatch, IsMap, IsReport
<1>4. ASSUME SumsMatch, UNCHANGED <<reports, mValueAggregate, mHannAggregate>>
      PROVE  SumsMatch'
  BY <1>4 DEF SumsMatch
<1>5. ASSUME Die
      PROVE  SumsMatch'
  <2>1. Aggregated(reports') = {}
    BY <1>5 DEF Die, Aggregated, Contributors
  <2>2. ValueSum(reports') = <<>> /\ HannSum(reports') = <<>>
    BY <2>1 DEF ValueSum, HannSum
  <2> QED BY <1>5, <2>2, FS_EmptySet DEF Die, SumsMatch, IsMap
<1> QED BY <1>1, <1>2, <1>3, <1>4, <1>5 DEF Init, Next, BeginPush, EndPush, vars

LEMMA SumsAlwaysMatch == Spec => []SumsMatch
BY SumsMatchInductive, PTL DEF Spec

\* A finite set of integers that is not empty has a Min and a Max.
LEMMA Extremes ==
    ASSUME NEW V, IsFiniteSet(V), V # {}, V \subseteq Int
    PROVE  /\ Min(V) \in V /\ \A y \in V : Min(V) <= y
           /\ Max(V) \in V /\ \A y \in V : y <= Max(V)
<1> DEFINE HasBoth(T) == T # {} => /\ \E x \in T : \A y \in T : x <= y
                                /\ \E x \in T : \A y \in T : y <= x
           F == {T \in SUBSET V : HasBoth(T)}
<1>1. ASSUME NEW T \in SUBSET V, \A x \in T : HasBoth(T \ {x}), T # {}
      PROVE  /\ \E x \in T : \A y \in T : x <= y
             /\ \E x \in T : \A y \in T : y <= x
  <2>1. PICK z \in T : TRUE
    BY <1>1
  <2>2. CASE T = {z}
    BY <2>2
  <2>3. CASE T # {z}
    <3>1. PICK low \in T \ {z}, high \in T \ {z} :
            \A y \in T \ {z} : low <= y /\ y <= high
      BY <1>1, <2>1, <2>3
    <3>2. z \in Int /\ low \in Int /\ high \in Int /\ T \subseteq Int
      BY <2>1, <3>1
    <3>3. \E x \in T : \A y \in T : x <= y
      <4>1. CASE z <= low
        BY <2>1, <3>1, <3>2, <4>1
      <4>2. CASE low <= z
        BY <3>1, <3>2, <4>2
      <4> QED BY <3>2, <4>1, <4>2
    <3>4. \E x \in T : \A y \in T : y <= x
      <4>1. CASE high <= z
        BY <2>1, <3>1, <3>2, <4>1
      <4>2. CASE z <= high
        BY <3>1, <3>2, <4>2
      <4> QED BY <3>2, <4>1, <4>2
    <3> QED BY <3>3, <3>4
  <2> QED BY <2>2, <2>3
<1>2. \A T \in SUBSET V : (\A x \in T : T \ {x} \in F) => T \in F
  BY <1>1
<1>3. \A T \in SUBSET V : T \in F
  <2> HIDE DEF F
  <2> QED BY <1>2, FiniteInduction
<1> QED BY <1>3 DEF Min, Max

LEMMA TermsAreFinite ==
    ASSUME NEW m, IsMap(m), NEW sym
    PROVE  /\ IsFiniteSet(Contributors(m, sym)) /\ IsFiniteSet(Terms(m, sym))
           /\ \A t \in Terms(m, sym) : t[2] \in Contributors(m, sym)
<1> DEFINE rows == {i \in DOMAIN WeatherItemList : WeatherItemList[i].wxSym = sym}
<1>1. IsFiniteSet(Contributors(m, sym))
  BY FS_Subset DEF Contributors, IsMap
<1>2. rows \subseteq 1 .. 13
  BY DEF WeatherItemList
<1>3. IsFiniteSet(rows)
  <2>1. IsFiniteSet(1 .. 13)
    BY FS_Interval, 1 \in Int, 13 \in Int
  <2> HIDE DEF rows
  <2> QED BY <1>2, <2>1, FS_Subset
<1> HIDE DEF rows
<1>4. IsFiniteSet(rows \X Contributors(m, sym))
  BY <1>1, <1>3, FS_Product
<1> QED BY <1>1, <1>4 DEF Terms, rows

\* The two sums of a symbol are over the same reports.
LEMMA SumsAreBounded ==
    ASSUME NEW m, IsMap(m), NEW sym \in Aggregated(m)
    PROVE  LET values == {m[s].mWeatherValue[sym] : s \in Contributors(m, sym)}
           IN  /\ Min(values) * HannSum(m)[sym] <= ValueSum(m)[sym]
               /\ ValueSum(m)[sym] <= Max(values) * HannSum(m)[sym]
<1> DEFINE C == Contributors(m, sym)
           values == {m[s].mWeatherValue[sym] : s \in C}
           f == [t \in Terms(m, sym) |-> m[t[2]].mWeatherValue[sym] * m[t[2]].mHannValue]
           w == [t \in Terms(m, sym) |-> m[t[2]].mHannValue]
<1>1. \A s \in C : m[s].mWeatherValue[sym] \in Int /\ m[s].mHannValue \in Nat
  BY DEF Contributors, IsMap, IsReport
<1>2. /\ Min(values) \in Int /\ \A y \in values : Min(values) <= y
      /\ Max(values) \in Int /\ \A y \in values : y <= Max(values)
  <2>1. IsFiniteSet(values)
    <3>1. [s \in C |-> m[s].mWeatherValue[sym]] \in Surjection(C, values)
      BY DEF Surjection
    <3> QED BY <3>1, TermsAreFinite, FS_Surjection
  <2>2. values # {} /\ values \subseteq Int
    BY <1>1 DEF Aggregated
  <2> HIDE DEF values
  <2> QED BY <2>1, <2>2, Extremes
<1>3. \A t \in Terms(m, sym) :
        /\ f[t] \in Int /\ w[t] \in Int
        /\ Min(values) * w[t] <= f[t] /\ f[t] <= Max(values) * w[t]
  <2>1. SUFFICES ASSUME NEW t \in Terms(m, sym)
        PROVE  /\ f[t] \in Int /\ w[t] \in Int
               /\ Min(values) * w[t] <= f[t] /\ f[t] <= Max(values) * w[t]
    OBVIOUS
  <2> DEFINE v == m[t[2]].mWeatherValue[sym]
             n == m[t[2]].mHannValue
  <2>2. f[t] = v * n /\ w[t] = n
    OBVIOUS
  <2>3. v \in values /\ v \in Int /\ n \in Nat
    BY <1>1, TermsAreFinite
  <2>4. Min(values) <= v /\ v <= Max(values)
    BY <1>2, <2>3
  <2> HIDE DEF v, n, f, w, values
  <2>5. Min(values) * n <= v * n /\ v * n <= Max(values) * n
    BY <1>2, <2>3, <2>4
  <2> QED BY <2>2, <2>3, <2>5
<1>4. ValueSum(m)[sym] = SumFunctionOnSet(f, Terms(m, sym))
  BY DEF ValueSum, SumFunction
<1>5. HannSum(m)[sym] = SumFunctionOnSet(w, Terms(m, sym))
  BY DEF HannSum, SumFunction
<1> HIDE DEF f, w, values
<1>6. IsFiniteSet(Terms(m, sym))
  BY TermsAreFinite
<1>7. /\ Min(values) * SumFunctionOnSet(w, Terms(m, sym)) <= SumFunctionOnSet(f, Terms(m, sym))
      /\ SumFunctionOnSet(f, Terms(m, sym)) <= Max(values) * SumFunctionOnSet(w, Terms(m, sym))
  BY <1>2, <1>3, <1>6, SumIsBetween
<1> QED BY <1>4, <1>5, <1>7 DEF values

\* Every mean lies between the smallest and the largest value in the map.
THEOREM MeansAreWithinReports == Spec => []MeanWithinReports
<1>1. SumsMatch => MeanWithinReports
  BY SumsAreBounded DEF SumsMatch, MeanWithinReports, ValueSum
<1> QED BY <1>1, SumsAlwaysMatch, PTL

-----------------------------------------------------------------------------
(* The text of a push. *)

IsRational(q) == q \in Int \X Nat

\* The greatest common divisor is a divisor.
LEMMA GcdDivides ==
    ASSUME NEW n \in Int, NEW d \in Nat \ {0}
    PROVE  LET D == {k \in 1 .. d : n % k = 0 /\ d % k = 0}
           IN  /\ Max(D) \in 1 .. d
               /\ n % Max(D) = 0 /\ d % Max(D) = 0
               /\ \A k \in D : k <= Max(D)
<1> DEFINE D == {k \in 1 .. d : n % k = 0 /\ d % k = 0}
<1>1. 1 \in D
  OBVIOUS
<1>2. D \subseteq Int /\ D \subseteq 1 .. d
  OBVIOUS
<1>3. IsFiniteSet(1 .. d)
  BY FS_Interval, 1 \in Int
<1>4. IsFiniteSet(D)
  <2> HIDE DEF D
  <2> QED BY <1>2, <1>3, FS_Subset
<1>5. Max(D) \in D /\ \A k \in D : k <= Max(D)
  <2> HIDE DEF D
  <2> QED BY <1>1, <1>2, <1>4, Extremes
<1> QED BY <1>5

LEMMA RatioIsRational ==
    ASSUME NEW n \in Int, NEW d \in Nat
    PROVE  IsRational(Ratio(n, d))
<1>1. CASE d = 0
  BY <1>1 DEF Ratio, IsRational
<1>2. CASE d # 0
  <2> DEFINE g == Max({k \in 1 .. d : n % k = 0 /\ d % k = 0})
  <2>1. g \in 1 .. d
    BY <1>2, GcdDivides
  <2>2. Ratio(n, d) = <<n \div g, d \div g>>
    BY <1>2 DEF Ratio
  <2> HIDE DEF g
  <2>3. n \div g \in Int /\ d \div g \in Nat
    BY <2>1
  <2> QED BY <2>2, <2>3 DEF IsRational
<1> QED BY <1>1, <1>2

\* The rows that the dew point is computed and printed with.
LEMMA PrintedRows ==
    /\ WeatherItemList[4] \in Printed /\ WeatherItemList[5] \in Printed
    /\ \A it \in Printed :
        /\ (it.wxSym = "Temperature" \/ it.dbName = "Temp") => it = WeatherItemList[4]
        /\ (it.wxSym = "Humidity" \/ it.dbName = "RelHum") => it = WeatherItemList[5]
    /\ WeatherItemList[4] = Item("Temperature", "t", 3, "Temp", "Fahrenheit", 1)
    /\ WeatherItemList[5] = Item("Humidity", "h", 2, "RelHum", "Percent", 1)
BY DEF Printed, WeatherItemList, Item

LEMMA MetricOfDewPoint ==
    ASSUME NEW m, m["Temperature"][2] \in Nat, m["Humidity"][2] \in Nat
    PROVE  /\ Metric(m, "Temperature") = FahrenheitToCelsius(<<m["Temperature"][1], m["Temperature"][2]>>)
           /\ Metric(m, "Humidity") = <<m["Humidity"][1], m["Humidity"][2]>>
<1>1. /\ (CHOOSE it \in Printed : it.wxSym = "Temperature") = WeatherItemList[4]
      /\ (CHOOSE it \in Printed : it.wxSym = "Humidity") = WeatherItemList[5]
  BY PrintedRows DEF Item
<1>2. /\ Metric(m, "Temperature") =
           Convert("Fahrenheit", <<m["Temperature"][1], m["Temperature"][2] * 1>>)
      /\ Metric(m, "Humidity") =
           Convert("Percent", <<m["Humidity"][1], m["Humidity"][2] * 1>>)
  BY <1>1, PrintedRows DEF Metric, Item
<1> QED BY <1>2 DEF Convert

\* A push with a dew point has one computed from the values it writes beside it.
LEMMA PushedDewPoint ==
    ASSUME NEW m, DOMAIN m \subseteq Decodable, Has(PostField(m), {"DewPt", "Temp", "RelHum"})
    PROVE  /\ Has(m, {"Temperature", "Humidity"})
           /\ PostField(m)["Temp"] = Metric(m, "Temperature")
           /\ PostField(m)["RelHum"] = Metric(m, "Humidity")
           /\ PostField(m)["DewPt"] = DewPoint(Metric(m, "Temperature"), Metric(m, "Humidity"))
<1> DEFINE items == {it \in Printed : it.wxSym \in DOMAIN m}
           lines == [name \in {it.dbName : it \in items} |->
                          Metric(m, (CHOOSE it \in items : it.dbName = name).wxSym)]
           temperature == Metric(m, "Temperature")
           relHumidity == Metric(m, "Humidity")
           dewPoint == DewPoint(temperature, relHumidity)
           fromAir == IF Has(m, {"Temperature", "Humidity"})
                        THEN [DewPt |-> dewPoint, Humidex |-> <<temperature, dewPoint>>]
                        ELSE <<>>
           fromWind == IF Has(m, {"Temperature", "WindGust"})
                         THEN [WindChill |-> <<temperature, Metric(m, "WindGust")>>]
                         ELSE <<>>
<1>1. DOMAIN fromAir \subseteq {"DewPt", "Humidex"} /\ DOMAIN fromWind \subseteq {"WindChill"}
  OBVIOUS
<1>2. /\ DOMAIN PostField(m) = DOMAIN fromAir \cup DOMAIN fromWind \cup DOMAIN lines
      /\ \A name \in DOMAIN fromAir : PostField(m)[name] = fromAir[name]
      /\ \A name \in DOMAIN lines \ (DOMAIN fromAir \cup DOMAIN fromWind) :
           PostField(m)[name] = lines[name]
  <2>1. PostField(m) =
          [name \in DOMAIN fromAir \cup DOMAIN fromWind \cup DOMAIN lines |->
             CASE name \in DOMAIN fromAir  -> fromAir[name]
               [] name \in DOMAIN fromWind -> fromWind[name]
               [] OTHER                    -> lines[name]]
    BY DEF PostField
  <2> HIDE DEF fromAir, fromWind, lines
  <2> QED BY <1>1, <2>1
<1>3. {"Temp", "RelHum"} \subseteq DOMAIN lines
  <2> HIDE DEF lines
  <2> QED BY <1>1, <1>2 DEF Has
<1>4. WeatherItemList[4] \in items /\ WeatherItemList[5] \in items
  BY <1>3, PrintedRows
<1>5. Has(m, {"Temperature", "Humidity"})
  BY <1>4, PrintedRows DEF Has, Item
<1>6. /\ (CHOOSE it \in items : it.dbName = "Temp") = WeatherItemList[4]
      /\ (CHOOSE it \in items : it.dbName = "RelHum") = WeatherItemList[5]
  BY <1>4, PrintedRows DEF Item
<1>7. lines["Temp"] = temperature /\ lines["RelHum"] = relHumidity
  BY <1>3, <1>6, PrintedRows DEF Item
<1>8. /\ PostField(m)["Temp"] = lines["Temp"] /\ PostField(m)["RelHum"] = lines["RelHum"]
  <2> HIDE DEF fromAir, fromWind, lines
  <2> QED BY <1>1, <1>2, <1>3
<1>9. "DewPt" \in DOMAIN fromAir /\ fromAir["DewPt"] = dewPoint
  BY <1>5
<1>10. PostField(m)["DewPt"] = fromAir["DewPt"]
  <2> HIDE DEF fromAir, fromWind, lines
  <2> QED BY <1>2, <1>9
<1> QED BY <1>5, <1>7, <1>8, <1>9, <1>10

\* DewPoint: below celsius, as long as the humidity is at most 100%.
LEMMA DewPointIsBelow ==
    ASSUME NEW c1 \in Int, NEW c2 \in Nat, NEW r1 \in Int, NEW r2 \in Nat, r1 <= 100 * r2
    PROVE  LET dp == DewPoint(<<c1, c2>>, <<r1, r2>>)
           IN  dp[1] * c2 <= c1 * dp[2]
<1> DEFINE over == 100 * r2 - r1
           sq == c2 * c2
<1>1. over \in Nat /\ sq \in Nat
  OBVIOUS
<1>2. (5 * c1 * r2 + r1 * c2 - 100 * c2 * r2) * c2 = c1 * (5 * c2 * r2) - sq * over
  OBVIOUS
<1>3. sq * over \in Nat /\ c1 * (5 * c2 * r2) \in Int
  BY <1>1
<1> HIDE DEF sq, over
<1> QED BY <1>2, <1>3 DEF DewPoint

\* A sum of natural numbers is one.
LEMMA SumIsNat ==
    ASSUME NEW w, NEW S, IsFiniteSet(S), \A x \in S : w[x] \in Nat
    PROVE  SumFunctionOnSet(w, S) \in Nat
<1>1. \A x \in S : w[x] \in Int /\ 0 * w[x] <= w[x] /\ w[x] <= 1 * w[x]
  OBVIOUS
<1>2. 0 * SumFunctionOnSet(w, S) <= SumFunctionOnSet(w, S)
  BY <1>1, SumIsBetween, 0 \in Int, 1 \in Int
<1>3. SumFunctionOnSet(w, S) \in Int
  BY <1>1, SumIsInt
<1> QED BY <1>2, <1>3

LEMMA SumsAreTyped ==
    ASSUME NEW m, IsMap(m), NEW sym \in Aggregated(m)
    PROVE  ValueSum(m)[sym] \in Int /\ HannSum(m)[sym] \in Nat
<1> DEFINE f == [t \in Terms(m, sym) |-> m[t[2]].mWeatherValue[sym] * m[t[2]].mHannValue]
           w == [t \in Terms(m, sym) |-> m[t[2]].mHannValue]
<1>1. IsFiniteSet(Terms(m, sym))
  BY TermsAreFinite
<1>2. \A t \in Terms(m, sym) : f[t] \in Int /\ w[t] \in Nat
  <2>1. \A s \in Contributors(m, sym) :
          m[s].mWeatherValue[sym] \in Int /\ m[s].mHannValue \in Nat
    BY DEF Contributors, IsMap, IsReport
  <2> QED BY <2>1, TermsAreFinite
<1>3. ValueSum(m)[sym] = SumFunctionOnSet(f, Terms(m, sym))
  BY DEF ValueSum, SumFunction
<1>4. HannSum(m)[sym] = SumFunctionOnSet(w, Terms(m, sym))
  BY DEF HannSum, SumFunction
<1> HIDE DEF f, w
<1>5. SumFunctionOnSet(f, Terms(m, sym)) \in Int
  BY <1>1, <1>2, SumIsInt
<1>6. SumFunctionOnSet(w, Terms(m, sym)) \in Nat
  BY <1>1, <1>2, SumIsNat
<1> QED BY <1>3, <1>4, <1>5, <1>6

IsMeans(m) == DOMAIN m \subseteq Decodable /\ \A sym \in DOMAIN m : IsRational(m[sym])

LEMMA MeansAreMeans ==
    ASSUME SumsMatch, MapTypeOK
    PROVE  IsMeans(Means)
<1>1. \A sym \in DOMAIN mValueAggregate :
        mValueAggregate[sym] \in Int /\ mHannAggregate[sym] \in Nat
  BY SumsAreTyped DEF SumsMatch, ValueSum
<1>2. \A sym \in DOMAIN mValueAggregate :
        IsRational(Ratio(mValueAggregate[sym], mHannAggregate[sym]))
  BY <1>1, RatioIsRational
<1> QED BY <1>2 DEF IsMeans, Means, MapTypeOK

\* What is being sent is the text of some means.
SendsMeans == request = <<>> \/ \E m : IsMeans(m) /\ request = PostField(m)

LEMMA SentIsMeans == Spec => []SendsMeans
<1>1. Init => SendsMeans
  BY DEF Init, SendsMeans
<1>2. SendsMeans /\ SumsMatch /\ MapTypeOK /\ [Next]_vars => SendsMeans'
  <2>1. ASSUME SumsMatch, MapTypeOK, BeginPush
        PROVE  SendsMeans'
    BY <2>1, MeansAreMeans DEF BeginPush, SendsMeans
  <2> QED BY <2>1 DEF SendsMeans, Next, Update, EndPush, Tick, Die, vars
<1> QED BY <1>1, <1>2, SumsAlwaysMatch, MapIsTyped, PTL DEF Spec

\* A value in metric units is a number.
LEMMA MetricIsNumber ==
    ASSUME NEW m, NEW sym \in Decodable, IsRational(m[sym])
    PROVE  IsNumber(Metric(m, sym))
<1> DEFINE item == CHOOSE it \in Printed : it.wxSym = sym
           q == <<m[sym][1], m[sym][2] * item.factor>>
<1>1. \E it \in Printed : it.wxSym = sym
  BY DEF Printed, WeatherItemList, Item, Decodable, WxSym
<1>2. item \in Printed
  BY <1>1
<1>3. item.factor \in Nat
  <2>1. DOMAIN WeatherItemList = 1 .. 13
    BY DEF WeatherItemList
  <2>2. PICK i \in 1 .. 13 : item = WeatherItemList[i]
    BY <1>2, <2>1 DEF Printed
  <2> HIDE DEF item
  <2> QED BY <2>2 DEF WeatherItemList, Item
<1> HIDE DEF item
<1>4. q[1] \in Int /\ q[2] \in Nat /\ q \in Int \X Nat
  BY <1>3 DEF IsRational
<1>5. Metric(m, sym) = Convert(item.units, q)
  BY DEF Metric, item
<1> HIDE DEF q
<1>6. IsNumber(FahrenheitToCelsius(q)) /\ IsNumber(DropTrace(q))
  BY <1>4 DEF FahrenheitToCelsius, DropTrace, IsNumber
<1>7. /\ IsNumber(<<DropTrace(q)[1] * 254, DropTrace(q)[2] * 10>>)
      /\ IsNumber(<<q[1] * 160934, q[2] * 100000>>)
  BY <1>4, <1>6, SMT DEF IsNumber
<1> QED BY <1>4, <1>5, <1>6, <1>7 DEF Convert, IsNumber

\* The text of means is a text of numbers.
LEMMA PostedIsText ==
    ASSUME NEW m, IsMeans(m)
    PROVE  IsText(PostField(m))
<1> DEFINE items == {it \in Printed : it.wxSym \in DOMAIN m}
           lines == [name \in {it.dbName : it \in items} |->
                          Metric(m, (CHOOSE it \in items : it.dbName = name).wxSym)]
           temperature == Metric(m, "Temperature")
           relHumidity == Metric(m, "Humidity")
           windGust == Metric(m, "WindGust")
           dewPoint == DewPoint(temperature, relHumidity)
           air == [DewPt |-> dewPoint, Humidex |-> <<temperature, dewPoint>>]
           wind == [WindChill |-> <<temperature, windGust>>]
           fromAir == IF Has(m, {"Temperature", "Humidity"}) THEN air ELSE <<>>
           fromWind == IF Has(m, {"Temperature", "WindGust"}) THEN wind ELSE <<>>
<1>1. /\ DOMAIN fromAir \subseteq {"DewPt", "Humidex"} /\ DOMAIN fromWind \subseteq {"WindChill"}
      /\ DOMAIN fromAir # {} => Has(m, {"Temperature", "Humidity"}) /\ fromAir = air
      /\ DOMAIN fromWind # {} => Has(m, {"Temperature", "WindGust"}) /\ fromWind = wind
  OBVIOUS
<1>2. /\ DOMAIN PostField(m) = DOMAIN fromAir \cup DOMAIN fromWind \cup DOMAIN lines
      /\ \A name \in DOMAIN fromAir : PostField(m)[name] = fromAir[name]
      /\ \A name \in DOMAIN fromWind : PostField(m)[name] = fromWind[name]
      /\ \A name \in DOMAIN lines \ (DOMAIN fromAir \cup DOMAIN fromWind) :
           PostField(m)[name] = lines[name]
  <2>1. PostField(m) =
          [name \in DOMAIN fromAir \cup DOMAIN fromWind \cup DOMAIN lines |->
             CASE name \in DOMAIN fromAir  -> fromAir[name]
               [] name \in DOMAIN fromWind -> fromWind[name]
               [] OTHER                    -> lines[name]]
    BY DEF PostField
  <2> HIDE DEF fromAir, fromWind, lines
  <2> QED BY <1>1, <2>1
<1>3. ASSUME NEW name \in DOMAIN lines
      PROVE  /\ name \in {it.dbName : it \in Printed} \ {"Humidex", "DewPt", "WindChill"}
             /\ IsNumber(lines[name])
  <2> DEFINE it == CHOOSE x \in items : x.dbName = name
  <2>1. it \in Printed /\ it.wxSym \in DOMAIN m /\ it.dbName = name
    BY <1>3
  <2> HIDE DEF it
  <2>2. it.wxSym \in Decodable /\ IsRational(m[it.wxSym])
    BY <2>1 DEF IsMeans
  <2>3. name \notin {"Humidex", "DewPt", "WindChill"}
    BY <2>1, <2>2 DEF Printed, WeatherItemList, Item, Decodable
  <2>4. lines[name] = Metric(m, it.wxSym)
    BY <1>3 DEF it
  <2> QED BY <2>1, <2>2, <2>3, <2>4, MetricIsNumber
<1>4. ASSUME NEW name \in DOMAIN fromAir
      PROVE  IF name = "Humidex" THEN /\ IsNumber(fromAir[name][1])
                                      /\ IsNumber(fromAir[name][2])
             ELSE name = "DewPt" /\ IsNumber(fromAir[name])
  <2>1. fromAir = air /\ Has(m, {"Temperature", "Humidity"})
    BY <1>1, <1>4
  <2>2. IsNumber(temperature) /\ IsNumber(relHumidity)
    BY <2>1, MetricIsNumber DEF Has, IsMeans
  <2> HIDE DEF temperature, relHumidity
  <2>3. IsNumber(dewPoint)
    BY <2>2 DEF IsNumber, DewPoint
  <2> HIDE DEF dewPoint, fromAir
  <2>4. name \in {"DewPt", "Humidex"}
    BY <1>1, <1>4
  <2> QED BY <2>1, <2>2, <2>3, <2>4
<1>5. ASSUME NEW name \in DOMAIN fromWind
      PROVE  /\ name = "WindChill"
             /\ IsNumber(fromWind[name][1]) /\ IsNumber(fromWind[name][2])
  <2>1. fromWind = wind /\ Has(m, {"Temperature", "WindGust"})
    BY <1>1, <1>5
  <2>2. IsNumber(temperature) /\ IsNumber(windGust)
    BY <2>1, MetricIsNumber DEF Has, IsMeans
  <2> HIDE DEF temperature, windGust, fromWind
  <2> QED BY <1>1, <1>5, <2>1, <2>2
<1>6. {"DewPt", "Humidex"} \subseteq {it.dbName : it \in Printed}
  <2>1. WeatherItemList[11] \in Printed /\ WeatherItemList[12] \in Printed
    BY DEF Printed, WeatherItemList, Item, Terminator
  <2>2. WeatherItemList[11].dbName = "DewPt" /\ WeatherItemList[12].dbName = "Humidex"
    BY DEF WeatherItemList, Item
  <2> QED BY <2>1, <2>2
<1> HIDE DEF fromAir, fromWind, lines
<1>7. DOMAIN PostField(m) \subseteq {it.dbName : it \in Printed} \cup {"WindChill"}
  BY <1>1, <1>2, <1>3, <1>6
<1>8. ASSUME NEW name \in DOMAIN PostField(m)
      PROVE  IF name \in {"Humidex", "WindChill"}
               THEN IsNumber(PostField(m)[name][1]) /\ IsNumber(PostField(m)[name][2])
               ELSE IsNumber(PostField(m)[name])
  <2>1. CASE name \in DOMAIN fromAir
    BY <1>2, <1>4, <2>1
  <2>2. CASE name \in DOMAIN fromWind
    BY <1>2, <1>5, <2>2
  <2>3. CASE name \in DOMAIN lines \ (DOMAIN fromAir \cup DOMAIN fromWind)
    BY <1>2, <1>3, <2>3
  <2> QED BY <1>2, <1>8, <2>1, <2>2, <2>3
<1> QED BY <1>7, <1>8 DEF IsText

LEMMA EmptyIsText == IsText(<<>>)
BY DEF IsText

\* The type invariant of the aggregator: the sums are integers and the weights are
\* not negative, only symbols of decoded fields have them, and what is sent and
\* stored are texts of numbers, whatever stations and readings there are.
THEOREM AggregatorIsTyped == Spec => []AggregatorTypeOK
<1>1. Init => IsText(influx)
  BY EmptyIsText DEF Init
<1>2. SendsMeans => IsText(request)
  BY EmptyIsText, PostedIsText DEF SendsMeans
<1>3. IsText(request) /\ IsText(influx) /\ [Next]_vars => IsText(influx)'
  <2>1. ASSUME [Next]_vars
        PROVE  influx' = influx \/ influx' = request
    BY <2>1 DEF Next, Update, aggregateData, BeginPush, EndPush, Tick, Die, vars
  <2> QED BY <2>1 DEF IsText
<1>4. MapTypeOK /\ SumsMatch /\ IsText(request) /\ IsText(influx) => AggregatorTypeOK
  <2>1. ASSUME MapTypeOK, SumsMatch
        PROVE  /\ \A s \in DOMAIN reports : \A sym \in DOMAIN reports[s].mWeatherValue :
                    reports[s].mWeatherValue[sym] \in Int
               /\ \A sym \in DOMAIN mValueAggregate : /\ mValueAggregate[sym] \in Int
                                                      /\ mHannAggregate[sym] \in Nat
    BY <2>1, SumsAreTyped DEF SumsMatch, IsMap, IsReport, ValueSum
  <2> QED BY <2>1 DEF MapTypeOK, AggregatorTypeOK
<1> QED
  BY <1>1, <1>2, <1>3, <1>4, SentIsMeans, SumsAlwaysMatch, MapIsTyped, PTL DEF Spec

\* No push says that the dew point is above the temperature, unless it says that
\* the humidity is above 100%.
THEOREM DewPointIsNeverAbove == Spec => []DewPointBelowTemperature
<1>1. SendsMeans => DewPointBelowTemperature
  <2>1. SUFFICES ASSUME NEW m, IsMeans(m), request = PostField(m),
                        Has(request, {"DewPt", "Temp", "RelHum"}),
                        request["RelHum"][1] <= 100 * request["RelHum"][2]
                 PROVE  request["DewPt"][1] * request["Temp"][2]
                          <= request["Temp"][1] * request["DewPt"][2]
    BY DEF SendsMeans, DewPointBelowTemperature, Has
  <2> DEFINE t == m["Temperature"]
             h == m["Humidity"]
             c1 == (t[1] - 32 * t[2]) * 5
             c2 == t[2] * 9
  <2>2. IsRational(t) /\ IsRational(h)
    BY <2>1, PushedDewPoint DEF IsMeans, Has
  <2>3. /\ request["Temp"] = <<c1, c2>> /\ request["RelHum"] = <<h[1], h[2]>>
        /\ request["DewPt"] = DewPoint(<<c1, c2>>, <<h[1], h[2]>>)
    BY <2>1, <2>2, PushedDewPoint, MetricOfDewPoint DEF IsMeans, IsRational, FahrenheitToCelsius
  <2>4. c1 \in Int /\ c2 \in Nat /\ h[1] \in Int /\ h[2] \in Nat
    BY <2>2 DEF IsRational
  <2>5. h[1] <= 100 * h[2]
    BY <2>1, <2>3
  <2> HIDE DEF t, h, c1, c2
  <2>6. DewPoint(<<c1, c2>>, <<h[1], h[2]>>)[1] * c2
          <= c1 * DewPoint(<<c1, c2>>, <<h[1], h[2]>>)[2]
    BY <2>4, <2>5, DewPointIsBelow
  <2> QED BY <2>3, <2>6
<1> QED BY <1>1, SentIsMeans, PTL

-----------------------------------------------------------------------------
(* The refinement of WeatherFeed. *)

\* The operators that both modules take from InfluxLine are the same.
LEMMA SameOperators ==
    /\ \A d : Feed!HannValue(d) = HannValue(d)
    /\ \A n, d : Feed!Ratio(n, d) = Ratio(n, d)
    /\ \A f : Feed!SumFunction(f) = SumFunction(f)
    /\ Feed!WxSym = WxSym
<1>1. \A d : Feed!HannValue(d) = HannValue(d)
  BY DEF HannValue, Feed!HannValue
<1>2. \A n, d : Feed!Ratio(n, d) = Ratio(n, d)
  BY DEF Ratio, Feed!Ratio, Max, Feed!Max
<1>3. \A f : Feed!SumFunction(f) = SumFunction(f)
  BY DEF SumFunction, SumFunctionOnSet, FoldFunctionOnSet, MapThenFoldSet,
         Feed!SumFunction, Feed!SumFunctionOnSet, Feed!FoldFunctionOnSet, Feed!MapThenFoldSet
<1>4. Feed!WxSym = WxSym
  BY DEF WxSym, Feed!WxSym
<1> QED BY <1>1, <1>2, <1>3, <1>4

LEMMA SamePostField == \A m : Feed!PostField(m) = PostField(m)
<1>1. Feed!Printed = Printed
  BY DEF Printed, WeatherItemList, Item, Terminator, Feed!Printed, Feed!WeatherItemList, Feed!Item, Feed!Terminator
<1>2. \A m, s : Feed!Metric(m, s) = Metric(m, s)
  BY <1>1 DEF Metric, Convert, FahrenheitToCelsius, DropTrace,
    Feed!Metric, Feed!Convert, Feed!FahrenheitToCelsius, Feed!DropTrace
<1>3. \A t, h : Feed!DewPoint(t, h) = DewPoint(t, h)
  BY DEF DewPoint, Feed!DewPoint
<1>4. \A m, h : Feed!Has(m, h) = Has(m, h)
  BY DEF Has, Feed!Has
<1> QED BY <1>1, <1>2, <1>3, <1>4 DEF PostField, Feed!PostField

LEMMA RowsOfSymbol ==
    ASSUME NEW sym \in WxSym
    PROVE  LET rows == {i \in DOMAIN WeatherItemList : WeatherItemList[i].wxSym = sym}
           IN  \E i, j : rows = {i} \/ (i # j /\ rows = {i, j})
<1>1. DOMAIN WeatherItemList = 1 .. 13
  BY DEF WeatherItemList
<1>2. {i \in 1 .. 13 : WeatherItemList[i].wxSym = "Luminosity"} = {10, 13}
  BY DEF WeatherItemList, Item
<1>3. ASSUME sym # "Luminosity"
      PROVE  \E i \in 1 .. 13 : \A j \in 1 .. 13 : WeatherItemList[j].wxSym = sym <=> j = i
  BY <1>3 DEF WeatherItemList, Item, WxSym
<1>4. CASE sym = "Luminosity"
  BY <1>1, <1>2, <1>4
<1>5. CASE sym # "Luminosity"
  <2>1. PICK i \in 1 .. 13 : \A j \in 1 .. 13 : WeatherItemList[j].wxSym = sym <=> j = i
    BY <1>3, <1>5
  <2>2. {j \in DOMAIN WeatherItemList : WeatherItemList[j].wxSym = sym} = {i}
    BY <1>1, <2>1
  <2> QED BY <2>2
<1> QED BY <1>4, <1>5

RowsTimes(i, j, C) == {i, j} \X C

\* A term for every pair of a row and a report sums a report once for every row.
LEMMA SumOverRows ==
    ASSUME NEW i, NEW j, NEW C, IsFiniteSet(C), NEW g, \A c \in C : g[c] \in Int,
           NEW f, \A c \in C : f[<<i, c>>] = g[c] /\ f[<<j, c>>] = g[c]
    PROVE  SumFunctionOnSet(f, RowsTimes(i, j, C)) =
             IF i = j THEN SumFunctionOnSet(g, C) ELSE 2 * SumFunctionOnSet(g, C)
<1> DEFINE k == IF i = j THEN 1 ELSE 2
           Rows(T) == {i, j} \X T
           Twice(T) == SumFunctionOnSet(f, Rows(T)) = k * SumFunctionOnSet(g, T)
           F == {T \in SUBSET C : Twice(T)}
<1>1. ASSUME NEW T \in SUBSET C, NEW x \in T, Twice(T \ {x})
      PROVE  Twice(T)
  <2>1. IsFiniteSet(T) /\ IsFiniteSet(Rows(T))
    <3>1. IsFiniteSet(T) /\ IsFiniteSet({i, j})
      <4>1. {i, j} = {i} \cup {j}
        OBVIOUS
      <4>2. IsFiniteSet({i} \cup {j})
        BY FS_Singleton, FS_AddElement
      <4> QED BY <4>1, <4>2, FS_Subset
    <3> QED BY <3>1, FS_Product
  <2>2. \A t \in Rows(T) : f[t] \in Int
    <3>1. \A t \in Rows(T) : \E c \in C : t = <<i, c>> \/ t = <<j, c>>
      OBVIOUS
    <3> QED BY <3>1
  <2>3. SumFunctionOnSet(g, T) = g[x] + SumFunctionOnSet(g, T \ {x})
    BY <2>1, SumTakesOut
  <2>4. g[x] \in Int /\ SumFunctionOnSet(g, T \ {x}) \in Int
    BY <2>1, FS_RemoveElement, SumIsInt
  <2>5. SumFunctionOnSet(f, Rows(T)) = g[x] + SumFunctionOnSet(f, Rows(T) \ {<<i, x>>})
    <3>1. <<i, x>> \in Rows(T) /\ f[<<i, x>>] = g[x]
      OBVIOUS
    <3> HIDE DEF Rows
    <3> QED BY <2>1, <2>2, <3>1, SumTakesOut
  <2>6. CASE i = j
    <3>1. Rows(T) \ {<<i, x>>} = Rows(T \ {x})
      BY <2>6
    <3>2. SumFunctionOnSet(f, Rows(T \ {x})) = k * SumFunctionOnSet(g, T \ {x}) /\ k = 1
      BY <1>1, <2>6
    <3>3. SumFunctionOnSet(f, Rows(T)) = g[x] + 1 * SumFunctionOnSet(g, T \ {x})
      BY <2>5, <3>1, <3>2
    <3> QED BY <2>3, <2>4, <2>6, <3>3
  <2>7. CASE i # j
    <3>1. (Rows(T) \ {<<i, x>>}) \ {<<j, x>>} = Rows(T \ {x})
      OBVIOUS
    <3>2. IsFiniteSet(Rows(T) \ {<<i, x>>}) /\ <<j, x>> \in Rows(T) \ {<<i, x>>}
      BY <2>1, <2>7, FS_RemoveElement
    <3>3. SumFunctionOnSet(f, Rows(T) \ {<<i, x>>}) =
            g[x] + SumFunctionOnSet(f, (Rows(T) \ {<<i, x>>}) \ {<<j, x>>})
      <4>1. f[<<j, x>>] = g[x]
        OBVIOUS
      <4> HIDE DEF Rows
      <4>2. \A t \in Rows(T) \ {<<i, x>>} : f[t] \in Int
        BY <2>2
      <4> QED BY <3>2, <4>1, <4>2, SumTakesOut
    <3>4. SumFunctionOnSet(f, Rows(T \ {x})) = k * SumFunctionOnSet(g, T \ {x}) /\ k = 2
      BY <1>1, <2>7
    <3>5. SumFunctionOnSet(f, Rows(T)) = g[x] + (g[x] + SumFunctionOnSet(f, Rows(T \ {x})))
      BY <2>5, <3>1, <3>3
    <3> DEFINE rest == SumFunctionOnSet(g, T \ {x})
    <3>6. /\ SumFunctionOnSet(f, Rows(T)) = g[x] + (g[x] + 2 * rest)
          /\ SumFunctionOnSet(g, T) = g[x] + rest
      BY <2>3, <3>4, <3>5
    <3> HIDE DEF Rows, rest
    <3>7. 2 * (g[x] + rest) = g[x] + (g[x] + 2 * rest)
      BY <2>4 DEF rest
    <3> QED BY <3>4, <3>6, <3>7
  <2> QED BY <2>6, <2>7
<1>2. Twice({})
  <2>1. Rows({}) = {}
    OBVIOUS
  <2>2. SumFunctionOnSet(f, {}) = 0 /\ SumFunctionOnSet(g, {}) = 0
    BY SumStep, FS_EmptySet
  <2> QED BY <2>1, <2>2
<1>3. \A T \in SUBSET C : (\A x \in T : T \ {x} \in F) => T \in F
  <2> HIDE DEF Twice
  <2> QED BY <1>1, <1>2
<1>4. \A T \in SUBSET C : T \in F
  <2> HIDE DEF F
  <2> QED BY <1>3, FiniteInduction
<1>5. SumFunctionOnSet(g, C) \in Int
  BY SumIsInt
<1> QED BY <1>4, <1>5 DEF RowsTimes

\* What is a multiple is divided without a remainder, and the other way round.
LEMMA DivisionIsExact ==
    ASSUME NEW k \in Nat \ {0}, NEW a \in Int
    PROVE  (k * a) % k = 0 /\ (k * a) \div k = a
<1> DEFINE q == (k * a) \div k
           r == (k * a) % k
<1>1. q \in Int /\ r \in 0 .. k - 1 /\ k * a = k * q + r
  OBVIOUS
<1> HIDE DEF q, r
<1>2. r = k * (a - q)
  BY <1>1
<1>3. a - q = 0
  <2>1. CASE a - q >= 1
    <3>1. k * (a - q) >= k
      BY <1>1, <2>1
    <3> QED BY <1>1, <1>2, <3>1
  <2>2. CASE a - q <= -1
    <3>1. k * (a - q) <= -k
      BY <1>1, <2>2
    <3> QED BY <1>1, <1>2, <3>1
  <2> QED BY <1>1, <2>1, <2>2
<1>4. a = q /\ r = 0
  BY <1>1, <1>2, <1>3
<1> QED BY <1>4 DEF q, r

LEMMA Divisor ==
    ASSUME NEW k \in Nat \ {0}, NEW n \in Int, n % k = 0
    PROVE  n \div k \in Int /\ n = k * (n \div k)
OBVIOUS

\* Doubling both sums does not change their quotient.
LEMMA RatioOfDoubles ==
    ASSUME NEW n \in Int, NEW d \in Nat
    PROVE  Ratio(2 * n, 2 * d) = Ratio(n, d)
<1>1. CASE d = 0
  BY <1>1 DEF Ratio
<1>2. CASE d # 0
  <2> DEFINE g == Max({k \in 1 .. d : n % k = 0 /\ d % k = 0})
             G == Max({k \in 1 .. 2 * d : (2 * n) % k = 0 /\ (2 * d) % k = 0})
  <2>1. /\ g \in 1 .. d /\ n % g = 0 /\ d % g = 0
        /\ \A k \in 1 .. d : n % k = 0 /\ d % k = 0 => k <= g
    BY <1>2, GcdDivides
  <2>2. /\ G \in 1 .. 2 * d /\ (2 * n) % G = 0 /\ (2 * d) % G = 0
        /\ \A k \in 1 .. 2 * d : (2 * n) % k = 0 /\ (2 * d) % k = 0 => k <= G
    <3>1. 2 * n \in Int /\ 2 * d \in Nat \ {0}
      BY <1>2
    <3> QED BY <3>1, GcdDivides
  <2>3. Ratio(n, d) = <<n \div g, d \div g>> /\ Ratio(2 * n, 2 * d) = <<(2 * n) \div G, (2 * d) \div G>>
    BY <1>2 DEF Ratio
  <2> HIDE DEF g, G
  <2> DEFINE a == n \div g
             b == d \div g
             p == (2 * n) \div G
             q == (2 * d) \div G
  <2>4. a \in Int /\ b \in Int /\ n = g * a /\ d = g * b
    BY <2>1, Divisor
  <2>5. p \in Int /\ q \in Int /\ 2 * n = G * p /\ 2 * d = G * q
    <3>1. 2 * n \in Int /\ 2 * d \in Int /\ G \in Nat \ {0}
      BY <2>2
    <3> QED BY <2>2, <3>1, Divisor
  <2> HIDE DEF a, b, p, q
  <2>6. \A k \in Nat \ {0} : \A x \in Int, y \in Int : n = k * x /\ d = k * y => k <= g
    <3>1. SUFFICES ASSUME NEW k \in Nat \ {0}, NEW x \in Int, NEW y \in Int, n = k * x, d = k * y
                   PROVE  k <= g
      OBVIOUS
    <3>2. n % k = 0 /\ d % k = 0
      BY <3>1, DivisionIsExact
    <3>3. y >= 1
      <4>1. k * y >= 1
        BY <1>2, <3>1
      <4> QED BY <4>1
    <3>4. k * y >= k
      BY <3>3
    <3> QED BY <2>1, <3>1, <3>2, <3>4
  <2>7. 2 * g <= G
    <3>1. 2 * n = (2 * g) * a /\ 2 * d = (2 * g) * b /\ 2 * g \in Nat \ {0}
      BY <2>1, <2>4
    <3>2. (2 * n) % (2 * g) = 0 /\ (2 * d) % (2 * g) = 0
      BY <2>4, <3>1, DivisionIsExact
    <3>3. 2 * g \in 1 .. 2 * d
      BY <2>1
    <3> QED BY <2>2, <3>2, <3>3
  <2>8. CASE G % 2 = 0
    <3>1. PICK e \in Int : G = 2 * e
      BY <2>2, <2>8, Divisor
    <3>2. e \in Nat \ {0} /\ n = e * p /\ d = e * q
      BY <2>2, <2>5, <3>1
    <3>3. e <= g
      BY <2>5, <2>6, <3>2
    <3>4. e = g
      BY <2>1, <2>7, <3>1, <3>3
    <3>5. (g * p) \div g = p /\ (g * q) \div g = q
      BY <2>1, <2>5, DivisionIsExact
    <3>6. n \div g = p /\ d \div g = q
      BY <3>2, <3>4, <3>5
    <3> QED BY <2>3, <3>6 DEF p, q
  <2>9. CASE G % 2 = 1
    <3>1. PICK e \in Int : G = 2 * e + 1
      BY <2>2, <2>9
    <3>2. p = 2 * (n - e * p) /\ q = 2 * (d - e * q)
      BY <2>5, <3>1
    <3>3. n = G * (n - e * p) /\ d = G * (d - e * q)
      BY <2>5, <3>1, <3>2
    <3>4. n - e * p \in Int /\ d - e * q \in Int /\ G \in Nat \ {0}
      BY <2>2, <2>5, <3>1
    <3>5. G <= g
      BY <2>6, <3>3, <3>4
    <3> QED BY <2>1, <2>2, <2>7, <3>5
  <2> QED BY <2>2, <2>8, <2>9
<1> QED BY <1>1, <1>2

\* The mean that WeatherFeed takes of the reports is the quotient of the two sums
\* of the map, also where the table lists a symbol twice.
LEMMA MeanOfReports ==
    ASSUME NEW m, IsMap(m), NEW sym \in Aggregated(m)
    PROVE  Feed!WeightedMean(m, sym) = Ratio(ValueSum(m)[sym], HannSum(m)[sym])
<1> DEFINE C == Contributors(m, sym)
           rows == {i \in DOMAIN WeatherItemList : WeatherItemList[i].wxSym = sym}
           f == [t \in Terms(m, sym) |-> m[t[2]].mWeatherValue[sym] * m[t[2]].mHannValue]
           w == [t \in Terms(m, sym) |-> m[t[2]].mHannValue]
           value == [s \in C |-> m[s].mHannValue * m[s].mWeatherValue[sym]]
           weight == [s \in C |-> m[s].mHannValue]
<1>1. sym \in WxSym
  BY DEF Aggregated
<1>2. PICK i, j : rows = {i, j}
  <2>1. PICK i, j : rows = {i} \/ (i # j /\ rows = {i, j})
    BY <1>1, RowsOfSymbol
  <2> HIDE DEF rows
  <2>2. CASE rows = {i}
    <3>1. rows = {i, i}
      BY <2>2
    <3> QED BY <3>1
  <2> QED BY <2>1, <2>2
<1>3. Terms(m, sym) = RowsTimes(i, j, C)
  BY <1>2 DEF Terms, RowsTimes
<1>4. IsFiniteSet(C)
  BY TermsAreFinite
<1>5. \A s \in C : m[s].mWeatherValue[sym] \in Int /\ m[s].mHannValue \in Nat
  BY DEF Contributors, IsMap, IsReport
<1>6. \A s \in C : /\ value[s] \in Int /\ weight[s] \in Int
                   /\ f[<<i, s>>] = value[s] /\ f[<<j, s>>] = value[s]
                   /\ w[<<i, s>>] = weight[s] /\ w[<<j, s>>] = weight[s]
  <2>1. SUFFICES ASSUME NEW s \in C
        PROVE  /\ value[s] \in Int /\ weight[s] \in Int
               /\ f[<<i, s>>] = value[s] /\ f[<<j, s>>] = value[s]
               /\ w[<<i, s>>] = weight[s] /\ w[<<j, s>>] = weight[s]
    OBVIOUS
  <2>2. <<i, s>> \in Terms(m, sym) /\ <<j, s>> \in Terms(m, sym)
    BY <1>3 DEF RowsTimes
  <2> QED BY <1>5, <2>2
<1>7. /\ ValueSum(m)[sym] = SumFunctionOnSet(f, Terms(m, sym))
      /\ HannSum(m)[sym] = SumFunctionOnSet(w, Terms(m, sym))
  BY DEF ValueSum, HannSum, SumFunction
<1>8. Feed!WeightedMean(m, sym) = Ratio(SumFunctionOnSet(value, C), SumFunctionOnSet(weight, C))
  <2>1. Feed!Telling(m, sym) = C
    BY DEF Feed!Telling, Contributors
  <2> QED BY <2>1, SameOperators DEF Feed!WeightedMean, SumFunction
<1> HIDE DEF f, w, value, weight, C
<1>9. SumFunctionOnSet(value, C) \in Int /\ SumFunctionOnSet(weight, C) \in Nat
  <2>1. SumFunctionOnSet(value, C) \in Int /\ SumFunctionOnSet(weight, C) \in Int
    BY <1>4, <1>6, SumIsInt
  <2>2. \A s \in C : weight[s] \in Nat
    BY <1>5 DEF weight
  <2> QED BY <1>4, <2>1, <2>2, SumIsNat
<1>10. SumFunctionOnSet(f, Terms(m, sym)) =
         IF i = j THEN SumFunctionOnSet(value, C) ELSE 2 * SumFunctionOnSet(value, C)
  <2>1. \A s \in C : value[s] \in Int
    BY <1>6
  <2>2. \A s \in C : f[<<i, s>>] = value[s] /\ f[<<j, s>>] = value[s]
    BY <1>6
  <2> QED BY <1>3, <1>4, <2>1, <2>2, SumOverRows
<1>11. SumFunctionOnSet(w, Terms(m, sym)) =
         IF i = j THEN SumFunctionOnSet(weight, C) ELSE 2 * SumFunctionOnSet(weight, C)
  <2>1. \A s \in C : weight[s] \in Int
    BY <1>6
  <2>2. \A s \in C : w[<<i, s>>] = weight[s] /\ w[<<j, s>>] = weight[s]
    BY <1>6
  <2> QED BY <1>3, <1>4, <2>1, <2>2, SumOverRows
<1> QED BY <1>7, <1>8, <1>9, <1>10, <1>11, RatioOfDoubles

\* The initial states are initial states of the feed.
LEMMA FeedInit == Init => Feed!Init
BY DEF Init, Feed!Init, Means, Restrict

\* The map without its old reports is what the feed hears.
LEMMA Heard == Restrict(reports, {s \in DOMAIN reports : reports[s].age <= MaxAge}) = Evict(reports)
BY DEF Evict

LEMMA UpdateIsArrive ==
    ASSUME SumsMatch, NEW s \in Stations, NEW r \in Readings, Update(s, r)
    PROVE  Feed!Arrive(s, r)
<1> DEFINE n == Evict(Insert(reports, s, r))
<1>1. /\ request = <<>> /\ reports' = n
      /\ mValueAggregate' = ValueSum(n) /\ mHannAggregate' = HannSum(n)
      /\ UNCHANGED <<request, influx>>
  BY DEF Update, aggregateData
<1>2. IsMap(n)
  BY StoringKeepsMap DEF SumsMatch
<1>3. n = [x \in DOMAIN Evict(reports) \cup {s} |->
             IF x = s THEN [mHannValue |-> HannValue(r.distance),
                            mWeatherValue |-> r.value, age |-> 0]
             ELSE Evict(reports)[x]]
  <2>1. 0 <= MaxAge
    BY AggregatorAssumption
  <2> QED BY <2>1 DEF Evict, Insert, Restrict, Report
<1>4. Evict(n) = n
  BY DEF Evict, Restrict
<1>5. Means' = [sym \in Aggregated(n) |-> Ratio(ValueSum(n)[sym], HannSum(n)[sym])]
  <2> HIDE DEF n
  <2>1. DOMAIN ValueSum(n) = Aggregated(n)
    BY DEF ValueSum
  <2> QED BY <1>1, <2>1 DEF Means
<1>6. Aggregated(n) = {x \in Feed!WxSym : Feed!Telling(n, x) # {}}
  BY SameOperators DEF Aggregated, Contributors, Feed!Telling
<1> HIDE DEF n
<1>7. Means' = [sym \in {x \in Feed!WxSym : Feed!Telling(n, x) # {}} |->
                  Feed!WeightedMean(n, sym)]
  BY <1>2, <1>5, <1>6, MeanOfReports
<1> QED BY <1>1, <1>3, <1>4, <1>7, SameOperators DEF Feed!Arrive, Evict

LEMMA TickIsPass ==
    ASSUME SumsMatch, MapTypeOK, Tick
    PROVE  Feed!Pass
<1>1. \A s \in DOMAIN reports : /\ reports[s].age \in Nat
                                /\ DOMAIN reports[s] = {"mHannValue", "mWeatherValue", "age"}
  BY AggregatorAssumption DEF MapTypeOK
<1>2. \A s \in DOMAIN reports : /\ reports'[s].age = Older(reports[s].age)
                                /\ reports'[s] = [reports[s] EXCEPT !.age = Older(@)]
  BY <1>1 DEF Tick
<1>3. /\ \A a \in Nat : Older(a) <= MaxAge <=> a < MaxAge
      /\ \A a \in Nat : a < MaxAge => Older(a) = a + 1 /\ a <= MaxAge
  BY AggregatorAssumption DEF Older
<1>4. DOMAIN reports' = DOMAIN reports
  BY DEF Tick
<1>5. Evict(reports') = [s \in {x \in DOMAIN reports : reports[x].age < MaxAge} |->
                           [reports[s] EXCEPT !.age = @ + 1]]
  <2>1. {x \in DOMAIN reports' : reports'[x].age <= MaxAge}
          = {x \in DOMAIN reports : reports[x].age < MaxAge}
    BY <1>1, <1>2, <1>3, <1>4
  <2>2. \A s \in {x \in DOMAIN reports : reports[x].age < MaxAge} :
          reports'[s] = [reports[s] EXCEPT !.age = @ + 1]
    BY <1>1, <1>2, <1>3
  <2> QED BY <2>1, <2>2 DEF Evict, Restrict
<1>6. {x \in DOMAIN Evict(reports) : Evict(reports)[x].age < MaxAge}
        = {x \in DOMAIN reports : reports[x].age < MaxAge}
  BY <1>1, <1>3 DEF Evict, Restrict
<1>7. \A x \in DOMAIN Evict(reports) : Evict(reports)[x] = reports[x]
  BY DEF Evict, Restrict
<1>8. Evict(reports') = [s \in {x \in DOMAIN Evict(reports) : Evict(reports)[x].age < MaxAge} |->
                           [Evict(reports)[s] EXCEPT !.age = @ + 1]]
  BY <1>5, <1>6, <1>7
<1>9. UNCHANGED <<Means, request, influx>>
  BY DEF Tick, Means
<1> QED BY <1>8, <1>9 DEF Feed!Pass, Evict

LEMMA PushIsSend ==
    /\ BeginPush => Feed!Send
    /\ \A stored \in BOOLEAN : EndPush(stored) => Feed!Answer
    /\ Die => Feed!Forget
<1>1. BeginPush => Feed!Send
  BY SamePostField DEF BeginPush, Feed!Send, Means
<1>2. \A stored \in BOOLEAN : EndPush(stored) => Feed!Answer
  BY DEF EndPush, Feed!Answer, Means
<1>3. Die => Feed!Forget
  BY DEF Die, Feed!Forget, Means, Restrict
<1> QED BY <1>1, <1>2, <1>3

\* The aggregator does what WeatherFeed promises.
THEOREM AggregatorImplementsFeed == Spec => ImplementsWeatherFeed
<1>1. SumsMatch /\ MapTypeOK /\ [Next]_vars => [Feed!Next]_(Feed!vars)
  <2>1. ASSUME UNCHANGED vars
        PROVE  UNCHANGED Feed!vars
    BY <2>1 DEF vars, Feed!vars, Means
  <2> QED BY <2>1, UpdateIsArrive, TickIsPass, PushIsSend DEF Next, Feed!Next
<1> QED BY <1>1, FeedInit, SumsAlwaysMatch, MapIsTyped, PTL
       DEF Spec, ImplementsWeatherFeed, Feed!Spec

=============================================================================
