-------------------------- MODULE AirQualityProofs --------------------------
(***************************************************************************)
(* The verdict, the flag and the standard of the air quality sensor, for   *)
(* any voltages, number of readings to an average and width of an int.     *)
(***************************************************************************)
EXTENDS AirQuality, TLAPS

Voltage == 0 .. 1023

(* The running total is one of i readings, and temp is it if it fits. *)
TotalOK ==
    /\ sum \in 0 .. 1023 * i
    /\ 2 * sum < Word => temp = sum

(* Before the first reading the flag is down; slope takes it back after its
   comparisons, and only a reading that comes after them sets it again. *)
FlagOK ==
    /\ at = "init" => ~timer_index
    /\ at \in {"loop", "average"} /\ timer_index => ~judged

(* The interrupt keeps the last two readings. *)
VoltsOK == first_vol = latest /\ last_vol = previous

(* What the comparisons of slope have found so far. *)
Found(stage) == Condition(stage, latest, previous)
VerdictOK ==
    ~disturbed =>
        /\ at = "high" => ~Found("force")
        /\ at = "low" => ~Found("force") /\ ~Found("high")
        /\ at = "fresh" => ~Found("force") /\ ~Found("high") /\ ~Found("low")
        /\ at = "polluted" => Found("force") \/ Found("high") \/ Found("low")

(* The parts of the type invariant the interrupt disturbs. *)
VoltTypes ==
    /\ first_vol \in Volts \cup {0} /\ last_vol \in Volts \cup {0}
    /\ latest \in Volts \cup {0} /\ previous \in Volts \cup {0}
FlagTypes ==
    timer_index \in BOOLEAN /\ disturbed \in BOOLEAN /\ judged \in BOOLEAN

(* What a reading does to judged. *)
NowJudged == judged' <=> Comparing

Inv == AirTypeOK /\ TotalOK /\ FlagOK /\ VoltsOK /\ VerdictOK

-----------------------------------------------------------------------------
(* Arithmetic. *)

(* An int holds at most half a word, on either side of zero. *)
LEMMA IntRange ==
    ASSUME NEW k \in Int
    PROVE  /\ Int16(k) \in Int
           /\ 2 * Int16(k) \in -Word .. Word - 1
           /\ 0 <= k /\ 2 * k < Word => Int16(k) = k
  <1>1. Word \in Nat \ {0}
    BY AirAssumption
  <1>2. k % Word \in 0 .. Word - 1
    BY <1>1
  <1>3. ASSUME 0 <= k, 2 * k < Word PROVE k % Word = k
    BY <1>1, <1>3
  <1> QED
    BY <1>1, <1>2, <1>3 DEF Int16

(* The quotient of an int by a number of readings fits an int. *)
LEMMA QuotientRange ==
    ASSUME NEW a \in Int, 2 * a \in -Word .. Word - 1
    PROVE  /\ Quotient(a, Samples) \in Int
           /\ 2 * Quotient(a, Samples) \in -Word .. Word - 1
           /\ 0 <= a => Quotient(a, Samples) = a \div Samples
  <1>1. Samples \in Nat \ {0} /\ Word \in Nat
    BY AirAssumption
  <1>2. ASSUME NEW b \in Nat PROVE b \div Samples \in 0 .. b
    BY <1>1
  <1>3. CASE a < 0
    <2>1. -a \in Nat
      BY <1>3
    <2>2. (-a) \div Samples \in 0 .. -a
      BY <1>2, <2>1
    <2> QED
      BY <1>1, <1>3, <2>2 DEF Quotient
  <1>4. CASE 0 <= a
    <2>1. a \div Samples \in 0 .. a
      BY <1>2, <1>4
    <2> QED
      BY <1>1, <1>4, <2>1 DEF Quotient
  <1> QED
    BY <1>3, <1>4

(* A voltage fits an int. *)
LEMMA VoltageFits ==
    ASSUME NEW v \in Voltage
    PROVE  v \in Int /\ 2 * v \in -Word .. Word - 1
  <1>1. v \in 0 .. 1023 /\ Word \in Nat /\ Word >= 2048
    BY AirAssumption DEF Voltage
  <1>2. -Word <= 2 * v /\ 2 * v <= Word - 1
    BY <1>1
  <1> QED
    BY <1>1, <1>2

(* A voltage put together of the bytes of two is a voltage; of one and the
   same it is that one. *)
LEMMA BetweenRange ==
    ASSUME NEW a \in Voltage, NEW b \in Voltage
    PROVE  Between(a, b) \subseteq Voltage /\ Between(a, a) = {a}
  <1>1. \A v \in Voltage : 256 * (v \div 256) \in {0, 256, 512, 768}
                           /\ v % 256 \in 0 .. 255
                           /\ (256 * (v \div 256)) + (v % 256) = v
    BY DEF Voltage
  <1>2. \A v \in Voltage, w \in Voltage : High(v) + Low(w) \in Voltage
    BY <1>1 DEF High, Low, Voltage
  <1>3. High(a) + Low(a) = a
    BY <1>1 DEF High, Low
  <1> QED
    BY <1>2, <1>3 DEF Between

-----------------------------------------------------------------------------
(* The inductive invariant. *)

LEMMA InitInv == AirInit => Inv
  <1> SUFFICES ASSUME AirInit PROVE Inv
    OBVIOUS
  <1>1. Samples \in Nat /\ Duty \in Nat /\ Word \in Nat /\ Word >= 2048
    BY AirAssumption
  <1>2. 0 \in 0 .. Samples /\ 0 \in 0 .. Duty /\ 0 \in 0 .. 1023 * Samples
        /\ 2 * 0 \in -Word .. Word - 1 /\ 0 \in 0 .. 1023 * 0
    BY <1>1
  <1>3. error \in BOOLEAN /\ timer_index \in BOOLEAN /\ disturbed \in BOOLEAN
        /\ judged \in BOOLEAN
    BY Zenon DEF AirInit
  <1>4. AirTypeOK
    BY <1>2, <1>3 DEF AirInit, AirTypeOK
  <1>5. TotalOK /\ FlagOK /\ VoltsOK /\ VerdictOK
    BY <1>2 DEF AirInit, TotalOK, FlagOK, VoltsOK, VerdictOK
  <1> QED
    BY <1>4, <1>5 DEF Inv

LEMMA Types ==
    ASSUME AirTypeOK
    PROVE  /\ first_vol \in Voltage /\ last_vol \in Voltage
           /\ latest \in Voltage /\ previous \in Voltage
           /\ Volts \subseteq Voltage
           /\ temp \in Int /\ vol_standard \in Int /\ sum \in Nat
           /\ i \in Nat /\ counter \in Nat
           /\ Samples \in Nat \ {0} /\ Duty \in Nat /\ Word \in Nat
  BY AirAssumption DEF AirTypeOK, Voltage

(* What the interrupt does to the invariant while slope is at any stage. *)
LEMMA ReadingKeeps ==
    ASSUME Inv, NEW v \in Volts, Reading(v)
    PROVE  /\ VoltTypes'
           /\ counter' \in 0 .. Duty
           /\ FlagTypes'
           /\ VoltsOK' /\ timer_index' /\ NowJudged
           /\ at # "loop" => disturbed'
  <1>1. VoltTypes' /\ VoltsOK'
    BY DEF Inv, AirTypeOK, VoltsOK, Reading, Keeps, VoltTypes
  <1>2. counter' \in 0 .. Duty
    BY AirAssumption DEF Reading
  <1>3. judged' = Comparing
    BY Zenon DEF Reading
  <1>4. NowJudged /\ judged' \in BOOLEAN
    BY <1>3, Zenon DEF NowJudged, Comparing
  <1>5. timer_index' \in BOOLEAN /\ disturbed' \in BOOLEAN
    BY Zenon DEF Reading
  <1>6. timer_index' /\ (at # "loop" => disturbed')
    BY Zenon DEF Reading
  <1> QED
    BY <1>1, <1>2, <1>4, <1>5, <1>6 DEF FlagTypes

LEMMA MeanwhileKeeps ==
    ASSUME Inv, Meanwhile
    PROVE  /\ VoltTypes'
           /\ counter' \in 0 .. Duty
           /\ FlagTypes'
           /\ VoltsOK'
           /\ \/ UNCHANGED <<volts, flags>>
              \/ timer_index' /\ NowJudged /\ (at # "loop" => disturbed')
  <1>1. CASE UNCHANGED <<volts, flags>>
    BY <1>1 DEF Inv, AirTypeOK, VoltsOK, volts, flags, VoltTypes, FlagTypes
  <1>2. ASSUME NEW v \in Volts, Reading(v)
        PROVE  /\ VoltTypes'
               /\ counter' \in 0 .. Duty
               /\ FlagTypes'
               /\ VoltsOK' /\ timer_index' /\ NowJudged
               /\ at # "loop" => disturbed'
    BY <1>2, ReadingKeeps
  <1> QED
    BY <1>1, <1>2 DEF Meanwhile

(* A verdict that is right is about the standard, which slope leaves alone. *)
LEMMA SameFound ==
    ASSUME UNCHANGED <<latest, previous, vol_standard>>
    PROVE  /\ Found("force")' <=> Found("force")
           /\ Found("high")' <=> Found("high")
           /\ Found("low")' <=> Found("low")
  BY DEF Found, Condition

LEMMA CompareStep ==
    ASSUME Inv, NEW stage \in {"force", "high", "low"},
           NEW successor \in {"high", "low", "fresh"},
           <<stage, successor>> \in {<<"force", "high">>, <<"high", "low">>,
                                     <<"low", "fresh">>},
           Compares(stage, successor), UNCHANGED <<initVars, average>>
    PROVE  Inv'
  <1>1. Meanwhile /\ at = stage
    BY DEF Compares
  <1>2. at' \in {successor, "polluted"}
    BY DEF Compares
  <1>3. /\ VoltTypes'
        /\ counter' \in 0 .. Duty
        /\ FlagTypes'
        /\ VoltsOK'
        /\ \/ UNCHANGED <<volts, flags>>
           \/ timer_index' /\ NowJudged /\ (at # "loop" => disturbed')
    BY <1>1, MeanwhileKeeps
  <1>4. AirTypeOK'
    BY <1>2, <1>3 DEF Inv, AirTypeOK, VoltTypes, FlagTypes, initVars, average
  <1>5. TotalOK' /\ FlagOK'
    BY <1>2 DEF Inv, TotalOK, FlagOK, average
  <1>6. VerdictOK'
    <2> SUFFICES ASSUME ~disturbed' PROVE VerdictOK'
      BY DEF VerdictOK
    <2>1. UNCHANGED <<volts, flags>> /\ ~disturbed
      BY <1>1, <1>3 DEF flags
    <2>2. SeenFirst = {latest} /\ SeenLast = {previous}
      BY <2>1, BetweenRange, Types DEF Inv, VoltsOK, SeenFirst, SeenLast, volts
    <2>3. at' = IF Found(stage) THEN "polluted" ELSE successor
      BY <2>2 DEF Compares, Found
    <2>4. /\ Found("force")' <=> Found("force")
          /\ Found("high")' <=> Found("high")
          /\ Found("low")' <=> Found("low")
      BY <2>1, SameFound DEF volts, average
    <2> HIDE DEF Found
    <2> QED
      BY <1>1, <2>1, <2>3, <2>4 DEF Inv, VerdictOK
  <1> QED
    BY <1>3, <1>4, <1>5, <1>6 DEF Inv

LEMMA AvgVoltageStep ==
    ASSUME Inv, AvgVoltage
    PROVE  Inv'
  <1>1. /\ at \in {"average", "fresh"}
        /\ at' = IF at = "average" THEN "loop" ELSE "averaged"
        /\ UNCHANGED initVars
    BY DEF AvgVoltage
  <1>2. CASE NewStandard
    <2>1. vol_standard' \in Int /\ 2 * vol_standard' \in -Word .. Word - 1
      BY <1>2, QuotientRange DEF NewStandard, Inv, AirTypeOK
    <2>2. temp' = 0 /\ 2 * temp' \in -Word .. Word - 1 /\ i' \in 0 .. Samples
          /\ sum' \in 0 .. 1023 * Samples
      BY <1>2, AirAssumption DEF NewStandard
    <2>3. AirTypeOK'
      BY <1>1, <1>2, <2>1, <2>2 DEF NewStandard, Inv, AirTypeOK, initVars, volts, flags
    <2>4. TotalOK' /\ FlagOK' /\ VoltsOK' /\ VerdictOK'
      BY <1>1, <1>2 DEF NewStandard, Inv, TotalOK, FlagOK, VoltsOK, VerdictOK,
                        volts, flags
    <2> QED
      BY <2>3, <2>4 DEF Inv
  <1>3. CASE AddReading
    <2>1. Meanwhile /\ i # Samples /\ i' = i + 1 /\ UNCHANGED vol_standard
      BY <1>3 DEF AddReading
    <2>2. PICK f \in SeenFirst : temp' = Int16(temp + f) /\ sum' = sum + f
      BY <1>3 DEF AddReading
    <2>3. /\ VoltTypes'
          /\ counter' \in 0 .. Duty
          /\ FlagTypes'
          /\ VoltsOK'
          /\ \/ UNCHANGED <<volts, flags>>
             \/ timer_index' /\ NowJudged /\ (at # "loop" => disturbed')
      BY <2>1, MeanwhileKeeps
    <2>4. f \in Voltage
      <3>1. first_vol \in Voltage /\ first_vol' \in Voltage
        BY <2>3, Types, AirAssumption DEF Inv, VoltTypes, Voltage
      <3> QED
        BY <2>2, <3>1, BetweenRange DEF SeenFirst
    <2>5. /\ i \in Nat /\ i + 1 <= Samples /\ sum \in Nat /\ temp \in Int
          /\ sum <= 1023 * i /\ f \in Nat /\ f <= 1023
          /\ Samples \in Nat /\ Word \in Nat
      BY <2>1, <2>4, Types DEF Inv, AirTypeOK, TotalOK, Voltage
    <2>6. sum' \in 0 .. 1023 * i' /\ i' \in 0 .. Samples
          /\ sum' \in 0 .. 1023 * Samples
      BY <2>1, <2>2, <2>5
    <2>7. temp' \in Int /\ 2 * temp' \in -Word .. Word - 1
      BY <2>2, <2>5, IntRange
    <2>8. ASSUME 2 * sum' < Word PROVE temp' = sum'
      <3>1. temp = sum /\ 2 * (sum + f) < Word
        BY <2>2, <2>5, <2>8 DEF Inv, TotalOK
      <3> QED
        BY <2>2, <2>5, <3>1, IntRange
    <2>9. AirTypeOK'
      BY <1>1, <2>1, <2>3, <2>6, <2>7 DEF Inv, AirTypeOK, VoltTypes, FlagTypes,
                                           initVars
    <2>10. TotalOK'
      <3>1. 2 * sum' < Word => temp' = sum'
        BY <2>8, Zenon
      <3>2. sum' \in 0 .. 1023 * i'
        BY <2>1, <2>2, <2>5
      <3> QED
        BY <3>1, <3>2, Zenon DEF TotalOK
    <2>11. FlagOK' /\ VerdictOK'
      <3>1. at = "average" => ~Comparing /\ at' = "loop"
        BY <1>1 DEF Comparing
      <3>2. at = "fresh" => at' = "averaged"
        BY <1>1
      <3>3. FlagOK'
        BY <1>1, <2>3, <3>1, <3>2 DEF Inv, FlagOK, NowJudged, flags
      <3>4. VerdictOK'
        BY <1>1, <3>1, <3>2 DEF VerdictOK
      <3> QED
        BY <3>3, <3>4
    <2> QED
      BY <2>3, <2>9, <2>10, <2>11 DEF Inv
  <1> QED
    BY <1>2, <1>3 DEF AvgVoltage

LEMMA StepInv == Inv /\ [AirNext]_airVars => Inv'
  <1> SUFFICES ASSUME Inv, [AirNext]_airVars PROVE Inv'
    OBVIOUS
  <1>1. CASE WaitForSensor
    <2>1. tries' \in 0 .. 4
      BY <1>1 DEF WaitForSensor, Inv, AirTypeOK
    <2>2. error' \in BOOLEAN
      BY <1>1, Zenon DEF WaitForSensor
    <2> QED
      BY <1>1, <2>1, <2>2
         DEF WaitForSensor, Inv, AirTypeOK, TotalOK, FlagOK, VoltsOK, VerdictOK,
             Found, Condition, volts, average, flags
  <1>2. CASE InitEnds
    <2>1. at = "init" /\ at' = "loop" /\ tries' = 0
          /\ UNCHANGED <<temp, i, sum, counter, timer_index, disturbed, judged>>
      BY <1>2 DEF InitEnds, flags
    <2>2. CASE InRange(init_voltage)
      <3>1. /\ first_vol' \in Volts /\ last_vol' = first_vol'
            /\ vol_standard' = first_vol'
            /\ latest' = first_vol' /\ previous' = first_vol'
            /\ error' = FALSE
        BY <1>2, <2>2 DEF InitEnds
      <3>2. vol_standard' \in Int /\ 2 * vol_standard' \in -Word .. Word - 1
        <4>1. first_vol' \in Voltage
          BY <3>1, AirAssumption DEF Voltage
        <4> QED
          BY <3>1, <4>1, VoltageFits
      <3>3. error' \in BOOLEAN
        BY <3>1, Zenon
      <3>4. AirTypeOK'
        BY <2>1, <3>1, <3>2, <3>3 DEF Inv, AirTypeOK
      <3> QED
        BY <2>1, <3>1, <3>4 DEF Inv, TotalOK, FlagOK, VoltsOK, VerdictOK
    <2>3. CASE ~InRange(init_voltage)
      <3>1. UNCHANGED <<first_vol, last_vol, latest, previous, vol_standard, error>>
        BY <1>2, <2>3 DEF InitEnds, volts
      <3> QED
        BY <2>1, <3>1 DEF Inv, AirTypeOK, TotalOK, FlagOK, VoltsOK, VerdictOK
    <2> QED
      BY <2>2, <2>3
  <1>3. CASE Slope
    <2>1. AirTypeOK'
      <3>1. disturbed' \in BOOLEAN /\ judged' \in BOOLEAN
        BY <1>3, Zenon DEF Slope
      <3>2. at' = "force" /\ UNCHANGED <<initVars, volts, average, counter, timer_index>>
        BY <1>3, Zenon DEF Slope
      <3> QED
        BY <3>1, <3>2 DEF Inv, AirTypeOK, initVars, volts, average
    <2> QED
      BY <1>3, <2>1 DEF Slope, Inv, TotalOK, FlagOK, VoltsOK, VerdictOK,
                        volts, average
  <1>4. CASE Compare
    BY <1>4, CompareStep DEF Compare
  <1>5. CASE ClearFlag
    <2>1. /\ timer_index' = FALSE
          /\ at' \in {"average", "loop"} /\ at \in {"polluted", "averaged"}
          /\ UNCHANGED <<initVars, volts, average, counter, disturbed, judged>>
      BY <1>5 DEF ClearFlag, TakesBack
    <2>2. timer_index' \in BOOLEAN
      BY <2>1, Zenon
    <2>3. AirTypeOK'
      BY <2>1, <2>2 DEF Inv, AirTypeOK, initVars, volts, average
    <2> QED
      BY <2>1, <2>3 DEF Inv, TotalOK, FlagOK, VoltsOK, VerdictOK, volts, average
  <1>6. CASE AvgVoltage
    BY <1>6, AvgVoltageStep
  <1>7. CASE Interrupt
    <2>1. at # "init" /\ UNCHANGED <<at, initVars, average>>
      BY <1>7 DEF Interrupt
    <2>2. ASSUME NEW v \in Volts, Reading(v) PROVE Inv'
      <3>1. /\ VoltTypes' /\ counter' \in 0 .. Duty /\ FlagTypes'
            /\ VoltsOK' /\ timer_index' /\ NowJudged
            /\ at # "loop" => disturbed'
        BY <2>2, ReadingKeeps
      <3>2. AirTypeOK'
        BY <2>1, <3>1 DEF Inv, AirTypeOK, VoltTypes, FlagTypes, initVars, average
      <3> QED
        BY <2>1, <3>1, <3>2
           DEF Inv, TotalOK, FlagOK, NowJudged, Comparing, VerdictOK, average
    <2>3. ASSUME counter # Duty, counter' = counter + 1,
                 UNCHANGED <<volts, timer_index, disturbed, judged>>
          PROVE  Inv'
      <3>1. counter' \in 0 .. Duty
        BY <2>3, AirAssumption DEF Inv, AirTypeOK
      <3>2. AirTypeOK'
        BY <2>1, <2>3, <3>1 DEF Inv, AirTypeOK, initVars, volts, average
      <3>3. VerdictOK'
        BY <2>1, <2>3, SameFound DEF Inv, VerdictOK, volts, average
      <3> QED
        BY <2>1, <2>3, <3>2, <3>3 DEF Inv, TotalOK, FlagOK, VoltsOK, volts, average
    <2> QED
      BY <1>7, <2>2, <2>3 DEF Interrupt
  <1>8. CASE UNCHANGED airVars
    <2>1. UNCHANGED <<at, initVars, volts, average, flags>>
      BY <1>8 DEF airVars
    <2>2. VerdictOK'
      BY <2>1, SameFound DEF Inv, VerdictOK, volts, average, flags
    <2>3. AirTypeOK'
      BY <2>1 DEF Inv, AirTypeOK, initVars, volts, average, flags
    <2> QED
      BY <2>1, <2>2, <2>3 DEF Inv, TotalOK, FlagOK, VoltsOK, volts, average, flags
  <1> QED
    BY <1>1, <1>2, <1>3, <1>4, <1>5, <1>6, <1>7, <1>8 DEF AirNext, AirStep

LEMMA Invariance == AirSpec => []Inv
  BY InitInv, StepInv, PTL DEF AirSpec

-----------------------------------------------------------------------------
(* Every variable stays within its type: the total fits its int and no index
   passes its limit, however many readings make an average
   (AirQuality.cpp:26-41). *)
THEOREM AirTypeCorrect == AirSpec => []AirTypeOK
  <1>1. Inv => AirTypeOK
    BY DEF Inv
  <1> QED
    BY <1>1, Invariance, PTL

(* slope is right whenever no reading comes while it compares, but for a
   reading of exactly 700 (AirQuality.cpp:92-129). *)
THEOREM VerdictCorrect == AirSpec => []VerdictIsRight
  <1>1. Inv => VerdictIsRight
    <2> SUFFICES ASSUME Inv, ~disturbed, latest # 700, at \in {"fresh", "polluted"}
                 PROVE  at = "fresh" <=> ~Polluted
      BY DEF VerdictIsRight
    <2>1. latest \in Int /\ previous \in Int /\ vol_standard \in Int
      <3>1. AirTypeOK
        BY DEF Inv
      <3>2. latest \in Voltage /\ previous \in Voltage /\ vol_standard \in Int
        BY <3>1, Types
      <3> QED
        BY <3>2 DEF Voltage
    <2>2. Found("force") \/ Found("high") \/ Found("low") <=> Polluted
      BY <2>1 DEF Found, Condition, Polluted
    <2> HIDE DEF Found, Polluted
    <2> QED
      BY <2>2 DEF Inv, VerdictOK
  <1> QED
    BY <1>1, Invariance, PTL

(* No reading is compared by two calls of slope, on whatever path the first one
   left and at whatever step of it the reading came (AirQuality.cpp:95-125). *)
THEOREM ReadingJudgedOnce == AirSpec => []JudgedOnce
  <1>1. Inv => JudgedOnce
    BY DEF Inv, FlagOK, JudgedOnce
  <1> QED
    BY <1>1, Invariance, PTL

(* The standard is the mean of its readings as long as their sum fits an int
   (AirQuality.cpp:26-41). *)
THEOREM StandardCorrect == AirSpec => StandardIsMean
  <1>1. Inv /\ [AirNext]_airVars
          => [i = Samples /\ i' = 0 /\ 2 * sum < Word
                  => vol_standard' = sum \div Samples]_airVars
    <2> SUFFICES ASSUME Inv, AirNext, i = Samples, i' = 0, 2 * sum < Word
                 PROVE  vol_standard' = sum \div Samples
      OBVIOUS
    <2>1. i # i' /\ i' # i + 1
      BY AirAssumption
    <2>2. AvgVoltage
      BY <2>1 DEF AirNext, AirStep, WaitForSensor, InitEnds, Slope, Compare,
                  ClearFlag, TakesBack, Interrupt, average
    <2>3. vol_standard' = Quotient(temp, Samples)
      BY <2>1, <2>2 DEF AvgVoltage, NewStandard, AddReading
    <2>4. temp = sum /\ 0 <= temp /\ temp \in Int
      BY Types DEF Inv, TotalOK
    <2> QED
      BY <2>3, <2>4, QuotientRange DEF Inv, AirTypeOK
  <1> QED
    BY <1>1, Invariance, PTL DEF AirSpec, StandardIsMean
=============================================================================
