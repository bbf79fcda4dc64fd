----------------------------- MODULE AirQuality -----------------------------
(***************************************************************************)
(* The air quality sensor: AirQuality.cpp and the timer interrupt of the   *)
(* sketch.  slope() reads voltages the interrupt changes; a read that the  *)
(* interrupt falls into may get bytes of the old and of the new value.     *)
(***************************************************************************)
EXTENDS Integers

CONSTANTS
    Volts,      \* what analogRead may return
    Samples,    \* readings to an average (150)
    Duty,       \* interrupts between two readings (61)
    Word        \* an int is a number modulo Word (2^16)

ASSUME AirAssumption ==
    /\ Volts \subseteq 0 .. 1023
    /\ Samples \in Nat \ {0} /\ Duty \in Nat
    /\ Word \in Nat /\ Word >= 2048

VARIABLES
    at,              \* what the sketch does: init, loop, or a step of slope
    tries,           \* i of init (0 once it is done)
    error,
    init_voltage,
    first_vol,
    last_vol,
    vol_standard,
    temp,
    i,
    counter,
    timer_index,
    disturbed,       \* did a reading come while slope ran?
    judged,          \* has a call of slope compared the newest reading, or
                     \* might it have, or is one about to?
    latest,          \* the last two readings
    previous,
    sum              \* what has been added to temp since it was 0

initVars == <<tries, error, init_voltage>>
volts == <<first_vol, last_vol, latest, previous>>
average == <<vol_standard, temp, i, sum>>
flags == <<counter, timer_index, disturbed, judged>>
airVars == <<at, initVars, volts, average, flags>>

(* Arithmetic on int; division cuts off the fraction.  Mutant: no overflow. *)
Unbounded(k) == k
Int16(k) == LET m == k % Word IN IF 2 * m < Word THEN m ELSE m - Word
Quotient(a, b) == IF a < 0 THEN -((-a) \div b) ELSE a \div b

AirInit ==
    /\ at = "init"
    /\ tries = 0 /\ error = FALSE
    /\ init_voltage \in Volts
    /\ first_vol = 0 /\ last_vol = 0 /\ latest = 0 /\ previous = 0
    /\ vol_standard = 0 /\ temp = 0 /\ i = 0 /\ sum = 0
    /\ counter = 0 /\ timer_index = FALSE
    /\ disturbed = FALSE /\ judged = FALSE

-----------------------------------------------------------------------------
(* init(): a voltage in range sets the first values, from A0; 0 and 798 end
   the loop without; others are read anew a minute later, from A0 too. *)
InRange(v) == v < 798 /\ v > 10
EndsInit(v) == v \in {0, 798} \/ InRange(v)

WaitForSensor ==
    /\ at = "init" /\ ~EndsInit(init_voltage)
    /\ tries' = (tries + 1) % 5
    /\ error' = (error \/ tries' = 0)
    /\ init_voltage' \in Volts
    /\ UNCHANGED <<at, volts, average, flags>>

InitEnds ==
    /\ at = "init" /\ EndsInit(init_voltage)
    /\ at' = "loop"
    /\ IF InRange(init_voltage)
       THEN /\ first_vol' \in Volts
            /\ last_vol' = first_vol'
            /\ vol_standard' = last_vol'
            /\ latest' = first_vol' /\ previous' = first_vol'
            /\ error' = FALSE
       ELSE UNCHANGED <<volts, vol_standard, error>>
    /\ tries' = 0
    /\ UNCHANGED <<init_voltage, temp, i, sum, flags>>

-----------------------------------------------------------------------------
(* The interrupt takes a reading.  Mutant: the new one is the last one too. *)
KeepsNewest(v) == first_vol' = v /\ last_vol' = first_vol'
Keeps(v) == last_vol' = first_vol /\ first_vol' = v

(* A reading that comes while slope compares may be what it compares. *)
Comparing == at = "force" \/ at = "high" \/ at = "low"

Reading(v) ==
    /\ counter = Duty
    /\ Keeps(v)
    /\ latest' = v /\ previous' = latest
    /\ counter' = 0
    /\ timer_index' = TRUE
    /\ disturbed' = (at # "loop")
    /\ judged' = Comparing

(* Two readings are two seconds apart, far more than slope takes: at most one
   falls into it. *)
Interrupt ==
    /\ at # "init" /\ (at = "loop" \/ ~disturbed)
    /\ \/ \E v \in Volts : Reading(v)
       \/ counter # Duty /\ counter' = counter + 1
             /\ UNCHANGED <<volts, timer_index, disturbed, judged>>
    /\ UNCHANGED <<at, initVars, average>>

(* What an int may seem to be while it changes from a to b. *)
High(a) == 256 * (a \div 256)
Low(a) == a % 256
Between(a, b) == {a, b, High(a) + Low(b), High(b) + Low(a)}

(* While slope uses the voltages the interrupt may come; it uses them as they
   are or as they change. *)
Meanwhile ==
    \/ UNCHANGED <<volts, flags>>
    \/ ~disturbed /\ \E v \in Volts : Reading(v)
SeenFirst == Between(first_vol, first_vol')
SeenLast == Between(last_vol, last_vol')

-----------------------------------------------------------------------------
(* slope(): without a reading since the last one there is nothing to say. *)
Slope ==
    /\ at = "loop" /\ timer_index
    /\ at' = "force"
    /\ disturbed' = FALSE /\ judged' = TRUE
    /\ UNCHANGED <<initVars, volts, average, counter, timer_index>>

Condition(stage, f, l) ==
    CASE stage = "force" -> f - l > 400 \/ f > 700
      [] stage = "high" -> (f - l > 400 /\ f < 700) \/ f - vol_standard > 150
      [] stage = "low" -> (f - l > 200 /\ f < 700) \/ f - vol_standard > 50

(* The condition at stage decides, or the next one is looked at; it reads each
   voltage once. *)
Compares(stage, next) ==
    /\ at = stage
    /\ Meanwhile
    /\ \E f \in SeenFirst, l \in SeenLast :
          at' = IF Condition(stage, f, l) THEN "polluted" ELSE next

Compare ==
    /\ Compares("force", "high") \/ Compares("high", "low")
          \/ Compares("low", "fresh")
    /\ UNCHANGED <<initVars, average>>

TakesBack(stage, next) ==
    /\ at = stage
    /\ at' = next
    /\ timer_index' = FALSE
    /\ UNCHANGED <<initVars, volts, average, counter, disturbed, judged>>

(* The flag is taken back before the average if the air is polluted, after it
   if it is fresh.  Mutant: only if it is fresh. *)
ClearFlagIfFresh ==
    \/ at = "polluted" /\ at' = "average"
          /\ UNCHANGED <<initVars, volts, average, flags>>
    \/ TakesBack("averaged", "loop")
ClearFlag ==
    TakesBack("polluted", "average") \/ TakesBack("averaged", "loop")

(* avgVoltage.  Mutant: temp is not reset. *)
NewStandardOnly ==
    /\ i = Samples
    /\ vol_standard' = Quotient(temp, Samples)
    /\ i' = 0 /\ sum' = 0
    /\ UNCHANGED <<temp, volts, flags>>
NewStandard ==
    /\ i = Samples
    /\ vol_standard' = Quotient(temp, Samples)
    /\ temp' = 0 /\ i' = 0 /\ sum' = 0
    /\ UNCHANGED <<volts, flags>>

AddReading ==
    /\ i # Samples
    /\ Meanwhile
    /\ \E f \in SeenFirst : temp' = Int16(temp + f) /\ sum' = sum + f
    /\ i' = i + 1
    /\ UNCHANGED vol_standard

AvgVoltage ==
    /\ at \in {"average", "fresh"}
    /\ at' = IF at = "average" THEN "loop" ELSE "averaged"
    /\ NewStandard \/ AddReading
    /\ UNCHANGED initVars

AirStep ==
    WaitForSensor \/ InitEnds \/ Slope \/ Compare \/ ClearFlag \/ AvgVoltage
AirNext == AirStep \/ Interrupt
AirSpec == AirInit /\ [][AirNext]_airVars

-----------------------------------------------------------------------------
AirTypeOK ==
    /\ at \in {"init", "loop", "force", "high", "low", "polluted", "average",
              "fresh", "averaged"}
    /\ tries \in 0 .. 4 /\ error \in BOOLEAN
    /\ first_vol \in Volts \cup {0} /\ last_vol \in Volts \cup {0}
    /\ latest \in Volts \cup {0} /\ previous \in Volts \cup {0}
    /\ temp \in Int /\ 2 * temp \in -Word .. Word - 1
    /\ vol_standard \in Int /\ 2 * vol_standard \in -Word .. Word - 1
    /\ i \in 0 .. Samples /\ counter \in 0 .. Duty
    /\ sum \in 0 .. 1023 * Samples
    /\ timer_index \in BOOLEAN /\ disturbed \in BOOLEAN /\ judged \in BOOLEAN

(* Unless a reading comes while it compares, slope calls the air fresh exactly
   if the newest reading is at most 200 above the one before, at most 50 above
   the standard and at most 700; a reading of 700 itself passes both f > 700
   and f < 700 and a rise to it goes unnoticed (AirQuality.cpp:92-129 and the
   interrupt, NB-IoT_node.ino:230-244). *)
Polluted ==
    latest - previous > 200 \/ latest - vol_standard > 50 \/ latest > 700
VerdictIsRight ==
    at \in {"fresh", "polluted"} /\ ~disturbed /\ latest # 700 =>
        (at = "fresh" <=> ~Polluted)

(* No reading is judged by two calls of slope: a call that begins finds one
   that no call before it has compared, nor can have, though readings come at
   any step of slope (AirQuality.cpp:95-125: the flag is taken back on every
   path, and after the comparisons).  It says nothing of the standard, to which
   a reading that comes within avgVoltage is added there and by the next call. *)
JudgedOnce == at = "loop" /\ timer_index => ~judged

(* The standard is the mean of the readings added since the one before, if
   their sum fits an int; 150 readings above 218 do not
   (AirQuality.cpp:26-41). *)
StandardIsMean ==
    [][i = Samples /\ i' = 0 /\ 2 * sum < Word
           => vol_standard' = sum \div Samples]_airVars
=============================================================================
