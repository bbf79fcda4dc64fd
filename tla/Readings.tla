------------------------------ MODULE Readings ------------------------------
(***************************************************************************)
(* The readings of the sensors on their way into a measurement: the two    *)
(* temperature sensors (Sodaq_TPH.cpp), the packet the sketch packs them   *)
(* into, and what createMeasurement of the agent reads out of it.          *)
(* Temperatures are in hundredths of a degree.                             *)
(***************************************************************************)
EXTENDS Integers, Sequences

(* The byte of a number that begins at this power of two, as >> and & take it. *)
ByteOf(k, power) == (k \div power) % 256

Int16(k) == LET m == k % 65536 IN IF m < 32768 THEN m ELSE m - 65536
SignedByte(b) == IF b < 128 THEN b ELSE b - 256

(* A sensor of humidity and temperature that does not answer at once reads 0,
   which becomes no humidity and the lowest temperature. *)
NoTemperature == -27300
GetTemperature(answers, t) == IF answers THEN t ELSE NoTemperature
GetHumidity(answers, h) == IF answers THEN h ELSE 0

(* The average of the sensors that are warmer than -200 degrees.  Mutant: it
   is always divided by two. *)
AverageOfTwo(bmp, sht) ==
    LET Warm(t) == IF t > -20000 THEN t ELSE 0
    IN  (Warm(bmp) + Warm(sht)) \div 2
ReadTemperature(bmp, sht) ==
    CASE bmp > -20000 /\ sht > -20000 -> (bmp + sht) \div 2
      [] bmp > -20000 /\ sht <= -20000 -> bmp
      [] bmp <= -20000 /\ sht > -20000 -> sht
      [] OTHER -> NoTemperature

(* loop(): the temperature is shifted above zero and cut to an int. *)
ConvertedTemp(t) == Int16(t + 27315)

Packet(s) ==
    LET temp == ConvertedTemp(s.temperature)
    IN  <<ByteOf(s.light, 256), ByteOf(s.light, 1),
          ByteOf(s.loudness, 256), ByteOf(s.loudness, 1),
          ByteOf(s.motion, 1),
          ByteOf(temp, 256), ByteOf(temp, 1),
          ByteOf(s.humidity, 1),
          ByteOf(s.pressure, 65536), ByteOf(s.pressure, 256), ByteOf(s.pressure, 1),
          ByteOf(s.battery, 256), ByteOf(s.battery, 1),
          ByteOf(s.airquality, 1)>>

(* createMeasurement: hexadecimal text read as a number, and signed bytes.
   Mutant: all of it unsigned. *)
CreateUnsigned(b) ==
    [light |-> 256 * b[1] + b[2], loudness |-> 256 * b[3] + b[4],
     motion |-> b[5], temperature |-> 256 * b[6] + b[7] - 27315,
     humidity |-> b[8],
     pressure |-> 65536 * b[9] + 256 * b[10] + b[11],
     battery |-> 256 * b[12] + b[13], airquality |-> b[14]]
CreateMeasurement(b) ==
    [light |-> 256 * b[1] + b[2], loudness |-> 256 * b[3] + b[4],
     motion |-> SignedByte(b[5]), temperature |-> 256 * b[6] + b[7] - 27315,
     humidity |-> SignedByte(b[8]),
     pressure |-> 65536 * b[9] + 256 * b[10] + b[11],
     battery |-> 256 * b[12] + b[13], airquality |-> SignedByte(b[14])]
=============================================================================
